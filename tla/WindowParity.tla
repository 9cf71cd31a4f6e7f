---------------------------- MODULE WindowParity ----------------------------
(***************************************************************************)
(* The two sequential counters of cycles within a time window, given the   *)
(* same request one after the other: what SimpleTimeWindowAlgorithmsAgree, *)
(* a parity test of the repository, does with one graph.                   *)
(*                                                                         *)
(* JohnsonWindow goes first; its names are used as they are.  For the      *)
(* same graph view, bound and cycles ReadTarjanWindow follows, over the    *)
(* variables declared here.                                                *)
(***************************************************************************)
EXTENDS JohnsonWindow

VARIABLES
  rtLeft, rtStart, rtCalls, rtCurrent, rtHistogram, rtResult, rtCounted

rtVars == <<rtLeft, rtStart, rtCalls, rtCurrent, rtHistogram, rtResult, rtCounted>>

ReadTarjan == INSTANCE ReadTarjanWindow
                WITH left <- rtLeft, start <- rtStart, calls <- rtCalls,
                     current <- rtCurrent, histogram <- rtHistogram,
                     result <- rtResult, counted <- rtCounted

ParityInit == Init /\ ReadTarjan!Constructed

JohnsonSteps == Next /\ UNCHANGED rtVars

ReadTarjanSteps == result # NoResult /\ ReadTarjan!Next /\ UNCHANGED vars

ParityNext == JohnsonSteps \/ ReadTarjanSteps

ParitySpec == ParityInit /\ [][ParityNext]_<<vars, rtVars>>

-----------------------------------------------------------------------------
(***************************************************************************)
(* Properties.                                                             *)
(***************************************************************************)
\* The Read-Tarjan search counts cycles within the window and the bound only, and
\* none of them twice, though it may start an alternate path at the root.
CountsNothingTwice == ReadTarjan!CountsNothingTwice

\* Both counters return what the brute-force counter returns, with a bound or
\* without, as the parity test asserts: no flag that either keeps of a failed
\* search hides a cycle from it.
TimeWindowAlgorithmsAgree ==
  rtResult # NoResult =>
    LET expected == WindowHistogram(cycles, N)
    IN  result = expected /\ rtResult = expected
=============================================================================
