CONSTANTS
  N = 4
  Width = 1
  Unbounded = Unbounded
  NoResult = NoResult
  Requests <- MCRequests

SPECIFICATION ParitySpec

INVARIANTS
  WindowPathSimple
  WindowBlockedIsHopeless

PROPERTIES
  CountsWindowCycles
  CountsNothingTwice
