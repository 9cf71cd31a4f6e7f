CONSTANTS
  N = 5
  Unbounded = Unbounded
  NoResult = NoResult
  Requests <- MCRequests

SPECIFICATION Spec

INVARIANTS
  JohnsonTypeOK
  PathStaysBlocked
  BlockedIsHopeless
  WaitsForAllNeighbours

PROPERTIES
  JohnsonCounts
  JohnsonReturns
