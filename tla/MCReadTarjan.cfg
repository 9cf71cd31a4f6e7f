CONSTANTS
  N = 5
  Unbounded = Unbounded
  NoResult = NoResult
  Requests <- MCRequests

SPECIFICATION Spec

INVARIANTS
  KnownPathsStayOpen
  NoFruitlessBranch

PROPERTIES
  ReadTarjanCounts
