CONSTANTS
  N = 5
  MaxCycleLength = 4
  ResidentBlocks = 2
  BlockSize = 2
  Junk = 5
  NoResult = NoResult
  Graphs <- MCGraphs

SPECIFICATION FairSpec

INVARIANTS
  TypeOK
  StackOK
  ClaimsExclusive
  CountedArePassed
  TalliesExact
  ResultExact

PROPERTIES
  StacksPrivate
  CountsCycles
  Returns
