CONSTANTS
  N = 4
  MaxLength = 4
  BlockSize = 2
  TimeMax = 9
  OffsetMax = 25
  Junk = 7
  NoResult = NoResult
  Refused = Refused
  Requests <- MCRequests

SPECIFICATION FairSpec

INVARIANTS
  PathsIntact
  DeviceSearchAgrees
  UnionKeepsCycles
  SplitCountsOnce

PROPERTIES
  CountsCycles
  CallEnds
