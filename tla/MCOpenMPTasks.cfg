CONSTANTS
  N = 4
  Threads = {t1, t2}
  Unbounded = Unbounded
  Nobody = Nobody
  NoResult = NoResult
  Requests <- MCRequests

SPECIFICATION FairSpec

INVARIANTS
  OnePlace
  NestingBounded

PROPERTIES
  TasksCount
  TasksJoin
