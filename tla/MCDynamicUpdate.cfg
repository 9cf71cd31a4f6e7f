CONSTANTS
  N = 5
  MaxLength = 4
  Threads = {t1, t2}
  Junk = 9
  NoResult = NoResult
  LogicError = LogicError
  Requests <- MCRequests

SYMMETRY Symmetry

SPECIFICATION UpdateSpec

INVARIANTS
  VisitedRestored
  LedgersExact
  SlicesPrivate

PROPERTIES
  UpdateIsRecompute
