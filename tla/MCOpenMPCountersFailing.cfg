CONSTANTS
  N = 4
  Threads = {t1, t2}
  Requests <- MCFailingRequests
  Unbounded = Unbounded
  NoResult = NoResult
  Thrown = Thrown
  Terminated = Terminated
  TimeMax = 10

SPECIFICATION FairSpec

INVARIANT FailureThrown
