CONSTANTS
  N = 7
  Width = 1
  Unbounded = Unbounded
  NoResult = NoResult
  Requests <- MCBoundedRequests

SPECIFICATION ParitySpec

INVARIANT TimeWindowAlgorithmsAgree
