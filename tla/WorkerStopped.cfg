SPECIFICATION Spec
CONSTANTS
  h1 = h1
  h2 = h2
  h3 = h3
  r1 = r1
  r2 = r2
  Handler <- PairHandler
  Streaming <- MCStreaming
  IdOf <- PairIdOf
  RequestId = {r1}
  Canceller = {c1}
  MaxRequests = 2
  NoHandler = NoHandler
INVARIANTS
  ReleasedAfterStop
CHECK_DEADLOCK FALSE
