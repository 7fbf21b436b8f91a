SPECIFICATION Spec
CONSTANTS
  h1 = h1
  h2 = h2
  h3 = h3
  r1 = r1
  r2 = r2
  Handler <- MCHandler
  Streaming <- MCStreaming
  IdOf <- MCIdOf
  RequestId = {r1, r2}
  Canceller = {c1}
  MaxRequests = 2
  NoHandler = NoHandler
INVARIANTS
  SlotAccounting
  AckMeansFinished
PROPERTIES
  ImplementsSlots
  CancelAnswered
CHECK_DEADLOCK FALSE
