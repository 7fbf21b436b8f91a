SPECIFICATION MCFleetSpec
CONSTANTS
  unary = unary
  streamed = streamed
  m1 = m1
  a1 = a1
  Worker <- MCWorker
  Rank <- MCRank
  Slots <- MCSlots
  Serves <- MCServes
  Address = {a1, a2}
  Model = {m1}
  Session = {s1}
  Caller = {unary, streamed}
  StreamingCaller = {streamed}
  NoWorker = NoWorker
  NoSession = NoSession
  HeartbeatTimeout = 0
  AffinityTTL = 0
  MaxCrashes = 1
  MaxRestarts = 1
  MaxLost = 1
  MaxBreaks = 1
  MaxFaults = 3
INVARIANTS
  ReservationMatchesStep
  NoEarlyRelease
PROPERTIES
  WorkersBecomeKnown
  ImplementsRegistry
  CountsConverge
  ReservationsEnd
CHECK_DEADLOCK FALSE
