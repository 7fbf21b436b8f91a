SPECIFICATION FleetSpec
CONSTANTS
  unary = unary
  streamed = streamed
  m1 = m1
  a1 = a1
  Worker <- MCWorker
  Rank <- MCRank
  Slots <- MCSlots
  Serves <- MCServes
  Address = {a1}
  Model = {m1}
  Session = {}
  Caller = {unary}
  StreamingCaller = {}
  NoWorker = NoWorker
  NoSession = NoSession
  HeartbeatTimeout = 0
  AffinityTTL = 0
  MaxCrashes = 0
  MaxRestarts = 0
  MaxLost = 0
  MaxBreaks = 0
  MaxFaults = 0
PROPERTIES
  DisconnectReleases
CHECK_DEADLOCK FALSE
