SPECIFICATION Spec
CONSTANTS
  Worker <- MCWorker
  Rank <- EqualRank
  Address = {a1}
  Model = {m1}
  Session = {s1}
  Caller = {c1, c2}
  NoWorker = NoWorker
  NoSession = NoSession
  Slots <- OneAndTwo
  HeartbeatTimeout = 1
  AffinityTTL = 1
INVARIANTS
  StateMatchesLoad
PROPERTIES
  NoResurrection
  AffinityKept
  SilentGoesOffline
CHECK_DEADLOCK FALSE
