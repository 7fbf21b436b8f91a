SPECIFICATION Spec
CONSTANTS
  r1 = r1
  r2 = r2
  r3 = r3
  s1 = s1
  NoSession = NoSession
  NoRequest = NoRequest
  Request = {r1, r2, r3}
  Session = {s1}
  SessionOf <- MCSessionOf
  Streaming = {r2}
  Waits = TRUE
  JobsCap = 1
INVARIANTS
  LeasesMatchOwners
  SessionSerialised
  NoLostWakeup
PROPERTIES
  RequestEnds
CHECK_DEADLOCK FALSE
