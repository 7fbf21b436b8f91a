SPECIFICATION Spec
CONSTANTS
  w1 = w1
  w2 = w2
  caller = caller
  Process = {w1, w2, caller}
  Library = {caller}
  Override = {w2}
  WithMetal = {w1}
  MaxLives = 3
  NoFile = NoFile
INVARIANTS
  ListedIsVerified
  ListedIsProbed
PROPERTIES
  CancelEnds
CHECK_DEADLOCK FALSE
