SPECIFICATION Spec
CONSTANTS
  MaxChats = 2
  MaxSends = 2
  MaxDeltas = 2
  MaxReopens = 1
INVARIANTS
  TextInItsMessage
  ActiveUntilTerminal
  QuotesStaySettled
PROPERTIES
  StopEnds
CHECK_DEADLOCK FALSE
