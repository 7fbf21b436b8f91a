SPECIFICATION Spec
CONSTANTS
  MaxDeltas = 9
  SdkCap = 2
  WorkerCap = 2
  WireCap = 2
  PublicCap = 2
INVARIANTS
  TextInOrder
  ReleasedAfterEnd
PROPERTIES
  ImplementsDelivery
  DisconnectReleasesOrClogs
  ReaderSeesEnd
CHECK_DEADLOCK FALSE
