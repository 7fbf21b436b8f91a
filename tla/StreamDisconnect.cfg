SPECIFICATION Spec
CONSTANTS
  MaxDeltas = 6
  SdkCap = 2
  WorkerCap = 1
  WireCap = 1
  PublicCap = 1
PROPERTIES
  DisconnectReleases
CHECK_DEADLOCK FALSE
