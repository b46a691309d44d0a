SPECIFICATION InterruptedSpec
CONSTANTS
  v1 = v1
  v2 = v2
  del = del
  Keys <- OneKey
  Writers = {1, 2}
  Values = {v1, v2}
  PartedValues = {}
  Deleted = del
  DeviceIds = {1, 2}
  OperationIds = {1, 2}
  Requests <- OneRequest
  Never = never
  MAX_CLOCK_SKEW = 0
  RETENTION = 2
  PIN_LIFETIME = 1
  PINS_KEPT = 1
  MaxTime = 1
  MaxPins = 0
  MaxEpoch = 0
  Clients = {1}
  WriterOf <- OneWriter
  Commits <- OneKeyCommits
  KeyOrder <- OneKeyOrder
  Generated = {}
  PageLimit = 1
  NoStamp = nostamp
  MaxWall = 1
  MaxLogical = 0
  MaxLost = 1
  None = none
INVARIANTS
  SystemTypeOK
  NoChangeIsForgotten
  GivenUpMeansUnpublished
CHECK_DEADLOCK FALSE
