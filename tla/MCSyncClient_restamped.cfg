SPECIFICATION JoinedSpec
CONSTANTS
  v1 = v1
  v2 = v2
  del = del
  Keys <- OneKey
  Writers = {1, 2}
  Values = {v1, v2}
  PartedValues = {}
  Deleted = del
  DeviceIds = {1}
  OperationIds = {1, 2}
  Requests <- OneRequest
  Never = never
  MAX_CLOCK_SKEW = 1
  RETENTION = 1
  PIN_LIFETIME = 1
  PINS_KEPT = 1
  MaxTime = 0
  MaxPins = 0
  MaxEpoch = 0
  Clients = {1}
  WriterOf <- OneWriter
  Commits <- OneKeyCommits
  KeyOrder <- OneKeyOrder
  Generated = {}
  PageLimit = 1
  NoStamp = nostamp
  MaxWall = 1
  MaxLogical = 1
  MaxLost = 0
  None = none
INVARIANTS
  OwnVersionsAdvance
CHECK_DEADLOCK FALSE
