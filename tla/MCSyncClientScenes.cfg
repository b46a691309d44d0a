SPECIFICATION SceneSpec
CONSTANTS
  v1 = v1
  v2 = v2
  w1 = w1
  w2 = w2
  del = del
  Keys <- SceneKeys
  Writers = {1, 2}
  Values = {v1, v2, w1, w2}
  PartedValues = {}
  Deleted = del
  DeviceIds = {1, 2}
  OperationIds = {1, 2}
  Requests <- ConversationRequests
  Never = never
  MAX_CLOCK_SKEW = 1
  RETENTION = 0
  PIN_LIFETIME = 1
  PINS_KEPT = 1
  MaxTime = 0
  MaxPins = 2
  MaxEpoch = 1
  Clients = {1, 2}
  WriterOf <- TwoWriters
  Commits <- SceneCommits
  KeyOrder <- SceneOrder
  Generated <- OneMessages
  PageLimit = 1
  NoStamp = nostamp
  MaxWall = 1
  MaxLogical = 1
  MaxLost = 0
  None = none
SYMMETRY Perms
INVARIANTS
  UpToDateDevicesShowTheLibrary
  NothingBeforeTheCursorIsMissing
PROPERTIES
  VersionsOnlyAdvance
CHECK_DEADLOCK FALSE
