SPECIFICATION SceneSpec
CONSTANTS
  v1 = v1
  v2 = v2
  del = del
  Keys <- JoinKeys
  Writers = {1, 2}
  Values = {v1, v2}
  PartedValues = {v2}
  Deleted = del
  DeviceIds = {d1, d2}
  OperationIds = {o1, o2, o3}
  Requests <- SceneRequests
  Never = never
  MAX_CLOCK_SKEW = 2
  RETENTION = 1
  PIN_LIFETIME = 1
  PINS_KEPT = 1
  MaxTime = 1
  MaxPins = 3
  MaxEpoch = 1
SYMMETRY Perms
INVARIANTS
  TypeOK
  LevelOneHoldsNoParts
  JournalMirrorsLibrary
  NothingLivesBelowTheRetired
  PinTailReachesLibrary
  AcceptedRequestsAreSpent
PROPERTIES
  RecentCursorsStayReadable
  AnswersStand
  UnitsLeaveOnlyBelowRetirements
  ImplementsLibrary
CHECK_DEADLOCK FALSE
