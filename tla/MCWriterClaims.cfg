SPECIFICATION JoinSpec
CONSTANTS
  v1 = v1
  del = del
  Keys <- ClaimKeys
  Writers = {1, 2}
  Values = {v1}
  PartedValues = {}
  Deleted = del
  DeviceIds = {d1, d2, d3}
  OperationIds = {o1}
  Requests <- PushedRequests
  Never = never
  MAX_CLOCK_SKEW = 0
  RETENTION = 0
  PIN_LIFETIME = 1
  PINS_KEPT = 1
  MaxTime = 0
  MaxPins = 1
  MaxEpoch = 1
  Authorizations = {a1, a2}
  NoDevice = none
SYMMETRY Perms
INVARIANTS
  ClaimsTypeOK
  PinTailReachesLibrary
  OneWriterPerDevice
  ClaimsOwnTheirWriter
PROPERTIES
  FormerDevicesAreSilent
CHECK_DEADLOCK FALSE
