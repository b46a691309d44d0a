SPECIFICATION Spec
CONSTANTS
  o1 = o1
  o2 = o2
  d1 = d1
  d2 = d2
  Owners = {o1, o2}
  Devices = {d1, d2}
  Host <- OnTwoDevices
  JobMixes <- Mixes
  Offsets <- WrongClocks
  TrustedOffset = 1
  LEASE_TTL = 4
  RENEW_AFTER = 1
  RELATIVE_CLOCK_ERROR = 2
  SAFETY_MARGIN = 2
  CLEANUP_RUN_LIMIT = 2
  REQUEST_LIMIT = 1
  NoLease = NoLease
  NoSurvey = NoSurvey
  MaxTime = 4
  MaxEvents = 1
  Never = Never
  StartOffset <- FarApart
INVARIANTS
  TypeOK
  ProtectedJobsAreCompatible
  DeletesMeetNoOtherJob
  WorkingLeasesStayListed
CHECK_DEADLOCK FALSE
