SPECIFICATION Spec
CONSTANTS
    a = a
    v = v
    c = c
    Deleted = Deleted
    NoBody = NoBody
    NoPublication = NoPublication
    NoProof = NoProof
    NoJob = NoJob
    Keys <- SegmentKeys
    Writers = {1, 2}
    Values = {a, v}
    PartedValues = {}
    Bodies = {a}
    REUSE_LIMIT = 1
    GRACE = 2
    SettleLimit = 0
    Works <- SegmentWorks
INVARIANTS
    TypeOK
    KeptRootsAreWhole
    NothingPublishedIsLost
    CheckpointsHoldWhatTheyCover
    SequencesAreUnique
    DevicesHoldWhatTheyCount
CHECK_DEADLOCK FALSE
