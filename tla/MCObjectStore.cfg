SPECIFICATION FairSpec
CONSTANTS
    large = large
    small = small
    record = record
    d1 = d1
    d2 = d2
    Objects = {large, small, record}
    Small = {small, record}
    Large = {large}
    Names <- Naming
    Devices = {d1, d2}
    UnitKeys = {1}
    UploadIds = {1, 2}
    Nothing = Nothing
    ShardOf <- Shards
    ChunksOf <- TwoChunks
    Works <- ObjectWorks
INVARIANTS
    TypeOK
    HeldBodiesAreThere
    ReadersFindWhatStays
    CustodyStands
    UploadsLoseOnlyStaleChunks
PROPERTIES
    UnaccountedBodiesGo
    SubmittedUploadsEnd
CHECK_DEADLOCK FALSE
