CONSTANTS
    Client = {c1, c2}
    NumReaders = 1
    WriteQueueSize = 2
    ReadQueueSize = 1
    SnapshotQueueSize = 1
    Kinds <- RefinementKinds
    Panics = FALSE
    Stops = TRUE
    MaxReq = 3
SPECIFICATION FairSpec
PROPERTIES RequestsAnswered ShutdownCompletes ImplementsSerialStore
CHECK_DEADLOCK FALSE
