CONSTANTS
    Client = {c1, c2}
    NumReaders = 1
    WriteQueueSize = 1
    ReadQueueSize = 1
    SnapshotQueueSize = 1
    Kinds <- BeginKinds
    Panics = FALSE
    Stops = FALSE
    MaxReq = 2
SPECIFICATION Spec
INVARIANT NoTransactionLeak
CHECK_DEADLOCK FALSE
