CONSTANTS
    Client = {c1, c2, c3}
    NumReaders = 2
    WriteQueueSize = 1
    ReadQueueSize = 1
    SnapshotQueueSize = 1
    Kinds <- EveryKind
    Panics = TRUE
    Stops = FALSE
    MaxReq = 3
SPECIFICATION Spec
SYMMETRY Symmetry
INVARIANTS SnapshotConsistent MaintenanceWhole AckedApplied AppliedOnce ReadsSeeAcked
CHECK_DEADLOCK FALSE
