CONSTANTS
    N = 2
    Retention = 1
    MaxRows = 2
    MaxUnsaved = 1
    Column = {"a", "b", "k"}
    Key = "k"
    First <- Created
SPECIFICATION Spec
INVARIANTS RowsKept ViewExact Uniform Restorable
PROPERTIES RetentionKept
