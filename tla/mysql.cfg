CONSTANTS
    s1 = s1
    p1 = p1
    int = int
    uint = uint
    long = long
    longlong = longlong
    d1 = d1
    d2 = d2
    Sql = {s1, p1}
    ParamSql = {p1}
    Type = {int, uint}
    Unsigned = {uint}
    Code = {long, longlong}
    IntegerCode = {long, longlong}
    CodeOf <- TypeCodes
    Half = 1
    Database = {d1, d2}
    First = d1
    MaxStatementId = 2
    MaxPrepares = 3
    MaxUnanswered = 2
CHECK_DEADLOCK FALSE
SPECIFICATION FairSpec
INVARIANTS
    InSync
    RunsWhatWasAsked
PROPERTIES
    AnsweredOrClosed
