\* Three requests for one permit and two places in each queue.
SPECIFICATION Spec
CONSTANTS
    Request = {r1, r2, r3}
    Token = {t1}
    Limit = 1
    Capacity = 2
    Others = 2
    Event = 2
    Op <- MCOp
INVARIANTS
    PermitsConserved
    WorkBounded
    RefusedNotRun
    OutboxDelivered
PROPERTIES
    PermitsReturn
