CONSTANTS
    n1 = n1
    n2 = n2
    n3 = n3
    c1 = c1
    c2 = c2
    Name = {n1, n2, n3}
    NoName = NoName
    Column = {c1, c2}
    First <- Created
    MaxOid = 9
    MaxUnsaved = 2
    MaxComments = 1
SPECIFICATION Spec
INVARIANTS
    NothingDangles
    CommentsOwn
    PhysicalAgrees
    ViewsProtected
    RestoresUnlessSuspect
CHECK_DEADLOCK FALSE
