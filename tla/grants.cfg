CONSTANTS
    Admin = Admin
    AdminRole = AdminRole
    Reader = Reader
    u1 = u1
    r1 = r1
    t1 = t1
    q1 = q1
    UserName = {Admin, u1}
    RoleName = {AdminRole, Reader, r1}
    TableName = {t1}
    Request = {q1}
    Grantable <- Some
    Grantee <- Them
    MaxId = 6
    MaxRows = 6
    MaxChanges = 2
CHECK_DEADLOCK FALSE
SPECIFICATION Spec
INVARIANTS
    ReadsGranted
PROPERTIES
    NewHasDefaults
    RefusedRightly
