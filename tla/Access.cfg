SPECIFICATION Spec
CONSTANTS
    p1 = p1
    p2 = p2
    c1 = c1
    c2 = c2
    c3 = c3
    k1 = k1
    k2 = k2
    Proc = {p1, p2}
    Req = {c1, c2, c3}
    Key = {k1, k2}
    Role = {admin, editor}
    SysAdmin = admin
    NoReq = NoReq
    TTL = 1
    Instances <- MCInstances
CHECK_DEADLOCK FALSE
INVARIANTS
    StaleOnlyIfExcused
    SystemAdminRemains
PROPERTIES
    CacheConverges
    WaitersReleased
