SPECIFICATION Spec
CONSTANTS
    p1 = p1
    p2 = p2
    t1 = t1
    t2 = t2
    Proc = {p1, p2}
    Tenant = {t1, t2}
    TenantId <- MCTenantId
    Instances <- MCInstances
CHECK_DEADLOCK FALSE
INVARIANTS
    ChainLinks
    NothingLost
    SealsCover
    VerdictExact
