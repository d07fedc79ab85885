SPECIFICATION TenantsSpec
CONSTANTS
    t1 = t1
    t2 = t2
    u1 = u1
    u2 = u2
    u3 = u3
    r1 = r1
    r2 = r2
    s1 = s1
    s2 = s2
    Nil = Nil
    Tenant = {t1, t2}
    Person = {u1, u2, u3}
    Slug = {s1, s2}
    Req = {r1, r2}
    Instances <- MCInstances
SYMMETRY Symmetric
CHECK_DEADLOCK FALSE
PROPERTIES
    MembershipGoverned
