SPECIFICATION Spec
CONSTANTS
    r1 = r1
    r2 = r2
    pay = pay
    sub = sub
    Req = {r1, r2}
    Payment = {pay}
    Subscription = {sub}
    Last = 3
    Instances <- MCInstances
CHECK_DEADLOCK FALSE
INVARIANTS
    EventCountsOnce
    StaleIsExplained
    CatalogExplained
