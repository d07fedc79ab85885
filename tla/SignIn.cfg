SPECIFICATION Spec
CONSTANTS
    r1 = r1
    r2 = r2
    a = a
    b = b
    NoEmail = NoEmail
    Req = {r1, r2}
    Email = {a, b}
    Threshold = 2
    Instances <- MCInstances
CHECK_DEADLOCK FALSE
INVARIANTS
    EndedStaysEnded
    RedeemedOnce
    VerifiedIsProven
    LockHolds
