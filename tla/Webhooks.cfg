SPECIFICATION Spec
CONSTANTS
    h1 = h1
    h2 = h2
    r1 = r1
    r2 = r2
    w1 = w1
    w2 = w2
    Hook = {h1, h2}
    Handler = {r1, r2}
    Worker = {w1, w2}
    MaxAttempts = 2
    Pattern <- MCPattern
    Topic <- MCTopic
    Instances <- MCInstances
CHECK_DEADLOCK FALSE
INVARIANTS
    EachMatchServed
    OutcomeHonest
    PanicNeedsOverlap
PROPERTIES
    DeliverySettles
