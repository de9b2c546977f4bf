CONSTANTS
    p1 = p1  p2 = p2
    w1 = w1  w2 = w2
    k1 = k1
    None = None
    Publishes = {p1, p2}
    Key <- OneKey
    Consumers = {w1, w2}
    Limits = {1, 2}
    MaxDeliveries = 2
    Excess = 1
    ListWindow = 1
SPECIFICATION FairSpec
CHECK_DEADLOCK FALSE
INVARIANTS
    ExcessIsAccountedFor
PROPERTIES
    KeepsPromise
    EveryMessageSettles
