SPECIFICATION FairSpec
CONSTANTS
    e1 = e1  t1 = t1
    h1 = h1
    worker = worker
    None = None
    Worker = worker
    Events = {e1}
    Tests = {t1}
    Hooks = {h1}
    MaxAttempts = 4
    Backoffs = 2
    MaxEmits = 1
    MaxCrashes = 1
    MaxRestarts = 1
CHECK_DEADLOCK FALSE
INVARIANTS
    OutcomesAreEarned
    TriesAreBounded
PROPERTY
    EveryDeliverySettlesUnlessWedged
