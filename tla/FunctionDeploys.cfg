SPECIFICATION Spec
CONSTANTS
    f1 = f1  d1 = d1  d2 = d2  d3 = d3  i1 = i1  i2 = i2
    b1 = b1  b2 = b2  bad = bad  k1 = k1
    Fns = {f1}
    Deploys = {d1, d2, d3}
    Invocations = {i1, i2}
    Builds = {b1, b2, bad}
    Broken = {bad}
    Keys = {k1}
    MaxConcurrency = 1
    MaxRequests = 3
    MaxRestarts = 1
    None = None
CHECK_DEADLOCK FALSE
INVARIANTS ReadyIsVerified NewestDeployDecides InFlightIsExact
PROPERTY DeploymentsSettle
