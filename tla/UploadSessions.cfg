SPECIFICATION Spec
CONSTANTS
    q1 = q1  q2 = q2  q3 = q3
    c1 = c1  c2 = c2  a1 = a1
    None = None
    Puts = {q1, q2, q3}
    Index <- TwoAndRetry
    Completes = {c1, c2}
    Aborts = {a1}
    MaxFaults = 1
CHECK_DEADLOCK FALSE
SYMMETRY Symmetry
INVARIANTS
    ObjectHasNoGap
    CompletedHasObject
    AckedPartsAreKept
