CONSTANTS
    r1 = r1  r2 = r2  r3 = r3  r4 = r4
    q1 = q1
    d1 = d1
    t0 = t0
    deleteA = deleteA  deleteB = deleteB
    None = None
    FirstToken = t0
    Requests = {r1, r2, r3, r4}
    Operation <- ThreeOfFour
    Rotations = {q1}
    Decisions = {d1}
    OrgListed = TRUE
    MaxCrashes = 1
SPECIFICATION Spec
CHECK_DEADLOCK FALSE
SYMMETRY Symmetry
INVARIANT RunsAsApproved
PROPERTY ImplementsGrant
