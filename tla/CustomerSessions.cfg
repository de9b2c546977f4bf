SPECIFICATION Spec
CONSTANTS
    s1 = s1  m1 = m1  m2 = m2  r1 = r1  r2 = r2  r3 = r3  c1 = c1
    p1 = p1  a1 = a1  d1 = d1  o1 = o1  ml = ml  rl = rl
    SignIns = {s1}
    Redeems = {m1, m2}
    Refreshes = {r1, r2, r3}
    Changes = {c1}
    Resets = {p1}
    Admins = {a1}
    Deletions = {d1}
    SignOuts = {o1}
    MagicLinks = {ml}
    ResetLinks = {rl}
    MaxUsed = 2
    MaxRequests = 4
    MaxCrashes = 1
    None = None
CHECK_DEADLOCK FALSE
SYMMETRY Symmetry
INVARIANTS SessionsProveThePassword ClosedUsersHaveNoSession TokensAreCurrentOrRetired ReuseMeansShownTwice
PROPERTY SpentLinksAreNotFound
