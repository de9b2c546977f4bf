SPECIFICATION FairSpec
CONSTANTS
    c1 = c1  c2 = c2  r1 = r1  d1 = d1
    o1 = o1  o2 = o2  s1 = s1  s2 = s2  k1 = k1  n1 = n1
    None = None
    Creates = {c1, c2}
    Reprovisions = {}
    Deletes = {}
    Orgs = {o1, o2}
    Slugs = {s1, s2}
    Keys = {k1}
    Body <- TwoOrgs
    Names = {n1}
    NameOf <- OneName
    MaxAttempts = 2
    MaxRequests = 2
    MaxFaults = 0
    MaxCrashes = 1
CHECK_DEADLOCK FALSE
PROPERTIES OrphansAreReaped
