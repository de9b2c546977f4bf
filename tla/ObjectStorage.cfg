SPECIFICATION Spec
CONSTANTS
    u1 = u1  u2 = u2  u3 = u3  k1 = k1  m1 = m1  d1 = d1  b1 = b1
    a = a  b = b  c = c
    None = None
    Uploads = {u1, u2, u3}
    Copies = {k1}
    Moves = {m1}
    Removes = {d1}
    Drops = {b1}
    From <- Source
    To <- Target
    Upsert = {u2}
    Size <- OneLargeLarge
    MaxFileBytes = 2
    Quota = 3
    MaxInFlight = 3
    MaxFaults = 1
CHECK_DEADLOCK FALSE
INVARIANTS
    RowsDescribeBytes
    NoStrayBytes
    OvershootIsBounded
    GoneBucketsAreEmpty
