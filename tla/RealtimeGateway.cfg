SPECIFICATION GatewaySpec
CONSTANTS
    k1 = k1  k2 = k2  ann = ann  chat = chat  tbl = tbl  m1 = m1
    r1 = r1  r2 = r2  r3 = r3
    Conns = {k1, k2}
    Channels = {chat, tbl}
    Tables = {tbl}
    UserOf <- MCUserOf
    Requests = {r1, r2, r3}
    Changes = {m1}
    MaxConns = 2
    MaxSubs = 1
    MaxFaults = 1
    Null = Null
CHECK_DEADLOCK FALSE
SYMMETRY Symmetry
INVARIANTS PresentMeansListening OvershootHasAReason SteadySubscribersAreServed
