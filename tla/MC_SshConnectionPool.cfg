SPECIFICATION FairSpec
CONSTANTS
    Servers = {s1, s2}
    Connections = {c1, c2, c3}
    Users = {u1, u2}
    MaxPoolSize = 2
    MaxIdle = 0
INVARIANTS
    TypeOK
    PoolBounded
    LiveIsKnown
PROPERTIES
    UnusedLeaves
