SPECIFICATION Spec
CONSTANTS
    Servers = {s1}
    Connections = {c1, c2, c3}
    Users = {u1, u2}
    MaxPoolSize = 3
    MaxIdle = 0
PROPERTY ServerClosed
