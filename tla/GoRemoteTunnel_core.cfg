SPECIFICATION Spec
CONSTANTS
    Sessions = {s1}
    Relays = {u1}
    Checkers = {h1}
    Tunnels = {t1, t2}
    NoTunnel = NoTunnel
    MaxCalls = 3
CHECK_DEADLOCK FALSE
INVARIANTS
    TypeOK
    OneDialer
    NoLostTunnel
PROPERTY CallsEnd
