SPECIFICATION Spec
CONSTANTS
    Slots = {p1, p2}
    Managers = {m1, m2, m3}
    Rules = {a, b}
    NRules = 2
    Sites = {s1, s2}
    g1 = g1
    g2 = g2
    Gateways = {g1, g2}
    Enabled = {g1}
    Balancer <- SameBalancer
    FilesFail = TRUE
    MaxOps = 2
    Torn = Torn
    Nobody = Nobody
    NoRule = NoRule
    NoGateway = NoGateway
    NoManager = NoManager
CHECK_DEADLOCK FALSE
INVARIANTS
    TypeOK
    RoutingApplied
    DiskMatches
PROPERTIES
    UpdatesEnd
