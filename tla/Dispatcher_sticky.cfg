SPECIFICATION Spec
CONSTANTS
    a = a
    b = b
    q1 = q1
    q2 = q2
    x = x
    y = y
    w = w
    Servers = {a, b}
    Order <- MCOrder
    Profiles = {q1, q2}
    Addrs = {x, y, w}
    Published <- MCSomeZones
    Callers = {c1, c2}
    k1 = k1
    Keys = {k1}
    StickyKeys = {k1}
    r1 = r1
    r2 = r2
    r3 = r3
    Rules = {}
    Hits <- MCHits
    Priority <- MCPriority
    Named <- MCNamed
    Direct = Direct
    Reject = Reject
    Strategy = "least_connections"
    Loads = {0}
    CounterMod = 4
    TTL = 1
    MaxTime = 2
    MaxDispatches = 3
    MaxPublications = 2
    MaxFlips = 1
    MaxChanges = 2
    RecordIds = {o1, o2, o3}
    NoAddr = NoAddr
    NoRecord = NoRecord
    NoServer = NoServer
CHECK_DEADLOCK FALSE
SYMMETRY SameCallers
INVARIANTS
    TypeOK
    RouteUsable
    ErrorOnlyWithoutBackend
