SPECIFICATION Spec
CONSTANTS
    a = a
    b = b
    q1 = q1
    q2 = q2
    x = x
    y = y
    w = w
    Servers = {a, b}
    Order <- MCOrder
    Profiles = {q1, q2}
    Addrs = {x, y}
    Published <- MCAllZones
    Callers = {c1}
    k1 = k1
    Keys = {k1}
    StickyKeys = {}
    r1 = r1
    r2 = r2
    r3 = r3
    Rules = {r1, r2, r3}
    Hits <- MCHits
    Priority <- MCPriority
    Named <- MCNamed
    Direct = Direct
    Reject = Reject
    Strategy = "round_robin"
    Loads = {0}
    CounterMod = 2
    TTL = 0
    MaxTime = 0
    MaxDispatches = 1
    MaxPublications = 2
    MaxFlips = 1
    MaxChanges = 3
    RecordIds = {o1}
    NoAddr = NoAddr
    NoRecord = NoRecord
    NoServer = NoServer
CHECK_DEADLOCK FALSE
SYMMETRY SameObjects
INVARIANTS
    RouteUsable
    RulesFirst
