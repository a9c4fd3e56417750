SPECIFICATION Spec
CONSTANTS
    Cap = 2
    Items <- MCItems
    Firsts = {"socks", "connect", "http", "tls", "part", "junk"}
CHECK_DEADLOCK FALSE
INVARIANTS TypeOK RemoteGetsPayload ClientGetsPayload
PROPERTIES ClientEndsAll  CloseTunnelReturns
