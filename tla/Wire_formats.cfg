SPECIFICATION Spec
CONSTANTS
    Base = 8
    V4 = 2
    V6 = 4
    HelloFixed = 2
    NoPort = NoPort
    Size = 3
    ReadSizes = {1, 5}
    MaxFrame = 4
    Hosts <- MCHosts
    Ports <- MCPorts
    Payloads <- MCPayloads
    Hellos <- MCHellos
INVARIANTS TypeOK TargetArrives TargetIsSeen DataArrives
PROPERTIES IsByteStream AllIsRead
CHECK_DEADLOCK FALSE
