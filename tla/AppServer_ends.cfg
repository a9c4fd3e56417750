SPECIFICATION Spec
CONSTANTS
    Servers = {s1}
    Profiles = {q1, q2}
    Instances = {i1, i2}
    Requests = {r1, r2}
    Main = main
    MetricValues = {1}
    FailureThreshold = 2
    MaxOps = 2
    MaxCrashes = 1
    NoInstance = NoInstance
    NoProfile = NoProfile
    NoServer = NoServer
    Nobody = Nobody
    Torn = Torn
CHECK_DEADLOCK FALSE
PROPERTIES
    OperationsEnd
