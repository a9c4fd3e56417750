SPECIFICATION Spec
CONSTANTS
    Servers = {s1, s2}
    Profiles = {q1, q2, q3}
    Instances = {i1, i2, i3}
    Requests = {r1, r2}
    Main = main
    MetricValues = {0}
    FailureThreshold = 1
    MaxOps = 3
    MaxCrashes = 1
    NoInstance = NoInstance
    NoProfile = NoProfile
    NoServer = NoServer
    Nobody = Nobody
    Torn = Torn
SYMMETRY Symmetry
CHECK_DEADLOCK FALSE
INVARIANTS
    TypeOK
    InstancesOwned
    ActiveHasInstance
    ConsistentPublication
    FileUpToDate
