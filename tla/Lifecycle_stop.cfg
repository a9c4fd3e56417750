SPECIFICATION Spec
CONSTANTS
    Stoppers = {p1, p2}
    Instances = {i1, i2}
    Clients = {c1, c2}
    MaxPasses = 3
    Nobody = Nobody
    Finished = Finished
    Request = Request
    NoInstance = NoInstance
CHECK_DEADLOCK FALSE
PROPERTY StopReturns
