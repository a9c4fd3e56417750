SPECIFICATION Spec
CONSTANTS
    Sessions = {s1, s2}
    MaxID = 2
    ChanSize = 1
    Dials = 2
    MaxData = 2
    MaxNet = 1
    MaxFaults = 1
    None = None
SYMMETRY Symmetry
CHECK_DEADLOCK FALSE
INVARIANTS TypeOK 
PROPERTY OrderedStreams
