SPECIFICATION Spec
CONSTANTS
    Clients = {c1, c2}
    Named = {d1}
    Untyped = {v1, v2}
    Short = {}
    UnknownType = UnknownType
    Invalid = Invalid
    MaxUDP = 2
    None = None
CHECK_DEADLOCK FALSE
INVARIANTS TypeOK NewestIsCurrent AnswersToAskers
 
