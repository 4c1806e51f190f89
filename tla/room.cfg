CONSTANTS
    Workers = {w1, w2}
    Consumers = {c1}
    Players = {p1, p2}
    NoThread = NoThread
    NoObject = NoObject
    MaxPush = 3
SPECIFICATION Spec
SYMMETRY Symmetry
INVARIANTS TypeOK NothingLost SameOrder
PROPERTY ImplementsBroadcast
