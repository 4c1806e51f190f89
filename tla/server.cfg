CONSTANTS
    Workers = {w1, w2}
    Consumers = {c1}
    Players = {p1, p2}
    NoThread = NoThread
    NoObject = NoObject
    MaxPush = 4
    MaxChats = 2
SPECIFICATION ServerSpec
SYMMETRY Symmetry
INVARIANTS ServerTypeOK AcceptChain RecvExclusive StartedBeforeUse SessionsIndexed PerSenderOrder HeardInOrder
