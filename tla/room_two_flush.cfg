CONSTANTS
    Workers = {w1, w2}
    Consumers = {c1, c2}
    Players = {p1}
    NoThread = NoThread
    NoObject = NoObject
    MaxPush = 3
SPECIFICATION FairSpec
INVARIANTS NothingLost NoDuplicates
PROPERTIES EveryChatArrives
