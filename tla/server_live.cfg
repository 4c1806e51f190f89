CONSTANTS
    Workers = {w1, w2}
    Consumers = {c1}
    Players = {p1, p2}
    NoThread = NoThread
    NoObject = NoObject
    MaxPush = 2
    MaxChats = 1
SPECIFICATION FairServerSpec
PROPERTIES EveryClientEnters EveryChatReachesAll
