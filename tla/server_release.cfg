CONSTANTS
    Workers = {w1}
    Consumers = {c1}
    Players = {p1}
    NoThread = NoThread
    NoObject = NoObject
    MaxPush = 1
    MaxChats = 1
SPECIFICATION FairServerSpec
PROPERTY ClosedSessionsReleased
