CONSTANTS
    Connectors = {t1, t2}
    Main = Main
    NoThread = NoThread
    MaxSessions = 3
    MaxFrames = 2
SPECIFICATION FairSpec
INVARIANTS TypeOK AddSafe
PROPERTIES EverySessionOpens
