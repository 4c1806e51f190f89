CONSTANTS
    Connectors = {t1}
    Main = Main
    NoThread = NoThread
    MaxSessions = 1
    MaxFrames = 1
SPECIFICATION Spec
INVARIANT IdsAsInProtocol
