CONSTANTS
    N = 2
    IoThreads = {t1, t2}
    Window = 1
SPECIFICATION FairSpec
INVARIANTS TypeOK QuietAtReturn OneRead
PROPERTIES Terminates KeepsReading
CHECK_DEADLOCK FALSE
