CONSTANTS
    Capacity = 5
    HeaderLen = 2
    FrameSizes <- MCFrameSizes
    MaxFrames = 3
SPECIFICATION FairSpec
INVARIANTS TypeOK FramesExact ClosedForCause
PROPERTIES EveryFrameHandled OversizeCloses
CHECK_DEADLOCK FALSE
