CONSTANTS
    HeaderLen = 2
    SizeMod = 4
    Chunk = 4
    Payloads <- MCPayloads
    MaxBatch = 3
    MaxSends = 2
SPECIFICATION FairSpec
INVARIANTS TypeOK WritesComplete SmallBatchesWhole
PROPERTIES ImplementsChannel EveryWriteEnds
CHECK_DEADLOCK FALSE
