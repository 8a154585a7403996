SPECIFICATION FairSpec
CONSTANTS
    Docs = {d1, d2}
    Workers = {w1, w2}
    TextDoc = d1
    ChunkCount <- SomeEmpty
    MaxRedeliveries = 1
    MaxFaults = 1
INVARIANTS
    TypeOK
    ChunksWhole
    ReadyIsSearchable
    ChunksAreBilled
PROPERTIES
    ImplementsLifecycle
    StatusAdvances
    UploadSettles
CHECK_DEADLOCK FALSE
