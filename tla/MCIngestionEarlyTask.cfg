SPECIFICATION Spec
CONSTANTS
    Docs = {d1}
    Workers = {w1, w2}
    TextDoc = d1
    ChunkCount <- SomeEmpty
    MaxRedeliveries = 0
    MaxFaults = 0
INVARIANT
    EnqueuedAfterCommit
CHECK_DEADLOCK FALSE
