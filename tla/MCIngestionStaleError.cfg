SPECIFICATION Spec
CONSTANTS
    Docs = {d1}
    Workers = {w1, w2}
    TextDoc = d1
    ChunkCount <- SomeEmpty
    MaxRedeliveries = 1
    MaxFaults = 0
INVARIANT
    ReadyHasNoError
CHECK_DEADLOCK FALSE
