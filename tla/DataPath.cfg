SPECIFICATION FairSpec
CONSTANTS
    ChunksOf <- TwoFiles
    Workers = {w1, w2}
    Compacters = {c1}
    w1 = w1
    w2 = w2
    c1 = c1
    NReduce = 1
    maxRetries = 2
    Slow = {w1}
    MaxFaults = 1
CONSTRAINT Explored
INVARIANTS TypeOK NoChunkLeft EndToEnd CompactedWhole AuditedIsCommitted
PROPERTIES SourceDrained
CHECK_DEADLOCK FALSE
