SPECIFICATION Spec
CONSTANTS
    Workers = {w1, w2}
    Compacters = {c1, c2}
    w1 = w1
    w2 = w2
    c1 = c1
    c2 = c2
    ProcessAction <- MapReduceGroup
    NReduce = 1
    NumChunks = 1
    maxRetries = 2
    MaxOffset = 0
    Outcomes = {"TaskSuccess", "TaskFailed"}
    Slow = {w1, c1}
    Faulty = {c1}
    MongoReliable = FALSE
INVARIANTS OneHolder ChunkServed CompactionExclusive ReducedBeforeCompacted
CHECK_DEADLOCK FALSE
