SPECIFICATION Spec
CONSTANTS
    Workers = {w1}
    Compacters = {c1}
    w1 = w1
    c1 = c1
    ProcessAction <- MapReduceSink
    NReduce = 1
    NumChunks = 1
    maxRetries = 3
    MaxOffset = 0
    Outcomes = {"TaskSuccess"}
    Slow = {}
    Faulty = {}
    MongoReliable = TRUE
INVARIANTS StagePools
CHECK_DEADLOCK FALSE
