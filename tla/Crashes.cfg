SPECIFICATION FairSpec
CONSTANTS
    Workers = {w1, w2}
    Compacters = {}
    w1 = w1
    w2 = w2
    ProcessAction <- MapReduce
    NReduce = 2
    NumChunks = 1
    maxRetries = 2
    MaxOffset = 1
    Outcomes = {"TaskSuccess", "TaskContinue"}
    Slow = {}
    Faulty = {w1, w2}
    MongoReliable = TRUE
INVARIANTS ExclusiveExecution
PROPERTIES JobFinishes
CHECK_DEADLOCK FALSE
