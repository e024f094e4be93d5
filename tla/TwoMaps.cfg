SPECIFICATION FairSpec
CONSTANTS
    Workers = {w1}
    Compacters = {}
    w1 = w1
    ProcessAction <- MapMapReduce
    NReduce = 1
    NumChunks = 1
    maxRetries = 3
    MaxOffset = 0
    Outcomes = {"TaskSuccess"}
    Slow = {}
    Faulty = {}
    MongoReliable = TRUE
PROPERTIES JobFinishes
CHECK_DEADLOCK FALSE
