SPECIFICATION FairSpec
CONSTANTS
    Workers = {w1}
    Compacters = {c1, c2}
    w1 = w1
    c1 = c1
    c2 = c2
    ProcessAction <- FullPipeline
    NReduce = 2
    NumChunks = 2
    maxRetries = 2
    MaxOffset = 0
    Outcomes = {"TaskSuccess"}
    Slow = {}
    Faulty = {}
    MongoReliable = TRUE
PROPERTIES JobFinishes ImplementsPhasedJob
CHECK_DEADLOCK FALSE
