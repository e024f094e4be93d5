SPECIFICATION Spec
CONSTANTS
    Workers = {w1, w2}
    Compacters = {}
    w1 = w1
    w2 = w2
    ProcessAction <- MapReduce
    NReduce = 1
    NumChunks = 1
    maxRetries = 3
    MaxOffset = 0
    Outcomes = {"TaskSuccess"}
    Slow = {}
    Faulty = {}
    MongoReliable = TRUE
PROPERTIES PhaseNotSkipped
CHECK_DEADLOCK FALSE
