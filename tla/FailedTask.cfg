SPECIFICATION Spec
CONSTANTS
    Workers = {w1}
    Compacters = {}
    w1 = w1
    ProcessAction <- MapOnly
    NReduce = 1
    NumChunks = 1
    maxRetries = 3
    MaxOffset = 0
    Outcomes = {"TaskSuccess", "TaskFailed"}
    Slow = {}
    Faulty = {}
    MongoReliable = TRUE
PROPERTIES FailureRequeued
CHECK_DEADLOCK FALSE
