SPECIFICATION Spec
CONSTANTS
    Workers = {w1, w2}
    Compacters = {c1}
    w1 = w1
    w2 = w2
    c1 = c1
    ProcessAction <- MapReduceGroup
    NReduce = 2
    NumChunks = 1
    maxRetries = 2
    MaxOffset = 0
    Outcomes = {"TaskSuccess", "TaskFailed"}
    Slow = {w1}
    Faulty = {c1}
    MongoReliable = TRUE
CONSTRAINT NoMiscount
INVARIANTS TypeOK CountedOnce NoTaskLost WorkDone
PROPERTIES CountedInItsPhase PhasesInOrder
CHECK_DEADLOCK FALSE
