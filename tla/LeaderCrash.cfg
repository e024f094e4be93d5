SPECIFICATION Spec
CONSTANTS
    Nodes = {n1, n2}
    n1 = n1
    n2 = n2
    NoNode = NoNode
    Workers = {w1}
    Job <- MapReduce
    NReduce = 1
    NumChunks = 1
    maxRetries = 2
    MaxLog = 5
    MaxSubmits = 1
    MaxElections = 1
    MaxRestarts = 1
    MaxSnapshots = 1
    MaxSweeps = 1
    MaxPolls = 1
    MaxFaults = 2
INVARIANTS LeaderKnowsJob
CHECK_DEADLOCK FALSE
