--------------------------- MODULE MCRaftCluster ---------------------------
EXTENDS RaftClusterProps, TLC

MapReduce == <<"MapTask", "ReduceTask">>

Symmetry == Permutations(Nodes)
=============================================================================
