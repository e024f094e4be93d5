--------------------------- MODULE MCCoordinator ---------------------------
EXTENDS CoordinatorProps

\* Pipelines, as values of ProcessAction.
MapOnly        == <<"MapTask">>
MapMapReduce   == <<"MapTask", "MapTask", "ReduceTask">>
MapReduce      == <<"MapTask", "ReduceTask">>
MapReduceSink  == <<"MapTask", "ReduceTask", "SinkTask">>
FullPipeline   == <<"MapTask", "ReduceTask", "GroupByTask", "SinkTask">>
MapReduceGroup == <<"MapTask", "ReduceTask", "GroupByTask">>

=============================================================================
