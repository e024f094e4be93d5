# TLA+ models of the go-flink scheduler

go-flink is a small map/reduce engine. A *coordinator* hands out the tasks of a
pipeline, one stage (*phase*) after the other; *workers* and *compacters* poll it
over `net/rpc`, execute what they are given and report back; a background sweeper
re-enqueues what has been silent for too long. Every change of the scheduler's
state that has to survive is a command proposed to a replicated log; without a
Raft node (embedded mode) the same commands are applied directly.

What makes it hard is that nothing is done under one lock. `net/rpc` runs each
call in a goroutine of its own, each handler is several critical sections of
`c.mu` with a proposed command in between, the MongoDB calls run outside every
lock, and the sweeper, the listener and the clients' own failures interleave with
all of it.

This directory holds TLA+ modules that translate that code, TLC configurations
that check them on small instances, and proofs checked by TLAPS for every
instance.

## 1. Inventory

| Component | State | Operations | Interacts with |
|---|---|---|---|
| Task scheduler, `pipeline/coordinator.go` | `phaseIdx`, `phaseDone`, `failedTasks`, `NumTasks`, `sourceDone`, `JobStatus` (queue), `inFlight`, `taskFiles`, `chunkStore` | `AskForTask`, `AskForCompactTask`, `NoticeResult`, `GetChunk`, `transitionToNextPhase`, `sweepTimedOutTasks`, `SubmitJob`, `IsDone` | clients (RPC), replicated log (`proposeCmd`), bucket store, chunk queue |
| Replicated state machine, `pipeline/raft_commands.go` | the same fields | `Apply` of five commands, `Snapshot`, `Restore` | called by the log (or directly when there is no Raft node), under `c.mu` |
| Worker, `pipeline/worker.go` | the reply it works on; map and reduce files | poll, execute Map/Filter/Reduce/SelectKey with a checkpoint, report | coordinator (RPC), output directory |
| Compacter, `pipeline/compacter.go` | the reply it works on; compacted files, sink collection | poll, execute GroupBy/Sink, report | coordinator, output directory, MongoDB |
| Bucket store, `pipeline/compacted_bucket_store.go` | collections `reduction`, `compaction`, `map_task`, `sink_result` | `MarkReduceDone`, `IsReduceDone`, `ClaimCompactDispatch`, `MarkMapTaskDone`, `MapTaskOutputs`, `MarkSinkDone` | MongoDB, called outside `c.mu` |
| Chunk queue and data source, `pipeline/datasource/datasource.go` | FIFO of chunks, `closed` | `Push`, `Pop`, `Close`, `Done` | producer goroutine, the coordinator's listener |
| Pipeline builder and job client, `pipeline/pipeline.go`, `job.go` | the stage list | `Map`, `Reduce`, `GroupBy`, ..., `Start`, `Submit` | coordinator |
| Raft cluster and leadership, `coordinator.go`, `main.go` | the log, the leader | `InitRaft`, `StartWithRaft`, `watchLeadership`, proposals that fail | all replicas |
| Plugins, metrics, command line, manifests | a cache; output | – | – |

What makes each part correct:

* **Scheduler and log.** No task of a phase is lost or counted twice; a phase is
  left exactly when all of its tasks are accounted for; every job ends and every
  client is told so; a `TaskInfo` (shared by pointer) is in one place at a time.
* **Sweeper and reports.** A task is executed by one client at a time as long as
  no client outlives the timeout; a late report does not disturb the accounts.
* **Listener.** A chunk is there when its task can be executed, and the Map phase
  does not end before the source does.
* **Compaction.** A bucket is compacted by one compacter, after its reduce.
* **Chunk queue.** When the source is declared exhausted every chunk it has
  yielded has its task; and it is declared so in the end.
* **Executions.** What a checkpoint makes a retry skip is a complete output; the
  compacted file appears whole or not at all; the audit record of a bucket says
  no more than its documents hold; no record is missing at the end. (The first, and
  so the last, does not hold of the code after a crash, and the third not of a sink
  whose scanner fails: section 4.)
* **Cluster.** Replicas agree on phase and counts; whoever becomes leader knows
  every open task, has none queued that is in flight, and knows the pipeline.

PROJECT.json lists the components with their status, and every place where the
code is exposed to a hazard that a test would hardly reach.

## 2. Modules

| Module | What it is |
|---|---|
| `PhasedJob` | Abstract specification: the phases of a job run in order, and one is left only when each of its tasks is accounted for. |
| `Coordinator` | The scheduler in embedded mode, the commands' `Apply`, the listener, the sweeper, the worker and compacter loops, the bucket store. |
| `CoordinatorProps` | Its type invariant, safety, action and liveness properties, and the refinement mapping to `PhasedJob`. |
| `MCCoordinator` | The pipelines that the configurations run. |
| `CoordinatorTypes` | Proof of the type invariant. |
| `CoordinatorBuckets` | Proof that compaction is exclusive and follows the reduce. |
| `CoordinatorHolders` | Proof that a `TaskInfo` is in one place at a time. |
| `CoordinatorAccounting` | Proof of the accounts: what is counted, lost, left behind or executed twice, and that the scheduler implements `PhasedJob`. |
| `ChunkQueue` | The data source, the FIFO and the listener, one critical section a step. |
| `DataPath` | Composes `ChunkQueue` with the executions of Map, Reduce, GroupBy and Sink in the shared output directory, file by file, under a scheduler that has `Coordinator`'s counting and its races, without its queue. |
| `MCDataPath` | The inputs that its configurations run, and the constraint of one. |
| `SourceProofs` | Proof that the source loses no chunk, alone and inside `DataPath`. |
| `DataPathProofs` | Proof of what compacted files and audit records hold, and that no record is missing at the end of a behaviour without a mishap. |
| `RaftCluster` | The scheduler on every node of a cluster: the log, `Apply`, snapshots, restarts, leader changes, failing proposals, and the handlers around them. |
| `RaftClusterProps` | What holds at every node. |
| `ClusterProofs` | Proof that the replicas agree with the log, and so with each other. |
| `ClusterTasks` | Proof of where the tasks are on the nodes: none forgotten, none in two places, and the types. |
| `MCRaftCluster` | Its pipeline and symmetry. |

`Coordinator` and `RaftCluster` model the same handlers from two sides: the first
has every stage type, MongoDB and the accounts of one process, the second many
processes, of which the log is all they share. `DataPath` keeps of the
scheduler what it counts and hands out, and looks at the files.

### State

The coordinator's fields keep their names. The rest:

* `pc[c]`, `hand[c]`, `walk[c]`: a client has at most one call outstanding, so the
  handler's local state belongs to it. `pc[c]` is the critical section that comes
  next (`"dispatch"`: dequeued, `CmdDispatchTask` not applied; `"run"`: executing;
  `"TaskSuccess"`: report under way; `"complete"`: report accepted,
  `CmdCompleteTask` not applied; `"mark"`: `MarkReduceDone` not called; and so on),
  `hand[c]` the `TaskInfo` that section works on, `walk[c]` the phase index a
  transition or a scan has read and the position of its loop.
* `srcNext`: the listener's `idx`.
* `reduction`, `compaction`: the collections of the same name.
* `output`: which tasks have left their output files.
* `clock`: the latest `DispatchedAt`. `time.Now().UnixNano()` is taken to be
  different for different dispatches.
* History: `counted` (the task ids behind `phaseDone`), `allocs` (to give each
  `TaskInfo` an identity) and `incidents` (below).

The queue is a set: every task in it is enqueued as `UnAssigned`, so all have
one priority and the heap promises no order among them. Files, keys, chunks and names
are reduced to whether they are there.

### Actions

One action is one critical section of `c.mu`, one applied command, or one call
of the bucket store:

| Code | Actions |
|---|---|
| `listenFromDataSource` | `StoreChunk`, `EnqueueChunk`, `SourceExhausted` |
| `AskForTask`, Sink case of `AskForCompactTask` | `Shutdown`, `TakeTask`, `DispatchTask`, `FindPhaseComplete` |
| `transitionToNextPhase` | `AdvancePhase`, `ReadNextPhase`, `EnqueueNext` (once per task), `EndTransition` |
| GroupBy case of `AskForCompactTask` | `StartScan`, `SkipBucket`, `ClaimBucket`, `DispatchTask` |
| `runWorkerLoop`/`invoke`, `runCompacterLoop` | `Execute`; `Abandon` is a crash and restart, or a reply or report that is lost |
| `NoticeResult` | `IgnoreReport`, `AcceptReport`, `AcceptLateSuccess`, then `CompleteTask` and `MarkReduceDone`, or `FailTask`, or `ContinueTask` |
| `sweepTimedOutTasks` | `Sweep` |

`IsReduceDone` and `ClaimCompactDispatch` are two MongoDB calls in one step: a
`reduction` record is never removed, so nothing can come between them that the
step does not allow. `Execute` is the whole execution; what another client can see
of a half-written output is in `DataPath`.

A poll answered `Wait` changes nothing and is no step. That is why deadlock is not
checked: a model whose clients are all told to wait stands still, as the system
does, and it is the liveness property that says this must not happen for ever. No
client of the repository sends `TaskContinue`, but `NoticeResult` handles it, so an
execution may end in it where `Outcomes` says so: in `Crashes`, whose stages are all the
workers'. A compaction task that continued would go to the queue, which only workers
are served from, so `WholePipeline` goes without. A worker that is given a type it
has no case for reports success without doing anything, as `Worker.invoke` does.

### Incidents

Three races in the code leave the accounts wrong for good:

* `LateSuccess`: a success that arrives after the sweeper has re-enqueued its task
  finds no record to compare tokens with and is counted all the same;
* `LostFailure`: `CmdFailTask` looks up the record that `NoticeResult` has just
  evicted, and the failed task disappears;
* `Overlap`: two transitions, or a transition and the phase it has read, get out
  of step.

Each has a run of its own that finds it. The accounting properties are conditional:
they say there is no fourth way to get there. `LostFailure` loses a task and counts
none wrongly, so only `NoTaskLost` (and liveness) needs `incidents = {}`; the others
need no more than `NoMiscount`, that there has been no `LateSuccess` and no `Overlap`.
`ExclusiveExecution` is among them: two transitions that overlap both create the
tasks of the phase, under the same ids. The other invariants
(`OneHolder`, `ChunkServed`, `CompactionExclusive`, `ReducedBeforeCompacted`)
hold, and are checked, whatever has happened.

The accounting properties also assume `OneMapStage` (one Map stage, the first):
`CmdEnqueueTask` counts the tasks of every stage in `NumTasks`, so a later
chunk-parallel stage waits for completions that never come (run `TwoMaps`).

### `ChunkQueue` and `DataPath`

`items` and `closed` are the queue's; `file`, `part` say how far `StreamChunks` has
read, `lpc` and `held` where the listener stands. `Push`, `NextFile`, `StopWalk`,
`Close` are the producer (a file that does not open, a read that fails and a
directory that cannot be walked are skipped with a message, as in the code);
`TestDone`, `PopNothing`, `Pop`, `Store`, `ProposeTask`, `Exhausted` the listener.

In `DataPath` every chunk has records for every bucket, and a file is reduced to
`got`, the map tasks whose records it has in full, `closed`, whether it has been
written and closed, and `by`, who created it last: `os.Create` truncates, so two
executions at one file take it from each other. A reader of a file that is not
closed finds any part of it; a reader of a closed one all of it, or, as a fault,
any part (`ReadShort`). `exec[w].at` is where client `w` stands:

| Code | Actions |
|---|---|
| the checkpoint test, or a type the client has no case for | `SkipExecution` |
| plugin, chunk or input missing | `FailAtStart` |
| `getChunk`, globbing, scanning and decoding | `ReadInput` |
| an error of the decoder or `Glob` in `reduceErr`, of the scanner in `groupByErr` and `sinkErr`, or a line above its limit: no code looks at them | `ReadShort` |
| `os.Create`, the loop that writes a file, `Close` | `CreateFile`, `WriteFile` |
| an error of `Fprintf` in `reduceErr`, or of `Close`: no code looks at them | `WriteShort` |
| an error of `Create`, of `Encode` in `mapErr`, of `Fprintf` or `Rename` in `groupByErr` | `WriteFails` |
| `os.Rename` of `groupByErr` | `Rename` |
| `UpdateOne` loop and `MarkSinkDone` of `sinkErr` | `UpsertKey`, `LastUpsert`, `UpsertFails`, `MarkSinkDone` |
| the process ends, a reply or report is lost | `Crash` |
| `AskForTask`, `AskForCompactTask` | `Dispatch` |
| `currentPhaseComplete`, then `CmdAdvancePhase` | `FindPhaseComplete`, `AdvancePhase` |
| `sweepTimedOutTasks` | a re-dispatch in `Dispatch`; `GiveUp` |
| `NoticeResult` | `IgnoreReport`; `CompleteTask` and `MarkReduceDone`; `CompleteLate` and `CountLate`; `FailTask` |

**Its scheduler** counts, as the code does: `phaseDone` grows with every success
and every task given up, a success that finds no record is counted too
(`CompleteLate`, then `CountLate`), and a phase is found complete by comparing the
count with `phaseTotal`, in another step than the one that leaves it. So a task
counted twice can end a phase with another lost, and two pollers can leave two phases
for one. There is no queue: `gone` are the tasks that are neither queued nor in
flight, `try` and `attempts` play the part of the dispatch token, and a dispatch
of a task that slow clients are still at includes the sweep before it. Where
this knows less than the code it allows more: a phase whose count is reached is left
whether or not something is queued or in flight (with an exact count nothing is); after
an overlap of phases any task of the phase may be given out any number of times up to
the bound, and the phase may be left at any time.

**Mishaps.** What leaves a gap in the result, and the code does nothing against, is
recorded in `mishaps` when it happens:

| Mishap | What has happened |
|---|---|
| `Interrupted` | a map or reduce execution has ended with its files half written, and the retry takes them for a checkpoint |
| `Overtaken` | a map or reduce task was given out while a slow client was at it |
| `ShortRead`, `ShortSink` | an ignored error of a reader, in Reduce or GroupBy, or in Sink |
| `ShortWrite` | an ignored error of a writer |
| `Recounted` | a success without a record was counted |
| `Overlapped` | a phase was left early, or twice, or counted a report of another |

`EndToEnd` speaks of behaviours with none of them. It is not empty there: crashes before
a file is created and after the last is written, failures that the code sees, lost
replies and reports, retries, repeated GroupBy and Sink executions and failed
MongoDB calls are no mishaps. `AuditedIsCommitted` excepts `ShortSink` only, and
`CompactedWhole`, which says that a compacted file is never one still being
written, nothing: both are checked and proved with every miscount and overlap.
A `ShortRead` or `ShortWrite` may leave a compacted file with fewer records; it is
closed all the same.

Records are in the abstraction as far as the text format carries them: a reduce output
line is cut at its first space, so a key that contains a space or a newline comes out
as another one, and lines without a value are dropped. A file system that denies a file
it has (`os.Stat` in the checkpoint tests) is not modelled.

### `RaftCluster`

`log` is the sequence of committed commands and `applied[n]` how far node `n` is.
Each coordinator field is a function of the node. `taking[n]` is a snapshot between
`Snapshot` and `Persist` (`live` as long as its `inFlight` is the map in use),
`snap[n]` the one a restart begins from. A client's call runs at the node `at[c]`;
`wait[c]` is the position of its command, 0 before the proposal and `Failed` after
an error. `obj` names a `TaskInfo` by the command that made it.

| Code | Actions |
|---|---|
| `Apply` | `ApplyEnqueueTask`, `ApplyDispatchTask`, `ApplyCompleteTask`, `ApplyFailTask`, `ApplyAdvancePhase`, per node |
| `Snapshot`, `Persist`, `Restore` | `Snapshot`, `Persist`; `Crash` (a process ends and starts again: its snapshot, then the log), `InstallSnapshot` |
| `proposeCmd` | `Propose`; its caller goes on when the entry is applied at its node (`Answered`) or with an error (`Refused`, `Refuse`), after which the entry may be in the log or not |
| `watchLeadership` | `Elect` |
| `SubmitJob`, `listenFromDataSource` | `SubmitJob`; `StreamChunk`, `StreamGoesOn`, `StreamEnds` |
| `AskForTask` | `TakeTask`, `Dispatched`, `DispatchFailed`, `FindPhaseComplete`, `PanicOnTask` |
| `transitionToNextPhase` | `ReadNextPhase`, `EnqueueNext`, `AdvanceFailed`, `PanicOnAdvance` |
| `NoticeResult`, at any node | `IgnoreReport`, `AcceptReport`, `AcceptLateSuccess`, `ReturnReport` |
| `sweepTimedOutTasks`, at every node | `Sweep` |

A poll of a leader that has no job runs into an index out of range with the lock
held; `net/rpc` does not recover, so it is a `Crash` (`PanicOnTask`,
`PanicOnAdvance`). hashicorp/raft itself is not modelled: the log is what a
majority has agreed on.

Two mishaps are recorded per node: `Dropped` (a record taken out of `inFlight` by a
report is gone because the proposal failed or the command was `CmdFailTask`; a
snapshot was taken while a task was in a handler's hands, or a report, a `CmdFailTask`
or a sweep took one out of `inFlight` between `Snapshot` and `Persist`, so that the
image has it nowhere) and `Doubled` (a task put back after an error although its dispatch had been
applied, or a snapshot had brought it back already). A restart replaces the
node's mishaps by those of its snapshot: what happened after it is undone.

## 3. Runs

| Run | Instance | Shows |
|---|---|---|
| `Accounting` | Map, Reduce, GroupBy; 2 workers, 1 compacter, 2 buckets, 1 chunk, 2 retries; failing tasks, a worker slower than the timeout, a crashing compacter | `TypeOK`, `CountedOnce`, `NoTaskLost`, `WorkDone`, `CountedInItsPhase`, `PhasesInOrder` up to the first incident |
| `AfterIncidents` | Map, Reduce, GroupBy; 2 workers, 2 compacters, 1 bucket, 1 chunk; slow and crashing clients, executions that fail, MongoDB calls that fail | `OneHolder`, `ChunkServed`, `CompactionExclusive`, `ReducedBeforeCompacted` beyond each of the three incidents |
| `Crashes` | Map, Reduce; 2 workers, both crash or lose messages, none is slow; `TaskContinue` | `JobFinishes`, `ExclusiveExecution` |
| `WholePipeline` | Map, Reduce, GroupBy, Sink; 1 worker, 2 compacters, 2 buckets, 2 chunks, no fault | `JobFinishes`, `ImplementsPhasedJob` (refinement of `PhasedJob`) |
| `LateSuccess` | Map; a slow worker and another | `PhaseDoneExact` violated |
| `FailedTask` | Map; one worker, an execution fails | `FailureRequeued` violated |
| `DoubleAdvance` | Map, Reduce; two workers | `PhaseNotSkipped` violated |
| `StolenSink` | Map, Reduce, Sink; a worker and a compacter | `StagePools` violated |
| `TwoMaps` | Map, Map, Reduce; one worker | `JobFinishes` violated |
| `DataPath` | 2 files of a chunk; Map, Reduce, GroupBy, Sink; 2 workers, one slow, 1 compacter, 1 bucket, 2 retries, 1 fault; for 1 chunk and no fault also past every miscount and overlap | `TypeOK`, `NoChunkLeft`, `EndToEnd`, `CompactedWhole`, `AuditedIsCommitted`, `SourceDrained` |
| `Cluster` | 2 nodes, 1 worker; Map, Reduce; 1 chunk, 1 bucket, 5 log entries; a leader change, and 2 of: a restart, a snapshot, a sweep, a poll before the job | `TypeOK`, `ReplicaFollowsLog`, `NothingForgotten`, `NotQueuedInFlight` |
| `LeaderCrash` | the same | `LeaderKnowsJob` violated |

`Accounting` prunes the states after the first `LateSuccess` or `Overlap` (constraint
`NoMiscount`), because there its properties say nothing. `DataPath` explores
what follows a `Recounted` or `Overlapped` for an input of one chunk, without a fault and
until a task is given up (constraint `Explored`): that is where a double count, a phase left
early because of it and two pollers that leave two phases happen, and they all
reach the sink. The constraint does not weaken `SourceDrained`: the steps of the source
depend on no client, the constraint cuts off only states after a miscount, and in
those it keeps the source has come to its end. So every order of the source's steps is in a
behaviour that is explored as far as they go.

**Bounds.** Two workers are needed for every race among polls, reports and
transitions, a slow one and another for a report that meets a re-dispatch; two
compacters for a contested claim; two retries for both a requeue and a task given
up on; two buckets where tasks of one phase must be told apart; three stages to
have every kind of transition (into a bucket stage that is enqueued, into GroupBy
that is not, out of the last). Nothing else is bounded: retries end a task's life and
`MaxOffset` bounds how often one execution may report `TaskContinue`. Where one more chunk
or bucket would only repeat what is there, it is left out.

In `DataPath` two workers are needed for an execution and its retry at the same
file, two chunks for an output that holds one and not the other; one fault, with a client
that outlives the timeout and two retries, for a task given out again after a crash, a
failure or a short read or write, and for one given up. One bucket is
enough because the buckets of Reduce, GroupBy and Sink do not meet; it takes away
an interruption between two map files of one task, which is then one between
creating and writing the only file. A miscount takes a slow worker, a re-dispatch
and a second worker, and no fault.

In `Cluster` the bounds are `MaxLog` (five entries: a task enqueued, dispatched and
completed, a phase advanced and a task of the next), one submission, one leader
change, and two more faults in one behaviour: a snapshot and a restart from it, or a
sweep before a snapshot is written, or a poll that ends a process. Two nodes have
every relation between a leader and another that the code distinguishes. The nodes
are symmetric.

**Fairness** (`FairSpec` of `CoordinatorProps`). A handler that has started runs on and a client that was
told to wait polls again (`WF` of `ClientStep(c)`: goroutines and loops with a
sleep); the sweeper ticks every `sweepInterval` (`WF` of `Sweep`); the data source
ends (`WF` of `Listener`). `Abandon` is not fair: faults may stop. `Slow` clients are
those that may outlive `taskTimeout` and still report; for the others `Sweep` is not
enabled while they work, which is what the timeout is meant to guarantee.

`FairSpec` of `DataPath` has only that the producer's and the listener's goroutines go
on (`WF` of each): nothing is assumed of clients. For `RaftCluster` no liveness
is claimed: the leader may change for ever, and a new one has no pipeline.

`Crashes` needs no bound on the number of crashes: each one costs a task a retry,
and a task without retries is counted, so the job ends in every case.

## 4. Disagreements between the code and its documentation

Each is a run that TLC refutes; PROJECT.json quotes the lines.

* `ARCHITECTURE.md` says a stale report after a re-dispatch is rejected by its
  token. Between the sweep and the re-dispatch there is nothing to compare the token
  with, and the report is counted (`LateSuccess`).
* It says a failed task is re-enqueued. The eviction in `NoticeResult` hides it
  from `CmdFailTask`, and it is lost with its phase (`FailedTask`).
* It says a phase is left when all its tasks are done. Two workers that both find
  Map complete advance twice, and Reduce is skipped (`DoubleAdvance`).
* It says Sink tasks go to the compacters. A worker that polls gets them, does
  nothing and reports success (`StolenSink`).
* `README.md` shows a pipeline with two Map stages. It never ends (`TwoMaps`).
* `ARCHITECTURE.md` says that after a leader crash the cluster resumes from the
  replicated state without intervention. The pipeline is not part of that state:
  `SubmitJob` sets `ProcessAction` and `NReduce` at one node, and a new leader has
  the tasks and no stages (`LeaderCrash`).
Others are described by actions and mishaps rather than by a run. In the data path:
the comment on `sinkResultDoc` calls the record "auditable proof that the pipeline
committed a bucket's output", but `sinkErr` does not look at `scanner.Err()` and marks a
bucket of which it has read a part (`ShortSink`); a task whose worker crashes is given
out again, but map and reduce files are written in place and any file of that name passes
for a checkpoint, so the retry skips what the crash has left half written
(`Interrupted`). In the cluster: followers answer `NoticeResult`, although the
document says only the leader serves RPCs; a poll before the first job commits a
`CmdAdvancePhase` and stops the process; a task given up by one node's sweeper is
not in the log, so a restart brings it back after its chunk file is deleted.

## 5. Proofs

The theorems hold for every value of the constants - every pipeline, set of clients
and nodes, number of buckets, chunks and retries, every bound - and with every fault.
The assumptions are those of the models: `ClientsAssumption` (workers and compacters
are different processes), `PipelineAssumption` (a non-empty list of the six types, each
GroupBy preceded by a Reduce, which is what `Pipeline.Start` and `Pipeline.GroupBy`
enforce by panicking), `BoundsAssumption` (the numbers are natural, buckets and
retries not zero), `ChunksOfAssumption` (every file has a natural number of chunks),
`DataPathAssumption` and `ClusterAssumption` (the same for these two models). `RaftCluster`
has a `BoundsAssumption` as well: how many submissions, elections, restarts, snapshots,
sweeps and polls a behaviour has is a natural number, any one.

| Theorem | Module | Says |
|---|---|---|
| `TypeCorrect` | `CoordinatorTypes` | `Spec => []TypeOK` |
| `CompactionIsExclusive`, `ReducedIsBeforeCompacted` | `CoordinatorBuckets` | the two bucket properties |
| `OneHolderAlways` | `CoordinatorHolders` | `Spec => []OneHolder` |
| `TasksAreCountedOnce`, `NoTaskIsLost`, `WorkIsDone` | `CoordinatorAccounting` | `[]CountedOnce`, `[]NoTaskLost`, `[]WorkDone` |
| `CountedInPhase`, `PhasesAreInOrder` | `CoordinatorAccounting` | the two action properties |
| `JobIsPhased` | `CoordinatorAccounting` | refinement of `PhasedJob` |
| `ChunkIsServed`, `ExecutionIsExclusive` | `CoordinatorAccounting` | `[]ChunkServed`; `[]ExclusiveExecution` when `Slow = {}` |
| `NoChunkIsLeft`, `DataPathHasSource`, `DataPathLeavesNoChunk` | `SourceProofs` | `[]NoChunkLeft` of the source, and in `DataPath` |
| `DataPathTyped`, `CompactedFilesAreWhole`, `AuditedBucketsAreCommitted`, `NoGapInTheData` | `DataPathProofs` | `[]TypeOK`, `[]CompactedWhole`, `[]AuditedIsCommitted`, `[]EndToEnd` of `DataPath` |
| `ReplicasFollowLog`, `SameEntriesSameState` | `ClusterProofs` | `[]ReplicaFollowsLog`, and that replicas agree |
| `OpenTasksAreKept`, `NoneQueuedInFlight`, `ClusterTyped` | `ClusterTasks` | `[]NothingForgotten`, `[]NotQueuedInFlight`, `[]TypeOK` of `RaftCluster` |

**Types.** `TypeOK` of the coordinator is inductive as it stands, because it includes
that a transition that enqueues and a compacter that scans are in a phase that exists
(`WalkOK`): the phase they have read is never behind the end of `ProcessAction`, even
when others move `phaseIdx` meanwhile.

**Buckets.** Neither property is inductive. A reduce bucket is marked after the command
has been applied, from the *record* found in `inFlight`, so that the record must be
known to be the task that was executed: `TokenInv` says that a dispatch token belongs
to one dispatch and to the record it left. `ReducedInv` then carries "this success has
its output" from the execution to the mark; `PoolInv` says that a compacter never holds
a reduce task (it would report it as a success, undone); `ClaimInv` that a compacter's
GroupBy task has been claimed, by it alone. A claim is never taken back, so no later
scan finds the bucket again.

**Holders.** `PlaceInv` restates `OneHolder` element by element (two tasks with one
identity are one task in one place) and adds that identities are handed out in order;
there is one lemma for each way an object moves (dropped, created, re-enqueued,
dequeued, dispatched, accepted, continued). The cardinalities of the property follow
from it by a bijection.

**Accounts.** The argument follows the task ids of the current phase. At any moment an
id is counted, or alive in exactly one place (queue, `inFlight`, one handler), or not
created yet, and a step moves ids in one of four ways: from one place to another, from
a place to `counted`, from "not created" to the queue, or all of them away when the
phase advances. `Accounts` is the invariant; each conjunct is there because a step
needs it:

* `UniqueInv`: an id is alive once. Without it two completions of one id are possible.
* `PhaseInv`: what has been dispatched is of the current phase. It holds because the
  phase cannot be left while something is in flight or in a handler's hands: a phase is
  complete only when everything is counted, and what is alive is not (`CountInv`).
* `WalkInv`: a client that found the phase complete is still right when its
  `CmdAdvancePhase` is applied, unless another has advanced meanwhile; one transition
  at a time sets a phase up, and creates its ids in order, so that an id it is about to
  create is neither alive nor counted.
* `ListenerInv`, `BucketsClaimed`: the same for the two other ways a task is created,
  by the listener in stage 0 and by a compacter's claim.
* `NoneLost`, `WorkInv`: each id is found somewhere; a success has its output.

The invariant is conditional on `NoMiscount` and `OneMapStage`. It need not exclude
`LostFailure`: a failure that is lost takes an id away from the living without
counting it, which breaks `NoneLost` and no other conjunct. The proof also shows that
under these conditions `CmdFailTask` *never* finds the record it looks for - the
eviction in `NoticeResult` has always been first - so that every failure reported by a
client is a lost one. `ExclusiveExecution` needs the accounts as well: after an
`Overlap` two transitions create the tasks of one phase twice, and the same id is
executed by two clients although none is slow. `ChunkInv`, behind `ChunkServed`, is
unconditional, because in stage 0 nothing but the listener creates tasks.

`JobIsPhased` is conditional on a behaviour without miscounts, `PhasesAreInOrder` says
the same of each step up to the first one.

**Source.** `SourceInv` says where every chunk is, in order
(`pushed = tasks \o held \o items`), and what the listener may conclude from `Done`:
when it has seen the queue closed and empty it stays so. `DataPathHasSource` shows that
a behaviour of `DataPath` is one of the source (a step of clients and scheduler leaves
its variables alone), so that the result carries over (`DataPathLeavesNoChunk`).

**Data path.** Four invariants, each resting on the one before:

1. `DataInv`: types, and `WellPlaced`: which output files an execution may still have
   to write, given where it stands.
2. `CompactionInv`: a bucket has one compacter (`OneCompacter`, the claim), its
   temporary file is therefore its own from `os.Create` to `os.Rename`, and the
   compacted file is not there before the rename (`CompactInv`). So it appears once,
   whole, and never changes again: `CompactedWhole`.
3. `SinkInv`: since the compacted file does not change, what an execution of the sink
   read of it stays right however long it takes; the documents only grow, within it;
   and, if no sink execution has read it short, one that comes to `MarkSinkDone` has
   upserted all of it, and so has every earlier one. A late or repeated execution can
   take nothing away. Neither this nor the two before need the counts: they hold in
   whatever phase, and however often, a task is given out.
4. `CleanInv`, as long as there was no mishap and no map task was given up (`Clean`).
   Each map or reduce job has one client at most, and its files are all absent, all
   complete, or being written by that client, who knows which (`JobInv`). A task whose
   files are complete and which nobody works on is `Settled`. The phase only counts,
   so the invariant has to say what stands behind the number: there is a set of as many
   tasks as were counted, none of them queued or in flight any more, all settled
   (`Counted`); when a poller has found the count reached, that set is all of them
   (`AllMapped`, by their cardinality), and it is still so when its `CmdAdvancePhase`
   is applied. From Reduce on no count is needed: what a compacter reads is a bucket
   with a `MarkReduceDone` record, or about to have one (`Reduced`), which is settled;
   a reduce bucket given up has none and is never compacted. Compacters have read
   complete files (`BucketsInv`).

`NoGapInTheData` is 4; it says nothing of a behaviour after its first mishap, and a
mishap is a step of the code that may leave a gap.

**Cluster.** `ReplicaFollowsLog` speaks of the nodes alone and is not inductive: a
restart or an installed snapshot replaces a node's fields by those of an image.
`LogInv` says the same of every image, whether it is being taken, is stored, or is sent:
its fields are those of the log up to its index. Applying an entry, sweeping (which
moves `phaseDone` and `failedTasks` together) and growing the log keep a good state
good (`StepFollows`, `LogGrows`); the copies of `inFlight`, which `Persist` encodes
without the lock and which are therefore torn, play no part in these fields.
`HandlersAt` (a handler runs at a node) is needed for the two panics.

**Tasks of a cluster.** Where the tasks are at one node is not a function of the log:
`Persist` encodes `inFlight` later than `Snapshot` copied the queue, a sweep moves tasks at
one node alone, and `AskForTask` and `NoticeResult` move them before they propose. What
holds is said of a node that has caught up; a restored node gets there by applying entries
a second time. So `TaskInv` looks ahead, to the node's *horizon*: the later of what it has
applied and of the last entry whose effect its `inFlight` may already show (`replayTo`; in
a stored snapshot `upto`). `GoodTasks` says, of the entries up to the horizon:

* `Apart`: a task both queued and in flight is dispatched by an entry still to be applied
  again, which takes it out of the queue.
* `Kept`: the task ids that remain open are all in the queue, in flight, or in a handler's
  hands (`Holds`: until the command is applied that moves the task elsewhere), save as
  many as the node has counted as failed. An id that a later entry will close need not be
  found, and so a snapshot whose `inFlight` has already lost it is none the worse.
* `QueuedTask`, `SentTask`: a queued task has kept the id its entry gave it; the token of
  one in flight is the index of the entry that dispatched it, and not beyond the horizon.

At a node that has caught up the horizon is `applied`, no entry is left to apply again, and
`Apart` and `Kept` are the two properties. The same `GoodTasks` is required of the stored
snapshot, without handlers, and of the snapshot under way as it would be stored if
`Persist` came now (`TakenTasks`): hence a torn snapshot is good when it is stored,
whatever happened since `Snapshot`, and a restart from it leaves a good node. There is a
lemma for each way in which the tasks of a node or an image move (`GoodTasksEnqueue`,
`...Dispatch`, `...Complete`, `...Advance`; `...Ahead`, `...LateDispatch`,
`...LateComplete` for the image whose `inFlight` runs ahead of it; `...PutBack`,
`...GiveUp`, `...Move`), and one for each action that uses them. `GoodLog` and
`HandlerTask` tie entries and handlers to tasks; `LocalInv` adds what only `TypeOK` needs.
Both properties except the mishaps, and these are exactly the steps that fail: putting a
task back after a failed proposal can break `Apart`; a report whose command does not
come, or is `CmdFailTask`, and a snapshot taken while a handler has the task can break
`Kept`.

Only model-checked: `JobFinishes` and `SourceDrained`, because liveness under fairness and
ENABLED are out of the proof system's reach. Every other property that a passing run
checks is a theorem; `ExclusiveExecution` is one for `Slow = {}`, as in its run (a slow
client is one whose task may be given to another while it works). No definition of the
models is recursive, so nothing is left out for that reason.

## 6. Not modelled, and the plan

Every invariant that the runs check is proved, so what is left of the plan is more to say:

1. **The cluster as the embedded scheduler**: `Coordinator` shows the accounts of one
   process, `RaftCluster` what every replica has. That a cluster with one leader and no
   failing proposal behaves as `Coordinator` is neither stated nor proved yet.
2. **What a mishap costs**: after a `Dropped` or `Doubled` nothing is said of the tasks of
   that node until its next restart, and after a mishap of `DataPath` nothing of which
   records are missing; the bound is the number of such steps.
3. **The parts below**, as far as they hold state that the properties are about.

Not modelled:

* In `RaftCluster`: `AskForCompactTask` and MongoDB (they are in `Coordinator`), `taskFiles`
  and `taskFileNames`, `jobID`, the chunk files of a node and `GetChunk`, a second
  job, the follower's own worker loop (to the scheduler one more worker), and
  `raft.Apply`'s enqueue timeout, which is one more `Refused`.
* In `DataPath`: SelectKey and Filter, and pipelines with other stages than the four;
  `TaskContinue`, which no client sends; the text format (keys with a space or a
  newline). That a claim can be burnt and a bucket so left behind is in `Coordinator`.
* The client's polling of `IsDone`, the building of a `JobSpec`, `MarkMapTaskDone` and
  `MapTaskOutputs`, which only choose file names.
* The plugin cache, metrics, logging, flag parsing and the manifests (no state of the
  scheduler), the consistent-hash ring, and what the plugins compute.
