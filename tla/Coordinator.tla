---------------------------- MODULE Coordinator ----------------------------
(***************************************************************************)
(* The go-flink task scheduler in embedded mode (raftNode == nil), the     *)
(* workers and compacters that poll it, the goroutine that feeds it chunks *)
(* and the MongoDB records it shares with the compacters.                  *)
(*                                                                         *)
(* Every net/rpc call runs in a goroutine of its own and c.mu is released  *)
(* between the critical sections of one handler, so a step here is one     *)
(* critical section (or one MongoDB call), and the handlers interleave.    *)
(* A client has at most one call outstanding: pc[c] is where that call,    *)
(* or the client's own loop, stands.                                       *)
(***************************************************************************)
EXTENDS Integers, Sequences, FiniteSets

CONSTANTS
    Workers,        \* processes that loop on AskForTask
    Compacters,     \* processes that loop on AskForCompactTask
    ProcessAction,  \* the pipeline: the action type of each stage
    NReduce,        \* number of buckets
    NumChunks,      \* chunks the data source yields
    maxRetries,
    MaxOffset,      \* bound: largest NextOffset a TaskContinue reports
    Outcomes,       \* what an execution may report, of the three result messages
    Slow,           \* clients that may outlive taskTimeout and still report
    Faulty,         \* clients that may crash, or lose a reply or a report
    MongoReliable   \* FALSE: any MongoDB call may fail

ChunkStages  == {"MapTask", "FilterTask"}
BucketStages == {"ReduceTask", "SelectKeyTask", "GroupByTask", "SinkTask"}
TaskTypes    == ChunkStages \cup BucketStages
Results      == {"TaskSuccess", "TaskFailed", "TaskContinue"}
Clients      == Workers \cup Compacters
NumStages    == Len(ProcessAction)
NoChunk      == -1

ASSUME ClientsAssumption ==
    /\ Workers \cap Compacters = {}
    /\ Slow \subseteq Clients
    /\ Faulty \subseteq Clients

\* Pipeline.Start panics on an empty pipeline, Pipeline.GroupBy unless the
\* stage before is a Reduce.
ASSUME PipelineAssumption ==
    /\ ProcessAction \in Seq(TaskTypes)
    /\ NumStages > 0
    /\ \A i \in 1..NumStages :
          ProcessAction[i] = "GroupByTask" =>
             i > 1 /\ ProcessAction[i - 1] = "ReduceTask"

ASSUME BoundsAssumption ==
    /\ NReduce \in Nat \ {0}
    /\ NumChunks \in Nat
    /\ maxRetries \in Nat \ {0}
    /\ MaxOffset \in Nat
    /\ Outcomes \subseteq Results
    /\ MongoReliable \in BOOLEAN

VARIABLES
    \* Coordinator fields
    phaseIdx, phaseDone, failedTasks, NumTasks, sourceDone, taskFiles,
    JobStatus,    \* the queue: every task in it has the same priority
    inFlight,     \* dispatched tasks, at most one per TaskId
    chunkStore,   \* chunk ids whose content is held
    \* the listener, and the handlers and clients
    srcNext,      \* idx of listenFromDataSource
    pc,           \* where the client's call or loop stands
    hand,         \* the TaskInfo that call or loop holds
    walk,         \* the phase it read, and the loop over that phase's tasks
    \* MongoDB and the output directory
    reduction,    \* <<phase, bucket>> recorded by MarkReduceDone
    compaction,   \* <<phase, bucket>> claimed by ClaimCompactDispatch
    output,       \* <<phase, task id>> whose output a client has written
    \* clocks and history
    clock,        \* latest DispatchedAt handed out
    allocs,       \* TaskInfo objects created
    counted,      \* task ids counted in phaseDone since the phase began
    incidents     \* races that have happened (see Incidents)

fsmVars   == <<phaseIdx, phaseDone, failedTasks, NumTasks, sourceDone,
               taskFiles, JobStatus, inFlight, chunkStore>>
countVars == <<phaseDone, failedTasks, counted>>
storeVars == <<reduction, compaction, output>>
vars      == <<fsmVars, srcNext, pc, hand, walk, storeVars, clock, allocs,
               counted, incidents>>

(***************************************************************************)
(* Records                                                                 *)
(***************************************************************************)
\* obj is the identity of the TaskInfo object, which survives the JSON copies
\* that proposing a command makes. DispatchedAt = 0 is the zero time.
TaskInfo == [obj : Nat, TaskId : Nat, ChunkID : Nat \cup {NoChunk},
             ActionType : TaskTypes, PhaseIdx : Nat, Retries : Nat,
             DispatchedAt : Nat, ChunkOffset : Nat]

NoTask == [obj |-> 0, TaskId |-> 0, ChunkID |-> NoChunk,
           ActionType |-> "MapTask", PhaseIdx |-> 0, Retries |-> 0,
           DispatchedAt |-> 0, ChunkOffset |-> 0]

NewTask(id, chunk, type, phase) ==
    [obj |-> allocs + 1, TaskId |-> id, ChunkID |-> chunk, ActionType |-> type,
     PhaseIdx |-> phase, Retries |-> 0, DispatchedAt |-> 0, ChunkOffset |-> 0]

\* A loop over the ids next..limit-1 of a phase; files is the copy of taskFiles.
Walk(phase, next, limit, files) ==
    [phase |-> phase, next |-> next, limit |-> limit, files |-> files]

NoWalk == Walk(0, 0, 0, <<>>)

NextId(w) == Walk(w.phase, w.next + 1, w.limit, w.files)

\* LateSuccess: a success was accepted for a task that is not in flight.
\* LostFailure: CmdFailTask found no record, so the failed task is dropped.
\* Overlap:     a transition acted on another phase than the one it had read.
Incidents == {"LateSuccess", "LostFailure", "Overlap"}

PCs == {"idle", "down", "dispatch", "advance", "readPhase", "enqueue",
        "advanced", "scan", "run", "complete", "completeLate", "mark",
        "fail", "continue"} \cup Results

(***************************************************************************)
(* Helpers                                                                 *)
(***************************************************************************)
Action(p) == ProcessAction[p + 1]

done == phaseIdx >= NumStages

MutantPhaseTotal == IF done THEN 0
                    ELSE IF Action(phaseIdx) \in BucketStages \ {"SinkTask"} THEN NReduce
                    ELSE NumTasks

phaseTotal == IF done THEN 0
              ELSE IF Action(phaseIdx) \in BucketStages THEN NReduce
              ELSE NumTasks

MutantComplete == phaseDone = phaseTotal /\ inFlight = {}

currentPhaseComplete ==
    /\ phaseDone = phaseTotal
    /\ inFlight = {}
    /\ phaseIdx = 0 /\ Action(0) = "MapTask" => sourceDone

WithId(S, id) == {t \in S : t.TaskId = id}

Ids(S) == {t.TaskId : t \in S}

Chunks(S) == {t.ChunkID : t \in S}

Undispatched(t) == [t EXCEPT !.DispatchedAt = 0]

Retried(t) == Undispatched([t EXCEPT !.Retries = @ + 1])

InPhase(t) == [t EXCEPT !.PhaseIdx = phaseIdx]

Stamped(t) == [t EXCEPT !.DispatchedAt = clock + 1]

Exhausted(t) == t.Retries + 1 >= maxRetries

MutantRequeued(S) == JobStatus

Requeued(S) == JobStatus \cup {Retried(t) : t \in S}

\* What happens to tasks taken out of inFlight because they failed or timed out.
GiveUpOrRequeue(S) ==
    LET gone == {t \in S : Exhausted(t)}
    IN  /\ JobStatus' = Requeued(S \ gone)
        /\ failedTasks' = failedTasks + Cardinality(gone)
        /\ phaseDone' = phaseDone + Cardinality(gone)
        /\ counted' = counted \cup Ids(gone)

\* The state of client c between calls.
Forget(c, where) ==
    /\ pc' = [pc EXCEPT ![c] = where]
    /\ hand' = [hand EXCEPT ![c] = NoTask]

(***************************************************************************)
(* Apply(CmdEnqueueTask)                                                   *)
(***************************************************************************)
EnqueueTask(task) ==
    /\ JobStatus' = JobStatus \cup {task}
    /\ taskFiles' = [id \in DOMAIN taskFiles \cup {task.TaskId} |->
                        IF id = task.TaskId THEN task.ChunkID ELSE taskFiles[id]]
    /\ NumTasks' = NumTasks + 1
    /\ allocs' = allocs + 1

(***************************************************************************)
(* listenFromDataSource                                                    *)
(***************************************************************************)
MutantPopped == srcNext <= NumChunks

\* Pop returned a chunk.
Popped == srcNext < NumChunks

MutantStored == TRUE

\* The chunk's bytes are in chunkStore, its task is not yet proposed.
Stored == srcNext \in chunkStore

StoreChunk ==
    /\ Popped
    /\ srcNext \notin chunkStore
    /\ chunkStore' = chunkStore \cup {srcNext}
    /\ UNCHANGED <<phaseIdx, NumTasks, sourceDone, taskFiles, JobStatus, inFlight,
                   srcNext, pc, hand, walk, storeVars, clock, allocs,
                   countVars, incidents>>

EnqueueChunk ==
    /\ Popped
    /\ Stored
    /\ EnqueueTask(NewTask(srcNext, srcNext, "MapTask", 0))
    /\ srcNext' = srcNext + 1
    /\ UNCHANGED <<phaseIdx, sourceDone, inFlight, chunkStore, pc, hand, walk,
                   storeVars, clock, countVars, incidents>>

SourceExhausted ==
    /\ srcNext = NumChunks
    /\ ~sourceDone
    /\ sourceDone' = TRUE
    /\ UNCHANGED <<phaseIdx, NumTasks, taskFiles, JobStatus, inFlight, chunkStore,
                   srcNext, pc, hand, walk, storeVars, clock, allocs,
                   countVars, incidents>>

(***************************************************************************)
(* AskForTask and the Sink case of AskForCompactTask. A poll answered Wait *)
(* changes nothing and is not a step.                                      *)
(***************************************************************************)
Shutdown(c) ==
    /\ pc[c] = "idle"
    /\ done
    /\ pc' = [pc EXCEPT ![c] = "down"]
    /\ UNCHANGED <<fsmVars, srcNext, hand, walk, storeVars, clock, allocs,
                   counted, incidents>>

MutantDequeue(t) == JobStatus

\* nextJob: the queue's order among equal priorities is a heap's, so any task.
Dequeue(t) == JobStatus \ {t}

TakeTask(c) ==
    /\ pc[c] = "idle"
    /\ ~done
    /\ c \in Compacters => Action(phaseIdx) = "SinkTask"
    /\ \E t \in JobStatus :
          /\ JobStatus' = Dequeue(t)
          /\ hand' = [hand EXCEPT ![c] = Stamped(InPhase(t))]
    /\ clock' = clock + 1
    /\ pc' = [pc EXCEPT ![c] = "dispatch"]
    /\ UNCHANGED <<phaseIdx, NumTasks, sourceDone, taskFiles, inFlight, chunkStore,
                   srcNext, walk, storeVars, allocs, countVars, incidents>>

FindPhaseComplete(c) ==
    /\ pc[c] = "idle"
    /\ c \in Workers
    /\ ~done
    /\ JobStatus = {}
    /\ currentPhaseComplete
    /\ pc' = [pc EXCEPT ![c] = "advance"]
    /\ walk' = [walk EXCEPT ![c] = Walk(phaseIdx, 0, 0, <<>>)]
    /\ UNCHANGED <<fsmVars, srcNext, hand, storeVars, clock, allocs, counted,
                   incidents>>

\* Apply(CmdDispatchTask), with removeFromQueue; the reply reaches the client.
DispatchTask(c) ==
    /\ pc[c] = "dispatch"
    /\ LET id == hand[c].TaskId
       IN  /\ inFlight' = (inFlight \ WithId(inFlight, id)) \cup {hand[c]}
           /\ JobStatus' = JobStatus \ WithId(JobStatus, id)
    /\ pc' = [pc EXCEPT ![c] = "run"]
    /\ UNCHANGED <<phaseIdx, NumTasks, sourceDone, taskFiles, chunkStore, srcNext,
                   hand, walk, storeVars, clock, allocs, countVars, incidents>>

(***************************************************************************)
(* transitionToNextPhase                                                   *)
(***************************************************************************)
\* Apply(CmdAdvancePhase).
AdvancePhase(c) ==
    /\ pc[c] = "advance"
    /\ phaseIdx' = phaseIdx + 1
    /\ phaseDone' = 0
    /\ failedTasks' = 0
    /\ counted' = {}
    /\ inFlight' = {}
    /\ incidents' = incidents \cup (IF walk[c].phase # phaseIdx THEN {"Overlap"} ELSE {})
    /\ pc' = [pc EXCEPT ![c] = "readPhase"]
    /\ UNCHANGED <<NumTasks, sourceDone, taskFiles, JobStatus, chunkStore, srcNext,
                   hand, walk, storeVars, clock, allocs>>

\* The section that reads which phase to set up, from the current phaseIdx.
ReadNextPhase(c) ==
    /\ pc[c] = "readPhase"
    /\ IF done
       THEN /\ pc' = [pc EXCEPT ![c] = "advanced"]
            /\ walk' = [walk EXCEPT ![c] = NoWalk]
       ELSE LET stage == Action(phaseIdx)
                limit == CASE stage \in ChunkStages -> NumTasks
                           [] stage = "GroupByTask" -> 0
                           [] OTHER -> NReduce
            IN  /\ walk' = [walk EXCEPT ![c] =
                      Walk(phaseIdx, 0, limit,
                           IF stage \in ChunkStages THEN taskFiles ELSE <<>>)]
                /\ pc' = [pc EXCEPT ![c] = IF limit = 0 THEN "advanced" ELSE "enqueue"]
    /\ incidents' = incidents \cup
          (IF phaseIdx # walk[c].phase + 1 THEN {"Overlap"} ELSE {})
    /\ UNCHANGED <<fsmVars, srcNext, hand, storeVars, clock, allocs, counted>>

\* One CmdEnqueueTask of the loop over the new phase's tasks.
EnqueueNext(c) ==
    /\ pc[c] = "enqueue"
    /\ LET w     == walk[c]
           stage == Action(w.phase)
           chunk == IF w.next \in DOMAIN w.files THEN w.files[w.next] ELSE NoChunk
       IN  /\ EnqueueTask(NewTask(w.next, chunk, stage, w.phase))
           /\ walk' = [walk EXCEPT ![c] = NextId(walk[c])]
           /\ pc' = [pc EXCEPT ![c] = IF w.next + 1 = w.limit THEN "advanced"
                                      ELSE "enqueue"]
    /\ UNCHANGED <<phaseIdx, sourceDone, inFlight, chunkStore, srcNext, hand,
                   storeVars, clock, countVars, incidents>>

\* AskForTask's second look at done().
EndTransition(c) ==
    /\ pc[c] = "advanced"
    /\ pc' = [pc EXCEPT ![c] = IF done THEN "down" ELSE "idle"]
    /\ walk' = [walk EXCEPT ![c] = NoWalk]
    /\ UNCHANGED <<fsmVars, srcNext, hand, storeVars, clock, allocs, counted,
                   incidents>>

(***************************************************************************)
(* AskForCompactTask, GroupBy case: look for a reduced, unclaimed bucket.  *)
(***************************************************************************)
StartScan(c) ==
    /\ pc[c] = "idle"
    /\ c \in Compacters
    /\ ~done
    /\ Action(phaseIdx) = "GroupByTask"
    /\ pc' = [pc EXCEPT ![c] = "scan"]
    /\ walk' = [walk EXCEPT ![c] = Walk(phaseIdx, 0, NReduce, <<>>)]
    /\ UNCHANGED <<fsmVars, srcNext, hand, storeVars, clock, allocs, counted,
                   incidents>>

MutantClaimedTwice(w) == <<w.phase - 1, w.next>> \in reduction

MutantUnreduced(w) == <<w.phase, w.next>> \notin compaction

Claimable(w) == /\ <<w.phase - 1, w.next>> \in reduction
                /\ <<w.phase, w.next>> \notin compaction

\* IsReduceDone or ClaimCompactDispatch says no; a failed insert may have
\* reached the collection all the same.
SkipBucket(c) ==
    /\ pc[c] = "scan"
    /\ LET w == walk[c]
       IN  /\ ~Claimable(w) \/ ~MongoReliable
           /\ compaction' \in {compaction} \cup
                 (IF Claimable(w) THEN {compaction \cup {<<w.phase, w.next>>}} ELSE {})
           /\ IF w.next + 1 = w.limit
              THEN /\ pc' = [pc EXCEPT ![c] = "idle"]
                   /\ walk' = [walk EXCEPT ![c] = NoWalk]
              ELSE /\ pc' = pc
                   /\ walk' = [walk EXCEPT ![c] = NextId(walk[c])]
    /\ UNCHANGED <<fsmVars, srcNext, hand, reduction, output, clock, allocs,
                   counted, incidents>>

ClaimBucket(c) ==
    /\ pc[c] = "scan"
    /\ Claimable(walk[c])
    /\ LET w == walk[c]
       IN  /\ compaction' = compaction \cup {<<w.phase, w.next>>}
           /\ hand' = [hand EXCEPT ![c] =
                 Stamped(NewTask(w.next, NoChunk, "GroupByTask", w.phase))]
    /\ clock' = clock + 1
    /\ allocs' = allocs + 1
    /\ pc' = [pc EXCEPT ![c] = "dispatch"]
    /\ walk' = [walk EXCEPT ![c] = NoWalk]
    /\ UNCHANGED <<fsmVars, srcNext, reduction, output, counted, incidents>>

(***************************************************************************)
(* Worker.invoke and the compacter loop. The reply's ActionType is that of *)
(* the phase the task was dispatched in.                                   *)
(***************************************************************************)
MutantHandled(c) == IF c \in Workers THEN {"MapTask", "FilterTask", "SelectKeyTask"}
                                     ELSE {"GroupByTask", "SinkTask"}

Handled(c) == IF c \in Workers THEN ChunkStages \cup {"ReduceTask", "SelectKeyTask"}
                               ELSE {"GroupByTask", "SinkTask"}

\* The bucket file that a Reduce or GroupBy stage writes.
BucketFile(p, b) == /\ p >= 0
                    /\ Action(p) \in {"ReduceTask", "GroupByTask"}
                    /\ <<p, b>> \in output

\* mapErr: stage 0 fetches its chunk unless it finds its own checkpoint; a later
\* stage globs the stage before, and no match is no error.
MapInput(t) == t.PhaseIdx = 0 => \/ t.ChunkID \in chunkStore
                                 \/ <<0, t.TaskId>> \in output

\* selectKeyErr and sinkErr open the one file of their bucket.
SelectKeyInput(t) == BucketFile(t.PhaseIdx - 1, t.TaskId)
SinkInput(t)      == BucketFile(t.PhaseIdx - 1, t.TaskId)

\* groupByErr globs the outputs of every reduce stage.
GroupByInput(t) == \E p \in 0..(NumStages - 1) :
                      Action(p) = "ReduceTask" /\ <<p, t.TaskId>> \in output

\* A reduce task globs its input, and no match is no error.
InputFound(t) ==
    LET type == Action(t.PhaseIdx)
    IN  /\ type \in ChunkStages => MapInput(t)
        /\ type = "SelectKeyTask" => SelectKeyInput(t)
        /\ type = "GroupByTask" => GroupByInput(t)
        /\ type = "SinkTask" => SinkInput(t)

\* A type the client has no case for is reported as a success, undone.
Execute(c) ==
    /\ pc[c] = "run"
    /\ LET t       == hand[c]
           handled == Action(t.PhaseIdx) \in Handled(c)
       IN  \/ /\ handled => InputFound(t)
              /\ pc' = [pc EXCEPT ![c] = "TaskSuccess"]
              /\ output' = output \cup
                    (IF handled THEN {<<t.PhaseIdx, t.TaskId>>} ELSE {})
           \/ /\ "TaskFailed" \in Outcomes \/ (handled /\ ~InputFound(t))
              /\ pc' = [pc EXCEPT ![c] = "TaskFailed"]
              /\ UNCHANGED output
           \/ /\ "TaskContinue" \in Outcomes
              /\ t.ChunkOffset < MaxOffset
              /\ pc' = [pc EXCEPT ![c] = "TaskContinue"]
              /\ UNCHANGED output
    /\ UNCHANGED <<fsmVars, srcNext, hand, walk, reduction, compaction, clock,
                   allocs, counted, incidents>>

\* A crash and restart, or a reply or a report that is lost on the way.
Abandon(c) ==
    /\ c \in Faulty
    /\ pc[c] \in {"run"} \cup Results
    /\ Forget(c, "idle")
    /\ UNCHANGED <<fsmVars, srcNext, walk, storeVars, clock, allocs, counted,
                   incidents>>

(***************************************************************************)
(* NoticeResult, first critical section: pc[c] is the message type.        *)
(***************************************************************************)
Superseded(c) == \E t \in WithId(inFlight, hand[c].TaskId) :
                    t.DispatchedAt # hand[c].DispatchedAt

Reported(c) == WithId(inFlight, hand[c].TaskId)

MutantEvict(t) == inFlight

\* NoticeResult evicts the record under the lock it was found under.
Evict(t) == inFlight \ {t}

IgnoreReport(c) ==
    /\ pc[c] \in Results
    /\ \/ hand[c].PhaseIdx # phaseIdx
       \/ Superseded(c)
       \/ pc[c] # "TaskSuccess" /\ Reported(c) = {}
    /\ Forget(c, "idle")
    /\ UNCHANGED <<fsmVars, srcNext, walk, storeVars, clock, allocs, counted,
                   incidents>>

AcceptReport(c) ==
    /\ pc[c] \in Results
    /\ hand[c].PhaseIdx = phaseIdx
    /\ ~Superseded(c)
    /\ \E t \in Reported(c) :
          /\ inFlight' = Evict(t)
          /\ hand' = [hand EXCEPT ![c] = t]
    /\ pc' = [pc EXCEPT ![c] = CASE pc[c] = "TaskSuccess" -> "complete"
                                 [] pc[c] = "TaskFailed" -> "fail"
                                 [] OTHER -> "continue"]
    /\ UNCHANGED <<phaseIdx, NumTasks, sourceDone, taskFiles, JobStatus, chunkStore,
                   srcNext, walk, storeVars, clock, allocs, countVars, incidents>>

\* Nothing in flight under that id: the success goes on all the same.
AcceptLateSuccess(c) ==
    /\ pc[c] = "TaskSuccess"
    /\ hand[c].PhaseIdx = phaseIdx
    /\ Reported(c) = {}
    /\ pc' = [pc EXCEPT ![c] = "completeLate"]
    /\ incidents' = incidents \cup {"LateSuccess"}
    /\ UNCHANGED <<fsmVars, srcNext, hand, walk, storeVars, clock, allocs, counted>>

(***************************************************************************)
(* NoticeResult, the rest                                                  *)
(***************************************************************************)
\* Apply(CmdCompleteTask). Only a report that found its record names a chunk.
CompleteTask(c) ==
    /\ pc[c] \in {"complete", "completeLate"}
    /\ LET t == hand[c]
       IN  /\ inFlight' = inFlight \ WithId(inFlight, t.TaskId)
           /\ chunkStore' = IF pc[c] = "complete" THEN chunkStore \ {t.ChunkID}
                            ELSE chunkStore
           /\ phaseDone' = phaseDone + 1
           /\ counted' = counted \cup {t.TaskId}
           /\ IF pc[c] = "complete" /\ t.ActionType = "ReduceTask"
              THEN pc' = [pc EXCEPT ![c] = "mark"] /\ hand' = hand
              ELSE Forget(c, "idle")
    /\ UNCHANGED <<phaseIdx, failedTasks, NumTasks, sourceDone, taskFiles, JobStatus,
                   srcNext, walk, storeVars, clock, allocs, incidents>>

MarkReduceDone(c) ==
    /\ pc[c] = "mark"
    /\ \/ reduction' = reduction \cup {<<hand[c].PhaseIdx, hand[c].TaskId>>}
       \/ ~MongoReliable /\ reduction' = reduction
    /\ Forget(c, "idle")
    /\ UNCHANGED <<fsmVars, srcNext, walk, compaction, output, clock, allocs,
                   counted, incidents>>

\* Apply(CmdFailTask), which looks the task up in inFlight again.
FailTask(c) ==
    /\ pc[c] = "fail"
    /\ inFlight' = inFlight \ Reported(c)
    /\ GiveUpOrRequeue(Reported(c))
    /\ incidents' = incidents \cup (IF Reported(c) = {} THEN {"LostFailure"} ELSE {})
    /\ Forget(c, "idle")
    /\ UNCHANGED <<phaseIdx, NumTasks, sourceDone, taskFiles, chunkStore, srcNext,
                   walk, storeVars, clock, allocs>>

NextChunk(t) == [t EXCEPT !.ChunkOffset = @ + 1]

ContinueTask(c) ==
    /\ pc[c] = "continue"
    /\ JobStatus' = JobStatus \cup {Undispatched(NextChunk(hand[c]))}
    /\ Forget(c, "idle")
    /\ UNCHANGED <<phaseIdx, NumTasks, sourceDone, taskFiles, inFlight, chunkStore,
                   srcNext, walk, storeVars, clock, allocs, countVars, incidents>>

(***************************************************************************)
(* sweepTimedOutTasks: every task dispatched at or before a deadline has   *)
(* timed out. A client that is not Slow reports before its task times out. *)
(***************************************************************************)
OnTime(t) == \E c \in Clients \ Slow : /\ pc[c] \in {"run"} \cup Results
                                       /\ hand[c].DispatchedAt = t.DispatchedAt

MutantTakeOut(S) == inFlight

TakeOut(S) == inFlight \ S

Sweep ==
    /\ ~done
    /\ \E deadline \in {t.DispatchedAt : t \in inFlight} :
          LET late == {t \in inFlight : t.DispatchedAt <= deadline}
          IN  /\ \A t \in late : ~OnTime(t)
              /\ inFlight' = TakeOut(late)
              /\ GiveUpOrRequeue(late)
              /\ chunkStore' = chunkStore \ Chunks({t \in late : Exhausted(t)})
    /\ UNCHANGED <<phaseIdx, NumTasks, sourceDone, taskFiles, srcNext, pc, hand,
                   walk, storeVars, clock, allocs, incidents>>

(***************************************************************************)
(* Specification                                                           *)
(***************************************************************************)
Init ==
    /\ phaseIdx = 0 /\ phaseDone = 0 /\ failedTasks = 0 /\ NumTasks = 0
    /\ sourceDone = FALSE
    /\ taskFiles = <<>>
    /\ JobStatus = {} /\ inFlight = {} /\ chunkStore = {}
    /\ srcNext = 0
    /\ pc = [c \in Clients |-> "idle"]
    /\ hand = [c \in Clients |-> NoTask]
    /\ walk = [c \in Clients |-> NoWalk]
    /\ reduction = {} /\ compaction = {} /\ output = {}
    /\ clock = 0 /\ allocs = 0
    /\ counted = {} /\ incidents = {}

Listener == StoreChunk \/ EnqueueChunk \/ SourceExhausted

Poll(c) == Shutdown(c) \/ TakeTask(c) \/ FindPhaseComplete(c) \/ StartScan(c)

Transition(c) == AdvancePhase(c) \/ ReadNextPhase(c) \/ EnqueueNext(c) \/ EndTransition(c)

Compact(c) == SkipBucket(c) \/ ClaimBucket(c)

Report(c) == \/ IgnoreReport(c) \/ AcceptReport(c) \/ AcceptLateSuccess(c)
             \/ CompleteTask(c) \/ MarkReduceDone(c) \/ FailTask(c) \/ ContinueTask(c)

ClientStep(c) == \/ Poll(c) \/ DispatchTask(c) \/ Transition(c) \/ Compact(c)
                 \/ Execute(c) \/ Report(c)

Next == \/ Listener
        \/ Sweep
        \/ \E c \in Clients : ClientStep(c) \/ Abandon(c)

Spec == Init /\ [][Next]_vars

\* A handler that has started runs on, an idle client polls again, the sweeper
\* ticks every sweepInterval, and the data source ends.
FairSpec == /\ Spec
            /\ WF_vars(Listener)
            /\ WF_vars(Sweep)
            /\ \A c \in Clients : WF_vars(ClientStep(c))
=============================================================================
