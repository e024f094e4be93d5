---------------------------- MODULE RaftCluster ----------------------------
(***************************************************************************)
(* The scheduler as a cluster: every node runs a Coordinator, which is the *)
(* FSM of a replicated log; the leader's handlers propose commands and     *)
(* wait until they are applied at their own node. Three things change a    *)
(* node's fields outside the log: the handlers (dequeue, eviction,         *)
(* SubmitJob), the sweeper, which runs on every node, and a restart from a *)
(* snapshot.                                                               *)
(*                                                                         *)
(* hashicorp/raft is modelled from how it is used: one committed log, a    *)
(* leader whose FSM may be behind, Apply in order on one goroutine,        *)
(* Persist on another, a proposal that fails when the node is not leader   *)
(* or stops being it, after which the command may be committed or not.     *)
(* Calls go through the service address of the manifests, so to any node.  *)
(***************************************************************************)
EXTENDS Integers, Sequences, FiniteSets

CONSTANTS
    Nodes, Workers,
    Job,            \* the pipeline that is submitted
    NReduce, NumChunks, maxRetries,
    NoNode,
    MaxLog, MaxSubmits, MaxElections, MaxRestarts, MaxSnapshots, MaxSweeps,  \* bounds
    MaxPolls,       \* bound on the polls of a leader that has no job
    MaxFaults       \* bound on restarts, snapshots, sweeps and polls together

ChunkStages  == {"MapTask", "FilterTask"}
BucketStages == {"ReduceTask", "SelectKeyTask", "SinkTask"}

ASSUME ClusterAssumption ==
    /\ NoNode \notin Nodes
    /\ Job \in Seq(ChunkStages \cup BucketStages)
    /\ Job # <<>>
    /\ NReduce \in Nat \ {0} /\ NumChunks \in Nat /\ maxRetries \in Nat \ {0}

ASSUME BoundsAssumption ==
    {MaxSubmits, MaxElections, MaxRestarts, MaxSnapshots, MaxSweeps, MaxPolls} \subseteq Nat

VARIABLES
    log, leader,
    \* what the log determines, per node
    applied, phaseIdx, phaseDone, failedTasks, NumTasks, phaseUUIDs,
    \* what it does not
    JobStatus, inFlight, ProcessAction, sourceDone,
    taking, snap,   \* the snapshot between Snapshot and Persist, and the last one
    replayTo,       \* history: how far the node had applied when snap was written
    spoiled,        \* history: see Mishaps
    \* clients, and the handler their call runs in
    pc, at, hand, wait, walk,
    stream,         \* listenFromDataSource of each submission
    spent           \* how much of each bound is used up

fsmVars    == <<applied, phaseIdx, phaseDone, failedTasks, NumTasks, phaseUUIDs>>
taskVars   == <<JobStatus, inFlight>>
localVars  == <<ProcessAction, sourceDone>>
snapVars   == <<taking, snap, replayTo>>
clientVars == <<pc, at, hand, wait, walk>>
vars       == <<log, leader, fsmVars, taskVars, localVars, snapVars, spoiled, clientVars,
                stream, spent>>

(***************************************************************************)
(* Records                                                                 *)
(***************************************************************************)
\* obj is the position of the CmdEnqueueTask that made the task, and DispatchedAt
\* that of the CmdDispatchTask: times are only compared for order and equality.
NoTask == [obj |-> 0, TaskId |-> 0, PhaseIdx |-> 0, Retries |-> 0, DispatchedAt |-> 0]

NewTask(id, phase) == [NoTask EXCEPT !.TaskId = id, !.PhaseIdx = phase]

Command(type, task) == [type |-> type, task |-> task]

NoWalk == [phase |-> 0, next |-> 0, limit |-> 0]

NoStream == [node |-> NoNode, next |-> 0, wait |-> 0]

NoSnapshot == [index |-> -1]

\* Dropped: a record taken out of inFlight by a report is gone, because the
\*          proposal failed or because CmdFailTask needs it; or a snapshot
\*          misses a task that was between two places.
\* Doubled: a task was put back in the queue after its dispatch had been applied, or
\*          when a snapshot had brought it back already (equal copies count as one).
Mishaps == {"Dropped", "Doubled"}

Budget == [submits |-> MaxSubmits, elections |-> MaxElections, restarts |-> MaxRestarts,
           snapshots |-> MaxSnapshots, sweeps |-> MaxSweeps, polls |-> MaxPolls]

Spend(what) == /\ spent[what] < Budget[what]
               /\ what \in {"restarts", "snapshots", "sweeps", "polls"} =>
                     spent.restarts + spent.snapshots + spent.sweeps + spent.polls
                         < MaxFaults
               /\ spent' = [spent EXCEPT ![what] = @ + 1]

(***************************************************************************)
(* Helpers                                                                 *)
(***************************************************************************)
NoJob == <<>>

Action(n) == ProcessAction[n][phaseIdx[n] + 1]

done(n) == ProcessAction[n] # NoJob /\ phaseIdx[n] >= Len(ProcessAction[n])

phaseTotal(n) == IF Action(n) \in BucketStages THEN NReduce ELSE NumTasks[n]

\* Without a job phaseTotal is 0 and the answer TRUE.
currentPhaseComplete(n) ==
    ProcessAction[n] # NoJob =>
        /\ phaseDone[n] = phaseTotal(n)
        /\ inFlight[n] = {}
        /\ phaseIdx[n] = 0 /\ Action(n) = "MapTask" => sourceDone[n]

WithId(S, id) == {t \in S : t.TaskId = id}

Ids(S) == {t.TaskId : t \in S}

Objs(S) == {t.obj : t \in S}

MutantUndispatched(t) == t

Undispatched(t) == [t EXCEPT !.DispatchedAt = 0]

Retried(t) == Undispatched([t EXCEPT !.Retries = @ + 1])

Exhausted(t) == t.Retries + 1 >= maxRetries

\* Handlers at node n that hold the only reference to a task.
HeldAt(n) == {hand[c] : c \in {d \in Workers : /\ pc[d] \in {"dispatch", "complete", "fail"}
                                               /\ at[d] = n
                                               /\ hand[d].obj # 0}}

\* The map that Snapshot has handed to Persist is still the one in use.
Shared(n) == taking[n] # NoSnapshot /\ taking[n].live

Spoil(n, what) == spoiled' = [spoiled EXCEPT ![n] = @ \cup what]

\* A task has left the shared map, for a place the snapshot does not show.
Tear(n) == taking' = IF Shared(n) THEN [taking EXCEPT ![n].spoiled = @ \cup {"Dropped"}]
                                  ELSE taking

\* A new inFlight map: from here on, what a snapshot under way holds is its own.
Detach(n) == taking' = IF Shared(n)
                       THEN [taking EXCEPT ![n].live = FALSE, ![n].inFlight = inFlight[n]]
                       ELSE taking

(***************************************************************************)
(* Apply, one entry at a time                                              *)
(***************************************************************************)
Entry(n) == log[applied[n] + 1]

Applies(n, type) ==
    /\ applied[n] < Len(log)
    /\ Entry(n).type = type
    /\ applied' = [applied EXCEPT ![n] = @ + 1]

ApplyEnqueueTask(n) ==
    /\ Applies(n, "EnqueueTask")
    /\ LET t == [Entry(n).task EXCEPT !.obj = applied[n] + 1]
       IN  JobStatus' = [JobStatus EXCEPT ![n] = @ \cup {t}]
    /\ NumTasks' = [NumTasks EXCEPT ![n] = @ + 1]
    /\ UNCHANGED <<log, leader, phaseIdx, phaseDone, failedTasks, phaseUUIDs, inFlight,
                   localVars, snapVars, spoiled, clientVars, stream, spent>>

MutantRemoveFromQueue(S, id) == S

removeFromQueue(S, id) == S \ WithId(S, id)

ApplyDispatchTask(n) ==
    /\ Applies(n, "DispatchTask")
    /\ LET t == [Entry(n).task EXCEPT !.DispatchedAt = applied[n] + 1]
       IN  /\ inFlight' = [inFlight EXCEPT ![n] = (@ \ WithId(@, t.TaskId)) \cup {t}]
           /\ JobStatus' = [JobStatus EXCEPT ![n] = removeFromQueue(@, t.TaskId)]
    /\ UNCHANGED <<log, leader, phaseIdx, phaseDone, failedTasks, NumTasks, phaseUUIDs, localVars, snapVars, spoiled, clientVars, stream, spent>>

ApplyCompleteTask(n) ==
    /\ Applies(n, "CompleteTask")
    /\ inFlight' = [inFlight EXCEPT ![n] = @ \ WithId(@, Entry(n).task.TaskId)]
    /\ phaseDone' = [phaseDone EXCEPT ![n] = @ + 1]
    /\ UNCHANGED <<log, leader, phaseIdx, failedTasks, NumTasks, phaseUUIDs,
                   JobStatus, ProcessAction, sourceDone, snapVars, spoiled, clientVars,
                   stream, spent>>

\* The tasks S of node n are retried, or counted when their retries are exhausted.
GiveUpOrRequeue(n, S) ==
    LET gone == {t \in S : Exhausted(t)}
    IN  /\ inFlight' = [inFlight EXCEPT ![n] = @ \ S]
        /\ JobStatus' = [JobStatus EXCEPT ![n] = @ \cup {Retried(t) : t \in S \ gone}]
        /\ failedTasks' = [failedTasks EXCEPT ![n] = @ + Cardinality(gone)]
        /\ phaseDone' = [phaseDone EXCEPT ![n] = @ + Cardinality(gone)]

ApplyFailTask(n) ==
    /\ Applies(n, "FailTask")
    /\ LET S == WithId(inFlight[n], Entry(n).task.TaskId)
       IN  /\ GiveUpOrRequeue(n, S)
           /\ IF S = {} THEN UNCHANGED taking ELSE Tear(n)
    /\ UNCHANGED <<log, leader, phaseIdx, NumTasks, phaseUUIDs, localVars,
                   snap, replayTo, spoiled, clientVars, stream, spent>>

ApplyAdvancePhase(n) ==
    /\ Applies(n, "AdvancePhase")
    /\ phaseIdx' = [phaseIdx EXCEPT ![n] = @ + 1]
    /\ phaseDone' = [phaseDone EXCEPT ![n] = 0]
    /\ failedTasks' = [failedTasks EXCEPT ![n] = 0]
    /\ inFlight' = [inFlight EXCEPT ![n] = {}]
    /\ phaseUUIDs' = [phaseUUIDs EXCEPT ![n] =
          [p \in DOMAIN @ \cup {phaseIdx[n] + 1} |->
              IF p = phaseIdx[n] + 1 THEN applied[n] + 1 ELSE @[p]]]
    /\ Detach(n)
    /\ UNCHANGED <<log, leader, NumTasks, JobStatus, localVars, snap, replayTo,
                   spoiled, clientVars, stream, spent>>

Apply(n) == \/ ApplyEnqueueTask(n) \/ ApplyDispatchTask(n) \/ ApplyCompleteTask(n)
            \/ ApplyFailTask(n) \/ ApplyAdvancePhase(n)

(***************************************************************************)
(* Snapshot, Persist, Restore                                              *)
(***************************************************************************)
MutantPhaseAt(n) == 0

PhaseAt(n) == phaseIdx[n]

\* The counters and the queue are copied; inFlight is the map itself, which Persist
\* encodes without the lock.
Snapshot(n) ==
    /\ taking[n] = NoSnapshot
    /\ applied[n] > snap[n].index
    /\ Spend("snapshots")
    /\ taking' = [taking EXCEPT ![n] =
          [index |-> applied[n], phaseIdx |-> PhaseAt(n), phaseDone |-> phaseDone[n],
           failedTasks |-> failedTasks[n], NumTasks |-> NumTasks[n],
           phaseUUIDs |-> phaseUUIDs[n], sourceDone |-> sourceDone[n],
           JobStatus |-> JobStatus[n], live |-> TRUE, inFlight |-> {},
           upto |-> applied[n],
           spoiled |-> spoiled[n] \cup (IF HeldAt(n) # {} THEN {"Dropped"} ELSE {})]]
    /\ UNCHANGED <<log, leader, fsmVars, taskVars, localVars, snap, replayTo, spoiled,
                   clientVars, stream>>

MutantPersistedInFlight(n) == {}

PersistedInFlight(n) == IF taking[n].live THEN inFlight[n] ELSE taking[n].inFlight

\* The snapshot with the highest index is the one that counts.
Persist(n) ==
    /\ taking[n] # NoSnapshot
    /\ snap' = IF taking[n].index <= snap[n].index THEN snap
               ELSE [snap EXCEPT ![n] =
                        [taking[n] EXCEPT !.inFlight = PersistedInFlight(n),
                                          !.live = FALSE,
                                          !.upto = IF replayTo[n] > applied[n]
                                                   THEN replayTo[n] ELSE applied[n]]]
    /\ taking' = [taking EXCEPT ![n] = NoSnapshot]
    /\ UNCHANGED <<log, leader, fsmVars, taskVars, localVars, replayTo, spoiled,
                   clientVars, stream, spent>>

Restore(n, image) ==
    /\ applied' = [applied EXCEPT ![n] = image.index]
    /\ phaseIdx' = [phaseIdx EXCEPT ![n] = image.phaseIdx]
    /\ phaseDone' = [phaseDone EXCEPT ![n] = image.phaseDone]
    /\ failedTasks' = [failedTasks EXCEPT ![n] = image.failedTasks]
    /\ NumTasks' = [NumTasks EXCEPT ![n] = image.NumTasks]
    /\ phaseUUIDs' = [phaseUUIDs EXCEPT ![n] = image.phaseUUIDs]
    /\ sourceDone' = [sourceDone EXCEPT ![n] = image.sourceDone]
    /\ inFlight' = [inFlight EXCEPT ![n] = image.inFlight]
    /\ JobStatus' = [JobStatus EXCEPT ![n] = image.JobStatus]
    /\ replayTo' = [replayTo EXCEPT ![n] = image.upto]
    /\ spoiled' = [spoiled EXCEPT ![n] = image.spoiled]

\* A process that ends takes its handlers and its listeners with it. Its clients see
\* an error; what they were to report is lost.
Crash(n) ==
    /\ Spend("restarts")
    /\ Restore(n, snap[n])
    /\ ProcessAction' = [ProcessAction EXCEPT ![n] = NoJob]
    /\ taking' = [taking EXCEPT ![n] = NoSnapshot]
    /\ leader' = IF leader = n THEN NoNode ELSE leader
    /\ pc' = [c \in Workers |-> IF at[c] = n THEN "idle" ELSE pc[c]]
    /\ at' = [c \in Workers |-> IF at[c] = n THEN NoNode ELSE at[c]]
    /\ hand' = [c \in Workers |-> IF at[c] = n THEN NoTask ELSE hand[c]]
    /\ wait' = [c \in Workers |-> IF at[c] = n THEN 0 ELSE wait[c]]
    /\ walk' = [c \in Workers |-> IF at[c] = n THEN NoWalk ELSE walk[c]]
    /\ stream' = [k \in DOMAIN stream |->
                     IF stream[k].node = n THEN NoStream ELSE stream[k]]
    /\ UNCHANGED <<log, snap>>

\* A node that is far behind is sent the leader's snapshot instead of the entries,
\* and keeps it.
InstallSnapshot(n) ==
    /\ leader \in Nodes \ {n}
    /\ snap[leader].index > applied[n]
    /\ snap' = [snap EXCEPT ![n] = snap[leader]]
    /\ Restore(n, snap[leader])
    /\ Detach(n)
    /\ UNCHANGED <<log, leader, ProcessAction, clientVars, stream, spent>>

(***************************************************************************)
(* Leadership and proposals                                                *)
(***************************************************************************)
\* The new leader need not have applied what is committed.
Elect(n) ==
    /\ leader # n
    /\ Spend("elections")
    /\ leader' = n
    /\ UNCHANGED <<log, fsmVars, taskVars, localVars, snapVars, spoiled, clientVars, stream>>

\* The command that the handler of client c is about to propose, at pc[c].
CommandOf(c) ==
    CASE pc[c] = "dispatch" -> Command("DispatchTask", hand[c])
      [] pc[c] = "complete" -> Command("CompleteTask", hand[c])
      [] pc[c] = "fail"     -> Command("FailTask", hand[c])
      [] pc[c] = "advance"  -> Command("AdvancePhase", NoTask)
      [] OTHER -> Command("EnqueueTask", NewTask(walk[c].next, walk[c].phase))

Proposing == {"dispatch", "complete", "fail", "advance", "enqueue"}

Failed   == -1
Answered(n, w) == w > 0 /\ applied[n] >= w

Propose(c) ==
    /\ pc[c] \in Proposing
    /\ wait[c] = 0
    /\ leader = at[c]
    /\ Len(log) < MaxLog
    /\ log' = Append(log, CommandOf(c))
    /\ wait' = [wait EXCEPT ![c] = Len(log) + 1]
    /\ UNCHANGED <<leader, fsmVars, taskVars, localVars, snapVars, spoiled, pc, at, hand,
                   walk, stream, spent>>

\* Not the leader, or no longer: the handler gets an error, and an entry that is in
\* the log stays there.
Refused(n, w) == leader # n /\ ~Answered(n, w)

\* The one handler that touches the state again after an error.
Refuse(c) ==
    /\ pc[c] = "dispatch"
    /\ wait[c] # Failed /\ Refused(at[c], wait[c])
    /\ wait' = [wait EXCEPT ![c] = Failed]
    /\ UNCHANGED <<log, leader, fsmVars, taskVars, localVars, snapVars, spoiled, pc, at,
                   hand, walk, stream, spent>>

(***************************************************************************)
(* SubmitJob and listenFromDataSource                                      *)
(***************************************************************************)
\* Only the fields of this node are set; nothing of it goes through the log, and
\* what an earlier job has left is not reset.
SubmitJob(n) ==
    /\ leader = n
    /\ Spend("submits")
    /\ ProcessAction' = [ProcessAction EXCEPT ![n] = Job]
    /\ phaseUUIDs' = [phaseUUIDs EXCEPT ![n] =
          [p \in DOMAIN @ \cup {0} |-> IF p = 0 THEN -(spent.submits + 1) ELSE @[p]]]
    /\ stream' = [stream EXCEPT ![spent.submits + 1] = [NoStream EXCEPT !.node = n]]
    /\ UNCHANGED <<log, leader, applied, phaseIdx, phaseDone, failedTasks, NumTasks, taskVars,
                   sourceDone, snapVars, spoiled, clientVars>>

\* The task of a chunk is proposed, whether or not this is still the leader; an error
\* is ignored.
StreamChunk(k) ==
    LET s == stream[k]
        n == s.node
    IN  /\ n # NoNode
        /\ s.next < NumChunks
        /\ s.wait = 0
        /\ IF leader = n
           THEN /\ Len(log) < MaxLog
                /\ log' = Append(log, Command("EnqueueTask", NewTask(s.next, 0)))
                /\ stream' = [stream EXCEPT ![k].wait = Len(log) + 1]
           ELSE /\ stream' = [stream EXCEPT ![k].next = @ + 1]
                /\ UNCHANGED log
        /\ UNCHANGED <<leader, fsmVars, taskVars, ProcessAction, sourceDone, snapVars,
                       spoiled, clientVars, spent>>

StreamGoesOn(k) ==
    LET s == stream[k]
    IN  /\ s.node # NoNode
        /\ s.wait # 0
        /\ Answered(s.node, s.wait) \/ Refused(s.node, s.wait)
        /\ stream' = [stream EXCEPT ![k].next = @ + 1, ![k].wait = 0]
        /\ UNCHANGED <<log, leader, fsmVars, taskVars, localVars, snapVars, spoiled,
                       clientVars, spent>>

\* The source yields NumChunks chunks (see ChunkQueue).
StreamEnds(k) ==
    LET s == stream[k]
    IN  /\ s.node # NoNode
        /\ s.next = NumChunks
        /\ sourceDone' = [sourceDone EXCEPT ![s.node] = TRUE]
        /\ stream' = [stream EXCEPT ![k] = NoStream]
        /\ UNCHANGED <<log, leader, fsmVars, taskVars, ProcessAction, snapVars,
                       spoiled, clientVars, spent>>

Stream(k) == StreamChunk(k) \/ StreamGoesOn(k) \/ StreamEnds(k)

(***************************************************************************)
(* AskForTask. An answer Wait changes nothing, nor does Shutdown: another  *)
(* client may take the place of one that has been told to stop.            *)
(***************************************************************************)
\* Client c's call goes on at node n.
Enter(c, n, where, task) ==
    /\ pc' = [pc EXCEPT ![c] = where]
    /\ at' = [at EXCEPT ![c] = n]
    /\ hand' = [hand EXCEPT ![c] = task]
    /\ wait' = [wait EXCEPT ![c] = 0]
    /\ walk' = [walk EXCEPT ![c] = NoWalk]

Leave(c) == Enter(c, NoNode, "idle", NoTask)

TakeTask(c, n) ==
    /\ pc[c] = "idle"
    /\ leader = n
    /\ ProcessAction[n] # NoJob /\ ~done(n)
    /\ \E t \in JobStatus[n] :
          /\ JobStatus' = [JobStatus EXCEPT ![n] = @ \ {t}]
          /\ Enter(c, n, "dispatch", [t EXCEPT !.PhaseIdx = phaseIdx[n]])
    /\ UNCHANGED <<log, leader, fsmVars, inFlight, localVars, snapVars, spoiled, stream, spent>>

\* There is a task, and ProcessAction[phaseIdx] is out of range.
PanicOnTask(c, n) ==
    /\ pc[c] = "idle"
    /\ leader = n
    /\ ProcessAction[n] = NoJob
    /\ JobStatus[n] # {}
    /\ Crash(n)

FindPhaseComplete(c, n) ==
    /\ pc[c] = "idle"
    /\ leader = n
    /\ ~done(n)
    /\ JobStatus[n] = {}
    /\ currentPhaseComplete(n)
    /\ Enter(c, n, "advance", NoTask)
    /\ IF ProcessAction[n] = NoJob THEN Spend("polls") ELSE UNCHANGED spent
    /\ UNCHANGED <<log, leader, fsmVars, taskVars, localVars, snapVars, spoiled, stream>>

\* The reply reaches the worker.
Dispatched(c) ==
    /\ pc[c] = "dispatch"
    /\ Answered(at[c], wait[c])
    /\ Enter(c, NoNode, "run", [hand[c] EXCEPT !.DispatchedAt = wait[c]])
    /\ UNCHANGED <<log, leader, fsmVars, taskVars, localVars, snapVars, spoiled, stream, spent>>

\* The error path puts the task back, although the command may have been applied.
DispatchFailed(c) ==
    /\ pc[c] = "dispatch"
    /\ wait[c] = Failed
    /\ LET n == at[c]
       IN  /\ JobStatus' = [JobStatus EXCEPT ![n] = @ \cup {Undispatched(hand[c])}]
           /\ Spoil(n, IF hand[c].obj \in Objs(inFlight[n] \cup JobStatus[n]) THEN {"Doubled"} ELSE {})
    /\ Leave(c)
    /\ UNCHANGED <<log, leader, fsmVars, inFlight, localVars, snapVars, stream, spent>>

(***************************************************************************)
(* transitionToNextPhase                                                   *)
(***************************************************************************)
AdvanceFailed(c) ==
    /\ pc[c] = "advance"
    /\ Refused(at[c], wait[c])
    /\ Leave(c)
    /\ UNCHANGED <<log, leader, fsmVars, taskVars, localVars, snapVars, spoiled, stream, spent>>

ReadNextPhase(c) ==
    /\ pc[c] = "advance"
    /\ Answered(at[c], wait[c])
    /\ LET n == at[c]
           limit == IF Action(n) \in ChunkStages THEN NumTasks[n] ELSE NReduce
       IN  /\ ProcessAction[n] # NoJob
           /\ IF done(n) \/ limit = 0
              THEN Leave(c)
              ELSE /\ pc' = [pc EXCEPT ![c] = "enqueue"]
                   /\ walk' = [walk EXCEPT ![c] =
                         [phase |-> phaseIdx[n], next |-> 0, limit |-> limit]]
                   /\ wait' = [wait EXCEPT ![c] = 0]
                   /\ UNCHANGED <<at, hand>>
    /\ UNCHANGED <<log, leader, fsmVars, taskVars, localVars, snapVars, spoiled, stream, spent>>

\* The phase is advanced, and ProcessAction[phaseIdx] is out of range.
PanicOnAdvance(c) ==
    /\ pc[c] = "advance"
    /\ Answered(at[c], wait[c])
    /\ ProcessAction[at[c]] = NoJob
    /\ Crash(at[c])

\* One round of the enqueue loop is over; its error is ignored.
EnqueueNext(c) ==
    /\ pc[c] = "enqueue"
    /\ Answered(at[c], wait[c]) \/ Refused(at[c], wait[c])
    /\ IF walk[c].next + 1 = walk[c].limit
       THEN Leave(c)
       ELSE /\ walk' = [walk EXCEPT ![c].next = @ + 1]
            /\ wait' = [wait EXCEPT ![c] = 0]
            /\ UNCHANGED <<pc, at, hand>>
    /\ UNCHANGED <<log, leader, fsmVars, taskVars, localVars, snapVars, spoiled, stream, spent>>

(***************************************************************************)
(* NoticeResult, which a follower serves as well. What the worker reports  *)
(* is open: the execution itself is in DataPath.                           *)
(***************************************************************************)
Reports == {"TaskSuccess", "TaskFailed"}

Reported(c, n) == WithId(inFlight[n], hand[c].TaskId)

IgnoreReport(c, n, msg) ==
    /\ pc[c] = "run"
    /\ \/ hand[c].PhaseIdx # phaseIdx[n]
       \/ \E t \in Reported(c, n) : t.DispatchedAt # hand[c].DispatchedAt
       \/ msg = "TaskFailed" /\ Reported(c, n) = {}
    /\ Leave(c)
    /\ UNCHANGED <<log, leader, fsmVars, taskVars, localVars, snapVars, spoiled, stream, spent>>

Proposal(msg) == IF msg = "TaskSuccess" THEN "complete" ELSE "fail"

AcceptReport(c, n, msg) ==
    /\ pc[c] = "run"
    /\ hand[c].PhaseIdx = phaseIdx[n]
    /\ \E t \in Reported(c, n) :
          /\ t.DispatchedAt = hand[c].DispatchedAt
          /\ inFlight' = [inFlight EXCEPT ![n] = @ \ {t}]
          /\ Enter(c, n, Proposal(msg), t)
    /\ Tear(n)
    /\ UNCHANGED <<log, leader, fsmVars, JobStatus, localVars, snap, replayTo, spoiled,
                   stream, spent>>

\* Nothing in flight: a success goes on, without a record.
AcceptLateSuccess(c, n) ==
    /\ pc[c] = "run"
    /\ hand[c].PhaseIdx = phaseIdx[n]
    /\ Reported(c, n) = {}
    /\ Enter(c, n, "complete", [NoTask EXCEPT !.TaskId = hand[c].TaskId])
    /\ UNCHANGED <<log, leader, fsmVars, taskVars, localVars, snapVars, spoiled, stream, spent>>

\* The handler returns. A record it had evicted comes back only if the command says
\* so, and CmdFailTask finds it gone.
ReturnReport(c) ==
    /\ pc[c] \in {"complete", "fail"}
    /\ Answered(at[c], wait[c]) \/ Refused(at[c], wait[c])
    /\ Spoil(at[c], IF hand[c].obj # 0 /\ (pc[c] = "fail" \/ Refused(at[c], wait[c]))
                    THEN {"Dropped"} ELSE {})
    /\ Leave(c)
    /\ UNCHANGED <<log, leader, fsmVars, taskVars, localVars, snapVars, stream, spent>>

\* The worker crashes, or its reply or its report is lost.
GoSilent(c) ==
    /\ pc[c] = "run"
    /\ Leave(c)
    /\ UNCHANGED <<log, leader, fsmVars, taskVars, localVars, snapVars, spoiled, stream, spent>>

(***************************************************************************)
(* sweepTimedOutTasks, on every node                                       *)
(***************************************************************************)
Sweep(n) ==
    /\ ~done(n)
    /\ Spend("sweeps")
    /\ \E late \in (SUBSET inFlight[n]) \ {{}} :
          GiveUpOrRequeue(n, late)
    /\ Tear(n)
    /\ UNCHANGED <<log, leader, applied, phaseIdx, NumTasks, phaseUUIDs,
                   ProcessAction, sourceDone, snap, replayTo, spoiled, clientVars, stream>>

(***************************************************************************)
(* Specification                                                           *)
(***************************************************************************)
FirstSnapshot == [index |-> 0, phaseIdx |-> 0, phaseDone |-> 0, failedTasks |-> 0,
                  NumTasks |-> 0, phaseUUIDs |-> <<>>, sourceDone |-> FALSE,
                  JobStatus |-> {}, live |-> FALSE, inFlight |-> {},
                  upto |-> 0, spoiled |-> {}]

Init ==
    /\ log = <<>> /\ leader \in Nodes
    /\ applied = [n \in Nodes |-> 0]
    /\ phaseIdx = [n \in Nodes |-> 0]
    /\ phaseDone = [n \in Nodes |-> 0]
    /\ failedTasks = [n \in Nodes |-> 0]
    /\ NumTasks = [n \in Nodes |-> 0]
    /\ phaseUUIDs = [n \in Nodes |-> <<>>]
    /\ JobStatus = [n \in Nodes |-> {}]
    /\ inFlight = [n \in Nodes |-> {}]
    /\ ProcessAction = [n \in Nodes |-> NoJob]
    /\ sourceDone = [n \in Nodes |-> FALSE]
    /\ taking = [n \in Nodes |-> NoSnapshot]
    /\ snap = [n \in Nodes |-> FirstSnapshot]
    /\ replayTo = [n \in Nodes |-> 0]
    /\ spoiled = [n \in Nodes |-> {}]
    /\ pc = [c \in Workers |-> "idle"]
    /\ at = [c \in Workers |-> NoNode]
    /\ hand = [c \in Workers |-> NoTask]
    /\ wait = [c \in Workers |-> 0]
    /\ walk = [c \in Workers |-> NoWalk]
    /\ stream = [k \in 1..MaxSubmits |-> NoStream]
    /\ spent = [what \in DOMAIN Budget |-> 0]

Node(n) == Apply(n) \/ Sweep(n) \/ SubmitJob(n)

Faults(n) == Snapshot(n) \/ Persist(n) \/ Crash(n) \/ InstallSnapshot(n) \/ Elect(n)

Call(c, n) == \/ TakeTask(c, n) \/ PanicOnTask(c, n)
              \/ FindPhaseComplete(c, n)
              \/ AcceptLateSuccess(c, n)
              \/ \E msg \in Reports : IgnoreReport(c, n, msg) \/ AcceptReport(c, n, msg)

Handler(c) == \/ Propose(c) \/ Refuse(c)
              \/ Dispatched(c) \/ DispatchFailed(c)
              \/ AdvanceFailed(c) \/ ReadNextPhase(c) \/ PanicOnAdvance(c)
              \/ EnqueueNext(c)
              \/ ReturnReport(c) \/ GoSilent(c)

Next == \/ \E n \in Nodes : Node(n) \/ Faults(n)
        \/ \E c \in Workers : Handler(c) \/ \E n \in Nodes : Call(c, n)
        \/ \E k \in 1..MaxSubmits : Stream(k)

Spec == Init /\ [][Next]_vars
=============================================================================
