-------------------------- MODULE CoordinatorProps --------------------------
(***************************************************************************)
(* What the scheduler must never do, and must eventually do.               *)
(*                                                                         *)
(* The accounting properties are conditional on incidents: the code has    *)
(* two races after which the accounts are wrong for good and one that      *)
(* loses a task, runs of their own show each of them, and these properties *)
(* say that there is no fourth. The others hold whatever has happened.     *)
(***************************************************************************)
EXTENDS Coordinator

(***************************************************************************)
(* Types                                                                   *)
(***************************************************************************)
FilesOK(f) == /\ DOMAIN f \subseteq Nat
              /\ \A id \in DOMAIN f : f[id] \in Nat \cup {NoChunk}

\* A transition that enqueues and a compacter that scans are in a phase that is
\* there.
WalkOK(w, where) ==
    /\ w.phase \in Nat /\ w.next \in Nat /\ w.limit \in Nat
    /\ FilesOK(w.files)
    /\ where \in {"enqueue", "scan"} => w.phase < NumStages

\* Every variable stays within the type its Go declaration and its use give it.
TypeOK ==
    /\ phaseIdx \in Nat /\ phaseDone \in Nat /\ failedTasks \in Nat
    /\ NumTasks \in Nat /\ srcNext \in 0..NumChunks
    /\ sourceDone \in BOOLEAN
    /\ FilesOK(taskFiles)
    /\ \A t \in JobStatus \cup inFlight : t \in TaskInfo
    /\ IsFiniteSet(inFlight)
    /\ chunkStore \subseteq 0..(NumChunks - 1)
    /\ pc \in [Clients -> PCs]
    /\ hand \in [Clients -> TaskInfo]
    /\ DOMAIN walk = Clients
    /\ \A c \in Clients : WalkOK(walk[c], pc[c])
    /\ reduction \subseteq Nat \X Nat
    /\ compaction \subseteq Nat \X Nat
    /\ output \subseteq Nat \X Nat
    /\ clock \in Nat /\ allocs \in Nat
    /\ counted \subseteq Nat
    /\ incidents \subseteq Incidents

(***************************************************************************)
(* Where a task of the current phase can be                                *)
(***************************************************************************)
\* One map stage, the first; the others count NReduce tasks.
OneMapStage == /\ Action(0) = "MapTask"
               /\ \A p \in 1..(NumStages - 1) : Action(p) \in BucketStages

Executing(c) == pc[c] \in {"run"} \cup Results

\* Handlers that hold the only reference to a task.
Holders == {c \in Clients : pc[c] \in {"dispatch", "complete", "fail", "continue"}}

InHand == {hand[c] : c \in Holders}

PhaseTasks == 0..(phaseTotal - 1)

\* Tasks of the phase that a transition or a compacter has still to create.
Uncreated ==
    LET transitioning == {c \in Clients : pc[c] \in {"readPhase", "enqueue"}}
    IN  (UNION {IF pc[c] = "readPhase" THEN PhaseTasks
                ELSE walk[c].next..(walk[c].limit - 1) : c \in transitioning})
        \cup (IF ~done /\ Action(phaseIdx) = "GroupByTask"
              THEN {b \in PhaseTasks : <<phaseIdx, b>> \notin compaction}
              ELSE {})

(***************************************************************************)
(* Accounting, as long as no incident has made it wrong                    *)
(***************************************************************************)
\* A lost failure makes its phase wait for ever, but nothing is miscounted by it.
NoMiscount == incidents \subseteq {"LostFailure"}

\* phaseDone "counts completed tasks in the current phase": no task of the phase
\* is counted twice, none of another phase is counted at all, however the
\* sweeper, the reports and the transitions interleave.
CountedOnce ==
    NoMiscount /\ OneMapStage =>
        /\ phaseDone = Cardinality(counted)
        /\ counted \subseteq PhaseTasks

\* A task that is not yet counted is queued, in flight, held by one handler or
\* still to be created: nothing the phase waits for has vanished, so the phase
\* is not stuck. A burnt claim (a MongoDB insert that fails after it reached the
\* collection) loses its bucket, so this needs a reliable MongoDB.
NoTaskLost ==
    incidents = {} /\ OneMapStage /\ MongoReliable =>
        PhaseTasks \subseteq counted \cup Ids(JobStatus \cup inFlight \cup InHand)
                             \cup Uncreated

\* A report passes NoticeResult's phase guard in one critical section and is
\* counted by a later one: no phase boundary falls between the two.
CountedInItsPhase ==
    [][\A c \in Clients : CompleteTask(c) /\ NoMiscount' /\ OneMapStage =>
          hand[c].PhaseIdx = phaseIdx]_vars

\* phaseIdx moves by one, and only when every task of the phase is counted: the
\* completeness check of AskForTask and the CmdAdvancePhase that follows it, in
\* another critical section, speak of the same phase in the same state.
StageTasks == [p \in 0..(NumStages - 1) |->
                 IF Action(p) \in BucketStages THEN 0..(NReduce - 1)
                                               ELSE 0..(NumChunks - 1)]

Job == INSTANCE PhasedJob WITH NumPhases <- NumStages, Tasks <- StageTasks,
                               phase <- phaseIdx, finished <- counted

ImplementsPhasedJob == Job!Spec

\* The same of every step before the first incident that miscounts.
PhasesInOrder ==
    [][NoMiscount' /\ OneMapStage => [Job!Next]_<<phaseIdx, counted>>]_vars

\* In a stage of the worker pool, a task counted as done has left its output,
\* save the failedTasks that were given up on.
WorkDone ==
    /\ NoMiscount /\ OneMapStage /\ ~done
    /\ Action(phaseIdx) \in ChunkStages \cup {"ReduceTask", "SelectKeyTask"}
    => Cardinality({id \in counted : <<phaseIdx, id>> \notin output}) <= failedTasks

(***************************************************************************)
(* Whatever has happened                                                   *)
(***************************************************************************)
\* A TaskInfo is queued, in flight, or held by one handler, never two of these:
\* NoticeResult evicts the record under the lock it was found under, so that the
\* sweeper cannot re-enqueue a task whose report is being processed.
OneHolder ==
    /\ Cardinality({t.obj : t \in JobStatus}) = Cardinality(JobStatus)
    /\ Cardinality({t.obj : t \in inFlight}) = Cardinality(inFlight)
    /\ {t.obj : t \in JobStatus} \cap {t.obj : t \in inFlight} = {}
    /\ {t.obj : t \in InHand} \cap {t.obj : t \in JobStatus \cup inFlight} = {}
    /\ \A c, d \in Holders : hand[c].obj = hand[d].obj => c = d

\* While stage 0 runs, the chunk of every map task that may still be executed is
\* there for GetChunk: chunks are evicted by a completion or by exhausted
\* retries, and neither leaves a copy of the task behind.
ChunkServed ==
    phaseIdx = 0 =>
        \A t \in JobStatus \cup inFlight \cup
                 {hand[c] : c \in {d \in Clients : pc[d] \in {"dispatch", "continue"}}} :
            t.ChunkID \in chunkStore

\* Two compacters never compact the same bucket: the claim record outlives the
\* sweeper's retries, a re-enqueued GroupBy task never returns to a compacter.
CompactionExclusive ==
    \A c, d \in Compacters :
        /\ Executing(c) /\ Executing(d) /\ c # d
        /\ Action(hand[c].PhaseIdx) = "GroupByTask"
        => <<hand[c].PhaseIdx, hand[c].TaskId>> # <<hand[d].PhaseIdx, hand[d].TaskId>>

\* A bucket is marked reduced, and handed to a compacter, only when its reduce
\* output is there.
ReducedBeforeCompacted ==
    /\ \A r \in reduction : Action(r[1]) = "ReduceTask" => r \in output
    /\ \A c \in Compacters :
          Executing(c) /\ Action(hand[c].PhaseIdx) = "GroupByTask" =>
             <<hand[c].PhaseIdx - 1, hand[c].TaskId>> \in output

(***************************************************************************)
(* When no client outlives the timeout                                     *)
(***************************************************************************)
\* A task is executed by one client at a time: the sweeper re-dispatches only
\* what nobody is working on any more. After two overlapping transitions it is not
\* so, both may have created the tasks of one phase.
ExclusiveExecution ==
    NoMiscount /\ OneMapStage =>
        \A c, d \in Clients :
            /\ Executing(c) /\ Executing(d)
            /\ <<hand[c].PhaseIdx, hand[c].TaskId>> = <<hand[d].PhaseIdx, hand[d].TaskId>>
            => c = d

\* Every job ends, and every client is told so.
JobFinishes == <>[](done /\ \A c \in Clients : pc[c] = "down")

(***************************************************************************)
(* What the documentation says and the code does not do                    *)
(***************************************************************************)
\* "phaseDone counts completed tasks in the current phase" (coordinator.go:67)
\* and a stale report after a re-dispatch is rejected (ARCHITECTURE.md:365).
PhaseDoneExact == phaseDone = Cardinality(counted)

\* "Worker returns TaskFailed: re-enqueued immediately via Raft log"
\* (ARCHITECTURE.md:362), or counted as failed once its retries are exhausted.
FailureRequeued ==
    [][\A c \in Clients : FailTask(c) =>
          JobStatus' # JobStatus \/ failedTasks' = failedTasks + 1]_vars

\* "all Map tasks done -> transitionToNextPhase" (ARCHITECTURE.md): a phase is
\* left only when all its tasks are done, whoever asks for the transition.
PhaseNotSkipped ==
    [][phaseIdx' # phaseIdx => ~done /\ counted = StageTasks[phaseIdx]]_vars

\* "GroupBy + Sink -> Compacter pool" (ARCHITECTURE.md:145).
StagePools ==
    \A w \in Workers : Executing(w) =>
        Action(hand[w].PhaseIdx) \notin {"GroupByTask", "SinkTask"}
=============================================================================
