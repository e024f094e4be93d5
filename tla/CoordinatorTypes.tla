-------------------------- MODULE CoordinatorTypes --------------------------
(***************************************************************************)
(* Proof that the type invariant of the scheduler is inductive, for every  *)
(* pipeline, every set of clients and every bound.                         *)
(***************************************************************************)
EXTENDS CoordinatorProps, FiniteSetTheorems, TLAPS

(***************************************************************************)
(* What the constructors and helpers build                                 *)
(***************************************************************************)
\* The zero TaskInfo is a TaskInfo.
LEMMA NoTaskType == NoTask \in TaskInfo
  BY DEF NoTask, TaskInfo, NoChunk, TaskTypes, ChunkStages

\* Every stage of the pipeline has one of the six action types.
LEMMA ActionType == ASSUME NEW p \in Nat, p < NumStages PROVE Action(p) \in TaskTypes
  <1>1. p + 1 \in 1..Len(ProcessAction)
    BY PipelineAssumption DEF NumStages
  <1>2. ProcessAction \in Seq(TaskTypes)
    BY PipelineAssumption
  <1> QED
    BY <1>1, <1>2 DEF Action

\* A TaskInfo made by a transition, the listener or a claim is well typed.
LEMMA NewTaskType ==
  ASSUME allocs \in Nat, NEW id \in Nat, NEW chunk \in Nat \cup {NoChunk},
         NEW type \in TaskTypes, NEW phase \in Nat
  PROVE  NewTask(id, chunk, type, phase) \in TaskInfo
  BY DEF NewTask, TaskInfo

\* Each update of one field keeps a TaskInfo well typed.
LEMMA FieldTypes ==
  ASSUME NEW t \in TaskInfo
  PROVE  /\ Undispatched(t) \in TaskInfo
         /\ NextChunk(t) \in TaskInfo
         /\ [t EXCEPT !.Retries = @ + 1] \in TaskInfo
         /\ phaseIdx \in Nat => InPhase(t) \in TaskInfo
         /\ clock \in Nat => Stamped(t) \in TaskInfo
  <1>1. Undispatched(t) \in TaskInfo
    BY DEF Undispatched, TaskInfo
  <1>2. NextChunk(t) \in TaskInfo
    BY DEF NextChunk, TaskInfo
  <1>3. [t EXCEPT !.Retries = @ + 1] \in TaskInfo
    BY DEF TaskInfo
  <1>4. phaseIdx \in Nat => InPhase(t) \in TaskInfo
    BY DEF InPhase, TaskInfo
  <1>5. clock \in Nat => Stamped(t) \in TaskInfo
    BY DEF Stamped, TaskInfo
  <1> QED
    BY <1>1, <1>2, <1>3, <1>4, <1>5

\* Counting a retry keeps a TaskInfo well typed.
LEMMA RetriedType == ASSUME NEW t \in TaskInfo PROVE Retried(t) \in TaskInfo
  BY FieldTypes DEF Retried

\* Failed or timed out tasks move to the queue or into the counts.
LEMMA GiveUpType ==
  ASSUME TypeOK, NEW S \in SUBSET inFlight, GiveUpOrRequeue(S)
  PROVE  /\ \A t \in JobStatus' : t \in TaskInfo
         /\ failedTasks' \in Nat /\ phaseDone' \in Nat /\ counted' \subseteq Nat
  <1> DEFINE gone == {t \in S : Exhausted(t)}
  <1>1. Cardinality(gone) \in Nat
    <2>1. IsFiniteSet(gone)
      BY FS_Subset DEF TypeOK
    <2> QED
      BY <2>1, FS_CardinalityType
  <1>2. \A t \in JobStatus' : t \in TaskInfo
    BY RetriedType DEF GiveUpOrRequeue, Requeued, TypeOK
  <1>3. counted' \subseteq Nat
    <2>1. \A t \in gone : t.TaskId \in Nat
      BY DEF TypeOK, TaskInfo
    <2>2. counted' = counted \cup Ids(gone)
      BY DEF GiveUpOrRequeue
    <2> QED
      BY <2>1, <2>2 DEF Ids, TypeOK
  <1> QED
    BY <1>1, <1>2, <1>3 DEF GiveUpOrRequeue, TypeOK

\* CmdEnqueueTask keeps the queue, taskFiles and the counters well typed.
LEMMA EnqueueType ==
  ASSUME TypeOK, NEW task \in TaskInfo, EnqueueTask(task)
  PROVE  /\ \A t \in JobStatus' : t \in TaskInfo
         /\ FilesOK(taskFiles')
         /\ NumTasks' \in Nat /\ allocs' \in Nat
  BY DEF EnqueueTask, TypeOK, FilesOK, TaskInfo

\* A walk with no copy of taskFiles, for a client that is not enqueuing from it.
LEMMA WalkType ==
  ASSUME NEW p \in Nat, NEW n \in Nat, NEW l \in Nat, NEW where
  PROVE  /\ where \notin {"enqueue", "scan"} \/ p < NumStages
              => WalkOK(Walk(p, n, l, <<>>), where)
         /\ FilesOK(<<>>)
  <1>1. FilesOK(<<>>)
    <2>1. DOMAIN <<>> = {}
      OBVIOUS
    <2> QED
      BY <2>1 DEF FilesOK
  <1> QED
    BY <1>1 DEF WalkOK, Walk

(***************************************************************************)
(* Each action keeps the types                                             *)
(***************************************************************************)
\* The listener's three steps.
LEMMA ListenerType == TypeOK /\ Listener => TypeOK'
  <1> SUFFICES ASSUME TypeOK, Listener PROVE TypeOK'
    OBVIOUS
  <1>1. CASE StoreChunk
    BY <1>1, BoundsAssumption DEF StoreChunk, Popped, TypeOK, countVars, storeVars, fsmVars
  <1>2. CASE EnqueueChunk
    <2>1. NewTask(srcNext, srcNext, "MapTask", 0) \in TaskInfo
      BY NewTaskType, BoundsAssumption DEF TypeOK, TaskTypes, ChunkStages
    <2> QED
      BY <1>2, <2>1, EnqueueType, BoundsAssumption
      DEF EnqueueChunk, Popped, TypeOK, countVars, storeVars
  <1>3. CASE SourceExhausted
    BY <1>3 DEF SourceExhausted, TypeOK, countVars, storeVars
  <1> QED
    BY <1>1, <1>2, <1>3 DEF Listener

\* Polling: shutdown, dequeuing, finding the phase complete, scanning.
LEMMA PollType == ASSUME NEW c \in Clients, TypeOK, Poll(c) PROVE TypeOK'
  <1>1. CASE Shutdown(c)
    BY <1>1 DEF Shutdown, TypeOK, PCs, fsmVars, storeVars, WalkOK
  <1>2. CASE TakeTask(c)
    <2>1. PICK t \in JobStatus : /\ JobStatus' = Dequeue(t)
                                /\ hand' = [hand EXCEPT ![c] = Stamped(InPhase(t))]
      BY <1>2 DEF TakeTask
    <2>2. Stamped(InPhase(t)) \in TaskInfo
      <3>1. t \in TaskInfo
        BY DEF TypeOK
      <3>2. InPhase(t) \in TaskInfo
        BY <3>1, FieldTypes DEF TypeOK
      <3> QED
        BY <3>2, FieldTypes DEF TypeOK
    <2> QED
      BY <1>2, <2>1, <2>2
      DEF TakeTask, Dequeue, TypeOK, PCs, countVars, storeVars, WalkOK
  <1>3. CASE FindPhaseComplete(c)
    <2>1. WalkOK(Walk(phaseIdx, 0, 0, <<>>), "advance")
      BY WalkType DEF TypeOK
    <2> QED
      BY <1>3, <2>1 DEF FindPhaseComplete, TypeOK, PCs, fsmVars, storeVars, WalkOK
  <1>4. CASE StartScan(c)
    <2>1. WalkOK(Walk(phaseIdx, 0, NReduce, <<>>), "scan")
      BY <1>4, WalkType, BoundsAssumption, PipelineAssumption
      DEF StartScan, done, TypeOK, NumStages
    <2> QED
      BY <1>4, <2>1 DEF StartScan, TypeOK, PCs, fsmVars, storeVars, WalkOK
  <1> QED
    BY <1>1, <1>2, <1>3, <1>4 DEF Poll

\* Applying CmdDispatchTask.
LEMMA DispatchType == ASSUME NEW c \in Clients, TypeOK, DispatchTask(c) PROVE TypeOK'
  <1>1. IsFiniteSet(inFlight')
    <2>1. IsFiniteSet(inFlight \ WithId(inFlight, hand[c].TaskId))
      BY FS_Subset DEF TypeOK
    <2> QED
      BY <2>1, FS_AddElement DEF DispatchTask
  <1> QED
    BY <1>1 DEF DispatchTask, WithId, TypeOK, PCs, countVars, storeVars, WalkOK

\* The steps of a transition.
LEMMA TransitionType == ASSUME NEW c \in Clients, TypeOK, Transition(c) PROVE TypeOK'
  <1>1. CASE AdvancePhase(c)
    <2>1. IsFiniteSet(inFlight')
      BY <1>1, FS_EmptySet DEF AdvancePhase
    <2> QED
      BY <1>1, <2>1 DEF AdvancePhase, TypeOK, PCs, Incidents, storeVars, WalkOK
  <1>2. CASE ReadNextPhase(c)
    <2>1. CASE done
      <3>1. WalkOK(NoWalk, "advanced")
        BY WalkType DEF NoWalk
      <3> QED
        BY <1>2, <2>1, <3>1
        DEF ReadNextPhase, TypeOK, PCs, Incidents, fsmVars, storeVars, WalkOK
    <2>2. CASE ~done
      <3> DEFINE stage == Action(phaseIdx)
                 limit == CASE stage \in ChunkStages -> NumTasks
                            [] stage = "GroupByTask" -> 0
                            [] OTHER -> NReduce
                 files == IF stage \in ChunkStages THEN taskFiles ELSE <<>>
      <3>1. limit \in Nat
        BY BoundsAssumption DEF TypeOK
      <3>2. FilesOK(files)
        BY WalkType DEF TypeOK
      <3>3. WalkOK(Walk(phaseIdx, 0, limit, files), pc'[c])
        <4> HIDE DEF limit, files
        <4> QED
          BY <2>2, <3>1, <3>2, PipelineAssumption DEF WalkOK, Walk, TypeOK, done, NumStages
      <3>4. walk' = [walk EXCEPT ![c] = Walk(phaseIdx, 0, limit, files)]
        BY <1>2, <2>2 DEF ReadNextPhase
      <3>5. pc' = [pc EXCEPT ![c] = IF limit = 0 THEN "advanced" ELSE "enqueue"]
        BY <1>2, <2>2 DEF ReadNextPhase
      <3>6. UNCHANGED <<fsmVars, srcNext, hand, storeVars, clock, allocs, counted>>
            /\ incidents' \subseteq Incidents
        BY <1>2 DEF ReadNextPhase, TypeOK, Incidents
      <3> HIDE DEF limit, files
      <3> QED
        BY <3>3, <3>4, <3>5, <3>6 DEF TypeOK, PCs, fsmVars, storeVars, WalkOK
    <2> QED
      BY <2>1, <2>2
  <1>3. CASE EnqueueNext(c)
    <2> DEFINE w     == walk[c]
               chunk == IF w.next \in DOMAIN w.files THEN w.files[w.next] ELSE NoChunk
               task  == NewTask(w.next, chunk, Action(w.phase), w.phase)
    <2>1. WalkOK(w, "enqueue")
      BY <1>3 DEF EnqueueNext, TypeOK
    <2>2. task \in TaskInfo
      <3>1. chunk \in Nat \cup {NoChunk}
        BY <2>1 DEF WalkOK, FilesOK
      <3>2. Action(w.phase) \in TaskTypes
        BY <2>1, ActionType DEF WalkOK
      <3> QED
        BY <2>1, <3>1, <3>2, NewTaskType DEF WalkOK, TypeOK
    <2>3. EnqueueTask(task)
      BY <1>3 DEF EnqueueNext
    <2>4. WalkOK(NextId(w), "enqueue")
      BY <2>1 DEF WalkOK, NextId, Walk
    <2>5. /\ walk' = [walk EXCEPT ![c] = NextId(w)]
          /\ pc' = [pc EXCEPT ![c] = IF w.next + 1 = w.limit THEN "advanced" ELSE "enqueue"]
          /\ UNCHANGED <<phaseIdx, sourceDone, inFlight, chunkStore, srcNext, hand,
                         storeVars, clock, countVars, incidents>>
      BY <1>3 DEF EnqueueNext
    <2>6. \A d \in Clients : WalkOK(walk'[d], pc'[d])
      BY <2>4, <2>5 DEF WalkOK, TypeOK
    <2> HIDE DEF w, task
    <2> QED
      BY <2>2, <2>3, <2>5, <2>6, EnqueueType DEF TypeOK, PCs, countVars, storeVars
  <1>4. CASE EndTransition(c)
    <2>1. WalkOK(NoWalk, "idle") /\ WalkOK(NoWalk, "down")
      BY WalkType DEF NoWalk
    <2> QED
      BY <1>4, <2>1 DEF EndTransition, TypeOK, PCs, fsmVars, storeVars, WalkOK
  <1> QED
    BY <1>1, <1>2, <1>3, <1>4 DEF Transition

\* The compacters' scan over the buckets.
LEMMA CompactType == ASSUME NEW c \in Clients, TypeOK, Compact(c) PROVE TypeOK'
  <1> DEFINE w == walk[c]
  <1>1. WalkOK(w, "scan") /\ pc[c] = "scan"
    BY DEF Compact, SkipBucket, ClaimBucket, TypeOK
  <1>2. WalkOK(NoWalk, "idle") /\ WalkOK(NoWalk, "dispatch")
    BY WalkType DEF NoWalk
  <1>3. WalkOK(NextId(w), "scan")
    BY <1>1 DEF WalkOK, NextId, Walk
  <1>4. compaction \cup {<<w.phase, w.next>>} \subseteq Nat \X Nat
    BY <1>1 DEF TypeOK, WalkOK
  <1>5. CASE SkipBucket(c)
    <2>1. compaction' \subseteq Nat \X Nat
      <3>1. \/ compaction' = compaction
            \/ compaction' = compaction \cup {<<w.phase, w.next>>}
        BY <1>5 DEF SkipBucket
      <3> QED
        BY <3>1, <1>4 DEF TypeOK
    <2>2. /\ \/ /\ pc' = [pc EXCEPT ![c] = "idle"]
                /\ walk' = [walk EXCEPT ![c] = NoWalk]
             \/ /\ pc' = pc
                /\ walk' = [walk EXCEPT ![c] = NextId(w)]
          /\ UNCHANGED <<fsmVars, srcNext, hand, reduction, output, clock, allocs,
                         counted, incidents>>
      BY <1>5 DEF SkipBucket
    <2>3. DOMAIN walk' = Clients /\ pc' \in [Clients -> PCs]
      BY <2>2 DEF TypeOK, PCs
    <2>4. \A d \in Clients : WalkOK(walk'[d], pc'[d])
      <3>1. CASE pc' = pc
        BY <1>1, <1>2, <1>3, <2>2, <3>1 DEF TypeOK, WalkOK
      <3>2. CASE pc' = [pc EXCEPT ![c] = "idle"]
        BY <1>1, <1>2, <1>3, <2>2, <3>2 DEF TypeOK, WalkOK
      <3> QED
        BY <2>2, <3>1, <3>2
    <2> QED
      BY <2>1, <2>2, <2>3, <2>4 DEF TypeOK, fsmVars
  <1>6. CASE ClaimBucket(c)
    <2> DEFINE task == NewTask(w.next, NoChunk, "GroupByTask", w.phase)
    <2>1. Stamped(task) \in TaskInfo
      <3>1. task \in TaskInfo
        BY <1>1, NewTaskType DEF WalkOK, TypeOK, TaskTypes, BucketStages
      <3> QED
        BY <3>1, FieldTypes DEF TypeOK
    <2>2. /\ compaction' = compaction \cup {<<w.phase, w.next>>}
          /\ hand' = [hand EXCEPT ![c] = Stamped(task)]
          /\ clock' = clock + 1 /\ allocs' = allocs + 1
          /\ pc' = [pc EXCEPT ![c] = "dispatch"]
          /\ walk' = [walk EXCEPT ![c] = NoWalk]
          /\ UNCHANGED <<fsmVars, srcNext, reduction, output, counted, incidents>>
      BY <1>6 DEF ClaimBucket
    <2> HIDE DEF task, w
    <2> QED
      BY <1>2, <1>4, <2>1, <2>2 DEF TypeOK, PCs, fsmVars, WalkOK
  <1> QED
    BY <1>5, <1>6 DEF Compact

\* Executing a task, or giving up on it.
LEMMA ExecuteType ==
  ASSUME NEW c \in Clients, TypeOK, Execute(c) \/ Abandon(c) PROVE TypeOK'
  <1>1. CASE Execute(c)
    <2>1. {<<hand[c].PhaseIdx, hand[c].TaskId>>} \subseteq Nat \X Nat
      BY DEF TypeOK, TaskInfo
    <2>2. output' \subseteq Nat \X Nat
      BY <1>1, <2>1 DEF Execute, TypeOK
    <2>3. \E r \in Results : pc' = [pc EXCEPT ![c] = r]
      BY <1>1 DEF Execute, Results
    <2> QED
      BY <1>1, <2>2, <2>3
      DEF Execute, TypeOK, PCs, Results, fsmVars, WalkOK
  <1>2. CASE Abandon(c)
    BY <1>2, NoTaskType DEF Abandon, Forget, TypeOK, PCs, fsmVars, storeVars, WalkOK
  <1> QED
    BY <1>1, <1>2

\* The critical sections of NoticeResult and the commands it proposes.
LEMMA ReportType == ASSUME NEW c \in Clients, TypeOK, Report(c) PROVE TypeOK'
  <1>1. CASE IgnoreReport(c)
    BY <1>1, NoTaskType DEF IgnoreReport, Forget, TypeOK, PCs, fsmVars, storeVars, WalkOK
  <1>2. CASE AcceptReport(c)
    <2>1. PICK t \in Reported(c) : /\ inFlight' = Evict(t)
                                  /\ hand' = [hand EXCEPT ![c] = t]
      BY <1>2 DEF AcceptReport
    <2>2. IsFiniteSet(inFlight')
      BY <2>1, FS_Subset DEF Evict, TypeOK
    <2>3. t \in TaskInfo
      BY DEF Reported, WithId, TypeOK
    <2>4. \E r \in {"complete", "fail", "continue"} : pc' = [pc EXCEPT ![c] = r]
      BY <1>2 DEF AcceptReport
    <2>5. UNCHANGED <<phaseIdx, NumTasks, sourceDone, taskFiles, JobStatus, chunkStore,
                     srcNext, walk, storeVars, clock, allocs, countVars, incidents>>
      BY <1>2 DEF AcceptReport
    <2>6. \A d \in Clients : WalkOK(walk'[d], pc'[d])
      BY <2>4, <2>5 DEF TypeOK, WalkOK
    <2> QED
      BY <2>1, <2>2, <2>3, <2>4, <2>5, <2>6
      DEF Evict, TypeOK, PCs, countVars, storeVars
  <1>3. CASE AcceptLateSuccess(c)
    BY <1>3 DEF AcceptLateSuccess, TypeOK, PCs, Incidents, fsmVars, storeVars, WalkOK
  <1>4. CASE CompleteTask(c)
    <2>1. IsFiniteSet(inFlight')
      BY <1>4, FS_Subset DEF CompleteTask, TypeOK
    <2>2. counted' \subseteq Nat
      BY <1>4 DEF CompleteTask, TypeOK, TaskInfo
    <2>3. chunkStore' \subseteq chunkStore
      BY <1>4 DEF CompleteTask
    <2>4. \/ pc' = [pc EXCEPT ![c] = "mark"] /\ hand' = hand
          \/ Forget(c, "idle")
      BY <1>4 DEF CompleteTask
    <2>5. /\ pc' \in [Clients -> PCs]
          /\ hand' \in [Clients -> TaskInfo]
          /\ \A d \in Clients : pc'[d] \in {"enqueue", "scan"} => pc'[d] = pc[d]
      BY <2>4, NoTaskType DEF Forget, TypeOK, PCs
    <2>6. /\ phaseDone' = phaseDone + 1
          /\ \A t \in inFlight' : t \in inFlight
          /\ UNCHANGED <<phaseIdx, failedTasks, NumTasks, sourceDone, taskFiles,
                         JobStatus, srcNext, walk, storeVars, clock, allocs, incidents>>
      BY <1>4 DEF CompleteTask
    <2> QED
      BY <2>1, <2>2, <2>3, <2>5, <2>6 DEF TypeOK, storeVars, WalkOK
  <1>5. CASE MarkReduceDone(c)
    <2>1. reduction' \subseteq Nat \X Nat
      BY <1>5 DEF MarkReduceDone, TypeOK, TaskInfo
    <2> QED
      BY <1>5, <2>1, NoTaskType
      DEF MarkReduceDone, Forget, TypeOK, PCs, fsmVars, WalkOK
  <1>6. CASE FailTask(c)
    <2>1. Reported(c) \in SUBSET inFlight /\ GiveUpOrRequeue(Reported(c))
      BY <1>6 DEF FailTask, Reported, WithId
    <2>2. IsFiniteSet(inFlight')
      BY <1>6, FS_Subset DEF FailTask, TypeOK
    <2> QED
      BY <1>6, <2>1, <2>2, NoTaskType, GiveUpType
      DEF FailTask, Forget, TypeOK, PCs, Incidents, storeVars, WalkOK
  <1>7. CASE ContinueTask(c)
    <2>1. Undispatched(NextChunk(hand[c])) \in TaskInfo
      <3>1. NextChunk(hand[c]) \in TaskInfo
        BY FieldTypes DEF TypeOK
      <3> QED
        BY <3>1, FieldTypes
    <2> QED
      BY <1>7, <2>1, NoTaskType
      DEF ContinueTask, Forget, TypeOK, PCs, countVars, storeVars, WalkOK
  <1> QED
    BY <1>1, <1>2, <1>3, <1>4, <1>5, <1>6, <1>7 DEF Report

\* The sweeper.
LEMMA SweepType == TypeOK /\ Sweep => TypeOK'
  <1> SUFFICES ASSUME TypeOK, Sweep PROVE TypeOK'
    OBVIOUS
  <1>1. PICK late \in SUBSET inFlight : /\ inFlight' = TakeOut(late)
                                       /\ GiveUpOrRequeue(late)
    BY DEF Sweep
  <1>2. IsFiniteSet(inFlight')
    BY <1>1, FS_Subset DEF TakeOut, TypeOK
  <1>3. chunkStore' \subseteq chunkStore
    BY DEF Sweep
  <1> QED
    BY <1>1, <1>2, <1>3, GiveUpType DEF Sweep, TakeOut, TypeOK, storeVars

(***************************************************************************)
(* The theorem                                                             *)
(***************************************************************************)
\* The initial state is well typed.
LEMMA InitType == Init => TypeOK
  <1> SUFFICES ASSUME Init PROVE TypeOK
    OBVIOUS
  <1>1. \A c \in Clients : WalkOK(walk[c], pc[c])
    BY WalkType DEF Init, NoWalk
  <1>2. FilesOK(taskFiles)
    BY WalkType DEF Init
  <1>3. IsFiniteSet(inFlight)
    BY FS_EmptySet DEF Init
  <1>4. pc \in [Clients -> PCs] /\ hand \in [Clients -> TaskInfo] /\ DOMAIN walk = Clients
    BY NoTaskType DEF Init, PCs
  <1>5. srcNext \in 0..NumChunks
    BY BoundsAssumption DEF Init
  <1> QED
    BY <1>1, <1>2, <1>3, <1>4, <1>5 DEF Init, TypeOK

\* Every step keeps the types.
LEMMA TypeStep == TypeOK /\ [Next]_vars => TypeOK'
  <1> SUFFICES ASSUME TypeOK, [Next]_vars PROVE TypeOK'
    OBVIOUS
  <1>1. CASE Listener
    BY <1>1, ListenerType
  <1>2. CASE Sweep
    BY <1>2, SweepType
  <1>3. CASE \E c \in Clients : ClientStep(c) \/ Abandon(c)
    BY <1>3, PollType, DispatchType, TransitionType, CompactType, ExecuteType, ReportType
    DEF ClientStep
  <1>4. CASE UNCHANGED vars
    BY <1>4 DEF vars, fsmVars, storeVars, TypeOK, WalkOK
  <1> QED
    BY <1>1, <1>2, <1>3, <1>4 DEF Next

\* Whatever the pipeline, the clients and the faults, every variable keeps its
\* type; in particular an enqueuing transition and a scanning compacter always
\* stand in a phase that exists, so ProcessAction is never indexed out of range.
THEOREM TypeCorrect == Spec => []TypeOK
  BY InitType, TypeStep, PTL DEF Spec
=============================================================================
