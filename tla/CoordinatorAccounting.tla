------------------------ MODULE CoordinatorAccounting ------------------------
(***************************************************************************)
(* Proof of the scheduler's accounts: until one of the known races has     *)
(* happened, phaseDone counts each task of its phase once and no other     *)
(* task, phases are left in order and complete, no task is lost, a counted *)
(* task has left its output, and no task is executed twice at a time.      *)
(*                                                                         *)
(* The tasks of a phase are told apart by their TaskId. The argument       *)
(* follows the ids: at any moment an id of the phase is counted, or alive  *)
(* in one place, or not created yet, and each step of the code moves ids   *)
(* between these in one of four ways (see "The ways an id moves").         *)
(***************************************************************************)
EXTENDS CoordinatorBuckets

\* The tasks that are queued, in flight or held by one handler.
Live == JobStatus \cup inFlight \cup InHand

LiveIds == Ids(Live)

\* A transition that creates, or is about to create, the tasks of the phase.
SetsUp(c) ==
    \/ pc[c] = "enqueue"
    \/ /\ pc[c] = "readPhase" /\ walk[c].phase + 1 = phaseIdx
       /\ ~done /\ Action(phaseIdx) # "GroupByTask"

\* The first id it has not created.
NextNew(c) == IF pc[c] = "enqueue" THEN walk[c].next ELSE 0

InGroupBy == ~done /\ Action(phaseIdx) = "GroupByTask"

(***************************************************************************)
(* The invariants                                                          *)
(***************************************************************************)
\* An id is alive in one place.
UniqueInv ==
    /\ \A s, t \in JobStatus : s.TaskId = t.TaskId => s = t
    /\ \A s, t \in inFlight : s.TaskId = t.TaskId => s = t
    /\ \A s \in JobStatus, t \in inFlight : s.TaskId # t.TaskId
    /\ \A c \in Holders : \A t \in JobStatus \cup inFlight : hand[c].TaskId # t.TaskId
    /\ \A c, d \in Holders : hand[c].TaskId = hand[d].TaskId => c = d

\* What has been dispatched belongs to the current phase.
PhaseInv == \A t \in inFlight \cup InHand : t.PhaseIdx = phaseIdx

\* The counters are exact, and what is alive is not counted yet.
CountInv ==
    /\ IsFiniteSet(counted)
    /\ phaseDone = Cardinality(counted)
    /\ counted \subseteq PhaseTasks
    /\ LiveIds \subseteq PhaseTasks \ counted

\* Stage 0 has the tasks the listener created, and ends after the source.
ListenerInv ==
    /\ phaseIdx = 0 => NumTasks = srcNext
    /\ phaseIdx > 0 => sourceDone
    /\ sourceDone => srcNext = NumChunks

\* A client that found the phase complete is right as long as the phase lasts;
\* one transition sets a phase up, and creates its ids in order; a scan is of
\* this phase or of one before.
WalkInv ==
    /\ \A c \in Clients : pc[c] = "advance" =>
          /\ walk[c].phase <= phaseIdx
          /\ walk[c].phase = phaseIdx => ~done /\ counted = PhaseTasks /\ sourceDone
    /\ \A c \in Clients : pc[c] = "readPhase" => walk[c].phase < phaseIdx
    /\ \A c \in Clients : pc[c] = "enqueue" =>
          /\ walk[c].phase = phaseIdx /\ phaseIdx > 0
          /\ Action(phaseIdx) # "GroupByTask"
          /\ walk[c].limit = NReduce /\ walk[c].next < NReduce
    /\ \A c \in Clients : SetsUp(c) => \A id \in LiveIds \cup counted : id < NextNew(c)
    /\ \A c, d \in Clients : SetsUp(c) /\ SetsUp(d) => c = d
    /\ \A c \in Clients : pc[c] = "scan" =>
          walk[c].phase <= phaseIdx /\ walk[c].limit = NReduce /\ walk[c].next < NReduce

\* A GroupBy task exists once its bucket is claimed: all of an earlier stage, what
\* is alive or counted of this one, none of a later one.
BucketsClaimed ==
    /\ \A b \in compaction : b[1] <= phaseIdx
    /\ \A p \in 0..(phaseIdx - 1) : p < NumStages /\ Action(p) = "GroupByTask" =>
          \A b \in 0..(NReduce - 1) : <<p, b>> \in compaction
    /\ InGroupBy => \A id \in LiveIds \cup counted : <<phaseIdx, id>> \in compaction

\* Where a task of the phase can be.
Found(id) ==
    \/ id \in counted \cup LiveIds
    \/ \E c \in Clients : SetsUp(c) /\ id >= NextNew(c)
    \/ InGroupBy /\ <<phaseIdx, id>> \notin compaction

NoneLost == incidents = {} /\ MongoReliable => \A id \in PhaseTasks : Found(id)

\* Where the client or the record says success, the output is there.
WorkerStages == ChunkStages \cup {"ReduceTask", "SelectKeyTask"}

WorkInv ==
    /\ \A c \in Clients : pc[c] \in {"TaskSuccess", "complete"} /\ Stage(c) \in WorkerStages
          => Bucket(c) \in output
    /\ WorkDone

Accounts ==
    /\ UniqueInv /\ PhaseInv /\ CountInv /\ ListenerInv /\ WalkInv /\ BucketsClaimed
    /\ \A c \in Clients : pc[c] # "completeLate"
    /\ NoneLost
    /\ WorkInv

AccountInv == BucketInv /\ (NoMiscount /\ OneMapStage => Accounts)

\* The task of a chunk that was read has the chunk's number, and the chunk is held.
ChunksHeld == \A t \in Live : /\ t.ChunkID = t.TaskId /\ t.TaskId < srcNext
                              /\ t.ChunkID \in chunkStore

\* Stage 0 has no transition under way, and keeps its chunks, whatever has happened.
ChunkInv ==
    /\ \A c \in Clients : pc[c] \in {"readPhase", "enqueue"} => phaseIdx > 0
    /\ \A c \in Clients : pc[c] = "scan" => walk[c].phase <= phaseIdx
    /\ phaseIdx = 0 => UniqueInv /\ ChunksHeld

\* With Slow = {}: what is executed is in flight, in this phase.
ExecInv == \A c \in Clients : Executing(c) => hand[c] \in inFlight

\* Two versions of one task.
Same(s, t) == s.TaskId = t.TaskId /\ s.ChunkID = t.ChunkID

\* Nothing is alive that was not alive before.
NoneNew == \A t \in Live' : \E s \in Live : Same(s, t)

(***************************************************************************)
(* Updates keep the id and the chunk                                       *)
(***************************************************************************)
LEMMA SameTask ==
  ASSUME NEW t \in TaskInfo
  PROVE  /\ Same(t, Undispatched(t)) /\ Same(t, NextChunk(t)) /\ Same(t, Stamped(t))
         /\ Same(t, InPhase(t)) /\ Same(t, [t EXCEPT !.Retries = @ + 1])
         /\ Undispatched(t).PhaseIdx = t.PhaseIdx /\ Stamped(t).PhaseIdx = t.PhaseIdx
  BY DEF Same, Undispatched, NextChunk, Stamped, InPhase, TaskInfo

\* Counting a retry keeps the id and the chunk.
LEMMA RetriedTask == ASSUME NEW t \in TaskInfo PROVE Same(t, Retried(t))
  <1> DEFINE r == [t EXCEPT !.Retries = @ + 1]
  <1>1. r \in TaskInfo /\ Same(t, r)
    BY FieldTypes, SameTask
  <1>2. Same(r, Undispatched(r))
    BY <1>1, SameTask
  <1> QED
    BY <1>1, <1>2 DEF Retried, Same

\* A dequeued task is the queued one, in the current phase.
LEMMA TakenTask ==
  ASSUME NEW t \in TaskInfo, phaseIdx \in Nat
  PROVE  Same(t, Stamped(InPhase(t))) /\ Stamped(InPhase(t)).PhaseIdx = phaseIdx
  <1>1. InPhase(t) \in TaskInfo /\ Same(t, InPhase(t)) /\ InPhase(t).PhaseIdx = phaseIdx
    BY FieldTypes, SameTask DEF InPhase, TaskInfo
  <1> HIDE DEF InPhase
  <1>2. Same(InPhase(t), Stamped(InPhase(t)))
        /\ Stamped(InPhase(t)).PhaseIdx = InPhase(t).PhaseIdx
    BY <1>1, SameTask
  <1> QED
    BY <1>1, <1>2 DEF Same

(***************************************************************************)
(* The ways an id moves                                                    *)
(***************************************************************************)
\* Nothing moves.
LEMMA NothingMoves ==
  ASSUME JobStatus' = JobStatus, inFlight' = inFlight, Holders' = Holders,
         \A c \in Holders : hand'[c] = hand[c]
  PROVE  /\ Live' = Live /\ LiveIds' = LiveIds /\ NoneNew
         /\ UniqueInv => UniqueInv'
         /\ phaseIdx' = phaseIdx /\ PhaseInv => PhaseInv'
  <1>1. InHand' = InHand
    BY DEF InHand
  <1>2. Live' = Live /\ LiveIds' = LiveIds
    BY <1>1 DEF Live, LiveIds
  <1>3. UniqueInv => UniqueInv'
    BY DEF UniqueInv
  <1>4. phaseIdx' = phaseIdx /\ PhaseInv => PhaseInv'
    BY <1>1 DEF PhaseInv
  <1> QED
    BY <1>2, <1>3, <1>4 DEF NoneNew, Same

\* The steps of a client that move no task.
Still(c) ==
    \/ Shutdown(c) \/ FindPhaseComplete(c) \/ StartScan(c) \/ SkipBucket(c)
    \/ ReadNextPhase(c) \/ EndTransition(c) \/ Execute(c) \/ Abandon(c)
    \/ IgnoreReport(c) \/ AcceptLateSuccess(c) \/ MarkReduceDone(c)

LEMMA StillMoves ==
  ASSUME TypeOK, NEW c \in Clients, Still(c)
  PROVE  /\ Live' = Live /\ LiveIds' = LiveIds /\ NoneNew
         /\ UniqueInv => UniqueInv'
         /\ PhaseInv => PhaseInv'
  <1>1. UNCHANGED <<phaseIdx, JobStatus, inFlight>>
    BY DEF Still, Shutdown, FindPhaseComplete, StartScan, SkipBucket, ReadNextPhase,
           EndTransition, Execute, Abandon, IgnoreReport, AcceptLateSuccess,
           MarkReduceDone, fsmVars
  <1>2. /\ c \notin Holders
        /\ \E where \in PCs \ {"dispatch", "complete", "fail", "continue"} :
              pc' = [pc EXCEPT ![c] = where]
    <2>1. CASE SkipBucket(c)
      <3>1. pc[c] = "scan" /\ (pc' = [pc EXCEPT ![c] = "idle"] \/ pc' = pc)
        BY <2>1 DEF SkipBucket
      <3>2. pc' = pc => pc' = [pc EXCEPT ![c] = "scan"]
        BY <3>1 DEF TypeOK
      <3> QED
        BY <3>1, <3>2 DEF Holders, PCs
    <2>2. CASE Execute(c)
      BY <2>2 DEF Execute, Holders, PCs, Results
    <2>3. CASE ReadNextPhase(c) \/ EndTransition(c) \/ Shutdown(c) \/ FindPhaseComplete(c)
               \/ StartScan(c)
      BY <2>3 DEF Shutdown, FindPhaseComplete, StartScan, ReadNextPhase,
             EndTransition, Holders, PCs
    <2>4. CASE Abandon(c) \/ IgnoreReport(c) \/ AcceptLateSuccess(c) \/ MarkReduceDone(c)
      BY <2>4 DEF Abandon, IgnoreReport, AcceptLateSuccess, MarkReduceDone, Forget,
             Results, Holders, PCs
    <2> QED
      BY <2>1, <2>2, <2>3, <2>4 DEF Still
  <1>3. hand' = hand \/ hand' = [hand EXCEPT ![c] = NoTask]
    BY DEF Still, Shutdown, FindPhaseComplete, StartScan, SkipBucket, ReadNextPhase,
           EndTransition, Execute, Abandon, IgnoreReport, AcceptLateSuccess,
           MarkReduceDone, Forget
  <1>4. Holders' = Holders
    BY <1>2 DEF Holders, TypeOK
  <1>5. \A d \in Holders : hand'[d] = hand[d]
    BY <1>2, <1>3 DEF Holders, TypeOK
  <1> QED
    BY <1>1, <1>4, <1>5, NothingMoves

\* A task is dequeued.
LEMMA TakeMoves ==
  ASSUME TypeOK, UniqueInv, NEW c \in Clients, TakeTask(c)
  PROVE  UniqueInv' /\ LiveIds' = LiveIds /\ NoneNew /\ (PhaseInv => PhaseInv')
  <1>1. PICK t \in JobStatus : /\ JobStatus' = Dequeue(t)
                               /\ hand' = [hand EXCEPT ![c] = Stamped(InPhase(t))]
    BY DEF TakeTask
  <1> DEFINE s == Stamped(InPhase(t))
  <1>2. Same(t, s) /\ s.PhaseIdx = phaseIdx
    BY TakenTask DEF TypeOK
  <1>3. /\ JobStatus' = JobStatus \ {t}
        /\ hand' = [hand EXCEPT ![c] = s]
        /\ pc[c] = "idle"
        /\ pc' = [pc EXCEPT ![c] = "dispatch"]
        /\ UNCHANGED <<phaseIdx, inFlight>>
    BY <1>1 DEF TakeTask, Dequeue
  <1> HIDE DEF s
  <1>4. /\ hand'[c] = s /\ c \notin Holders
        /\ \A d \in Holders : hand'[d] = hand[d]
        /\ Holders' = Holders \cup {c}
    BY <1>3 DEF Holders, TypeOK
  <1>5. UniqueInv'
    BY <1>2, <1>3, <1>4 DEF UniqueInv, Same
  <1>6. InHand' = InHand \cup {s}
    BY <1>4 DEF InHand
  <1>7. Live' = (Live \ {t}) \cup {s} \/ Live' = Live \cup {s}
    BY <1>3, <1>6 DEF Live
  <1>8. t \in Live
    BY DEF Live
  <1>9. LiveIds' = LiveIds /\ NoneNew
    <2>1. LiveIds' = LiveIds
      BY <1>2, <1>7, <1>8 DEF LiveIds, Ids, Same
    <2>2. NoneNew
      BY <1>2, <1>7, <1>8 DEF NoneNew, Same
    <2> QED
      BY <2>1, <2>2
  <1>10. PhaseInv => PhaseInv'
    BY <1>2, <1>3, <1>6 DEF PhaseInv
  <1> QED
    BY <1>5, <1>9, <1>10

\* A dispatch is recorded; nothing else of that id is there to be removed.
LEMMA DispatchMoves ==
  ASSUME TypeOK, UniqueInv, NEW c \in Clients, DispatchTask(c)
  PROVE  UniqueInv' /\ Live' = Live /\ LiveIds' = LiveIds /\ NoneNew /\ (PhaseInv => PhaseInv')
  <1>1. /\ c \in Holders
        /\ pc' = [pc EXCEPT ![c] = "run"]
        /\ UNCHANGED <<phaseIdx, hand>>
    BY DEF DispatchTask, Holders
  <1>2. WithId(inFlight, hand[c].TaskId) = {} /\ WithId(JobStatus, hand[c].TaskId) = {}
    BY <1>1 DEF WithId, UniqueInv
  <1>3. inFlight' = inFlight \cup {hand[c]} /\ JobStatus' = JobStatus
    BY <1>2 DEF DispatchTask
  <1>4. Holders' = Holders \ {c}
    BY <1>1 DEF Holders, TypeOK
  <1>5. UniqueInv'
    BY <1>1, <1>3, <1>4 DEF UniqueInv
  <1>6. InHand' \cup {hand[c]} = InHand
    BY <1>1, <1>4 DEF InHand
  <1>7. Live' = Live
    BY <1>3, <1>6 DEF Live
  <1>8. PhaseInv => PhaseInv'
    BY <1>1, <1>3, <1>6 DEF PhaseInv
  <1> QED
    BY <1>5, <1>7, <1>8 DEF LiveIds, NoneNew, Same

\* A report takes its record out of inFlight.
LEMMA AcceptMoves ==
  ASSUME TypeOK, UniqueInv, NEW c \in Clients, AcceptReport(c)
  PROVE  UniqueInv' /\ Live' = Live /\ LiveIds' = LiveIds /\ NoneNew /\ (PhaseInv => PhaseInv')
  <1>1. PICK t \in inFlight : inFlight' = inFlight \ {t} /\ hand' = [hand EXCEPT ![c] = t]
    BY DEF AcceptReport, Reported, WithId, Evict
  <1>2. /\ pc[c] \in Results
        /\ \E where \in {"complete", "fail", "continue"} : pc' = [pc EXCEPT ![c] = where]
        /\ UNCHANGED <<phaseIdx, JobStatus>>
    BY DEF AcceptReport
  <1>3. /\ hand'[c] = t /\ c \notin Holders
        /\ \A d \in Holders : hand'[d] = hand[d]
        /\ Holders' = Holders \cup {c}
    BY <1>1, <1>2 DEF Holders, Results, TypeOK
  <1>4. UniqueInv'
    BY <1>1, <1>2, <1>3 DEF UniqueInv
  <1>5. InHand' = InHand \cup {t}
    BY <1>3 DEF InHand
  <1>6. Live' = Live
    BY <1>1, <1>2, <1>5 DEF Live
  <1>7. PhaseInv => PhaseInv'
    BY <1>1, <1>2, <1>5 DEF PhaseInv
  <1> QED
    BY <1>4, <1>6, <1>7 DEF LiveIds, NoneNew, Same

\* The next chunk of a task is queued.
LEMMA ContinueMoves ==
  ASSUME TypeOK, UniqueInv, NEW c \in Clients, ContinueTask(c)
  PROVE  UniqueInv' /\ LiveIds' = LiveIds /\ NoneNew /\ (PhaseInv => PhaseInv')
  <1> DEFINE n == Undispatched(NextChunk(hand[c]))
  <1>1. Same(hand[c], n)
    <2>1. hand[c] \in TaskInfo
      BY DEF TypeOK
    <2>2. NextChunk(hand[c]) \in TaskInfo /\ Same(hand[c], NextChunk(hand[c]))
      BY <2>1, FieldTypes, SameTask
    <2> QED
      BY <2>2, SameTask DEF Same
  <1>2. /\ c \in Holders
        /\ JobStatus' = JobStatus \cup {n}
        /\ UNCHANGED <<phaseIdx, inFlight>>
        /\ pc' = [pc EXCEPT ![c] = "idle"] /\ hand' = [hand EXCEPT ![c] = NoTask]
    BY DEF ContinueTask, Holders, Forget
  <1> HIDE DEF n
  <1>3. Holders' = Holders \ {c} /\ \A d \in Holders' : hand'[d] = hand[d]
    BY <1>2 DEF Holders, TypeOK
  <1>4. UniqueInv'
    BY <1>1, <1>2, <1>3 DEF UniqueInv, Same
  <1>5. InHand' \cup {hand[c]} = InHand
    BY <1>2, <1>3 DEF InHand
  <1>6. LiveIds' = LiveIds /\ NoneNew
    <2>1. Live' \cup {hand[c]} = Live \cup {n} /\ hand[c] \in Live /\ n \in Live'
      BY <1>2, <1>5 DEF Live
    <2>2. LiveIds' = LiveIds
      BY <1>1, <2>1 DEF LiveIds, Ids, Same
    <2>3. NoneNew
      BY <1>1, <2>1 DEF NoneNew, Same
    <2> QED
      BY <2>2, <2>3
  <1>7. PhaseInv => PhaseInv'
    BY <1>2, <1>5 DEF PhaseInv
  <1> QED
    BY <1>4, <1>6, <1>7

\* A new task is queued.
LEMMA EnqueueMoves ==
  ASSUME UniqueInv, NEW n, EnqueueTask(n), n.TaskId \notin LiveIds,
         UNCHANGED <<phaseIdx, inFlight, hand>>, Holders' = Holders
  PROVE  /\ UniqueInv' /\ (PhaseInv => PhaseInv')
         /\ Live' = Live \cup {n} /\ LiveIds' = LiveIds \cup {n.TaskId}
  <1>1. JobStatus' = JobStatus \cup {n} /\ InHand' = InHand
    BY DEF EnqueueTask, InHand
  <1>2. \A t \in JobStatus \cup inFlight : t.TaskId # n.TaskId
    BY DEF LiveIds, Ids, Live
  <1>3. \A c \in Holders : hand[c].TaskId # n.TaskId
    BY DEF LiveIds, Ids, Live, InHand
  <1>4. UniqueInv'
    BY <1>1, <1>2, <1>3 DEF UniqueInv
  <1>5. Live' = Live \cup {n}
    BY <1>1 DEF Live
  <1>6. LiveIds' = LiveIds \cup {n.TaskId}
    BY <1>5 DEF LiveIds, Ids
  <1>7. PhaseInv => PhaseInv'
    BY <1>1 DEF PhaseInv
  <1> QED
    BY <1>4, <1>5, <1>6, <1>7

\* A compacter claims a bucket and holds its task.
LEMMA ClaimMoves ==
  ASSUME TypeOK, UniqueInv, NEW c \in Clients, ClaimBucket(c), walk[c].next \notin LiveIds
  PROVE  /\ UniqueInv' /\ LiveIds' = LiveIds \cup {walk[c].next}
         /\ PhaseInv /\ walk[c].phase = phaseIdx => PhaseInv'
  <1> DEFINE n == NewTask(walk[c].next, NoChunk, "GroupByTask", walk[c].phase)
             s == Stamped(n)
  <1>1. s.TaskId = walk[c].next /\ s.PhaseIdx = walk[c].phase
    <2>1. WalkOK(walk[c], "scan")
      BY DEF ClaimBucket, TypeOK
    <2>2. n \in TaskInfo
      BY <2>1, NewTaskType DEF WalkOK, TypeOK, TaskTypes, BucketStages
    <2>3. n.TaskId = walk[c].next /\ n.PhaseIdx = walk[c].phase
      BY DEF NewTask
    <2> HIDE DEF n
    <2> QED
      BY <2>2, <2>3, SameTask DEF Same
  <1>2. /\ hand' = [hand EXCEPT ![c] = s]
        /\ pc[c] = "scan" /\ pc' = [pc EXCEPT ![c] = "dispatch"]
        /\ UNCHANGED <<phaseIdx, JobStatus, inFlight>>
    BY DEF ClaimBucket, fsmVars
  <1> HIDE DEF s
  <1>3. /\ hand'[c] = s /\ c \notin Holders
        /\ \A d \in Holders : hand'[d] = hand[d]
        /\ Holders' = Holders \cup {c}
    BY <1>2 DEF Holders, TypeOK
  <1>4. InHand' = InHand \cup {s}
    BY <1>3 DEF InHand
  <1>5. Live' = Live \cup {s}
    BY <1>2, <1>4 DEF Live
  <1>6. LiveIds' = LiveIds \cup {walk[c].next}
    BY <1>1, <1>5 DEF LiveIds, Ids
  <1>7. /\ \A t \in JobStatus \cup inFlight : t.TaskId # s.TaskId
        /\ \A d \in Holders : hand[d].TaskId # s.TaskId
    BY <1>1 DEF LiveIds, Ids, Live, InHand
  <1>8. UniqueInv'
    BY <1>2, <1>3, <1>7 DEF UniqueInv
  <1>9. PhaseInv /\ walk[c].phase = phaseIdx => PhaseInv'
    BY <1>1, <1>2, <1>4 DEF PhaseInv
  <1> QED
    BY <1>6, <1>8, <1>9

\* A completion is applied. A task whose record was found is alive in the hand of
\* its handler only; a late success leaves what is alive under its id alone.
LEMMA CompleteMoves ==
  ASSUME TypeOK, UniqueInv, NEW c \in Clients, CompleteTask(c)
  PROVE  /\ UniqueInv' /\ NoneNew /\ (PhaseInv => PhaseInv')
         /\ pc[c] = "complete" => /\ hand[c].TaskId \in LiveIds
                                  /\ LiveIds' = LiveIds \ {hand[c].TaskId}
  <1>1. /\ pc[c] \in {"complete", "completeLate"}
        /\ inFlight' = inFlight \ WithId(inFlight, hand[c].TaskId)
        /\ \E where \in {"mark", "idle"} : pc' = [pc EXCEPT ![c] = where]
        /\ hand' = hand \/ hand' = [hand EXCEPT ![c] = NoTask]
        /\ UNCHANGED <<phaseIdx, JobStatus>>
    BY DEF CompleteTask, Forget
  <1>2. Holders' = Holders \ {c} /\ \A d \in Holders' : hand'[d] = hand[d]
    BY <1>1 DEF Holders, TypeOK
  <1>3. UniqueInv'
    BY <1>1, <1>2 DEF UniqueInv
  <1>4. InHand' \subseteq InHand /\ inFlight' \subseteq inFlight
    BY <1>1, <1>2 DEF InHand
  <1>5. NoneNew
    BY <1>1, <1>4 DEF NoneNew, Live, Same
  <1>6. PhaseInv => PhaseInv'
    BY <1>1, <1>4 DEF PhaseInv
  <1>7. ASSUME pc[c] = "complete"
        PROVE  /\ hand[c].TaskId \in LiveIds
               /\ LiveIds' = LiveIds \ {hand[c].TaskId}
    <2>1. c \in Holders
      BY <1>7 DEF Holders
    <2>2. inFlight' = inFlight
      BY <1>1, <2>1 DEF WithId, UniqueInv
    <2>3. InHand = InHand' \cup {hand[c]}
      BY <1>2, <2>1 DEF InHand
    <2>4. Live = Live' \cup {hand[c]}
      BY <1>1, <2>2, <2>3 DEF Live
    <2>5. \A t \in Live' : t.TaskId # hand[c].TaskId
      BY <1>1, <1>2, <2>1, <2>2 DEF UniqueInv, Live, InHand
    <2> QED
      BY <2>4, <2>5 DEF LiveIds, Ids
  <1> QED
    BY <1>3, <1>5, <1>6, <1>7

\* The sweeper takes tasks out of inFlight: one id for each it gives up.
LEMMA SweepMoves ==
  ASSUME TypeOK, UniqueInv, NEW S \in SUBSET inFlight, inFlight' = inFlight \ S,
         GiveUpOrRequeue(S), UNCHANGED <<phaseIdx, pc, hand>>,
         NEW gone, gone = {t \in S : Exhausted(t)}
  PROVE  /\ UniqueInv' /\ NoneNew /\ (PhaseInv => PhaseInv')
         /\ Ids(gone) \subseteq LiveIds /\ LiveIds' = LiveIds \ Ids(gone)
         /\ IsFiniteSet(Ids(gone)) /\ Cardinality(Ids(gone)) = Cardinality(gone)
  <1> DEFINE back == {Retried(t) : t \in S \ gone}
  <1>1. JobStatus' = JobStatus \cup back
    BY DEF GiveUpOrRequeue, Requeued
  <1>2. \A r \in back : \E t \in S \ gone : r = Retried(t) /\ Same(t, r)
    BY RetriedTask DEF TypeOK
  <1>3. \A t \in S \ gone : \E r \in back : Same(t, r)
    BY RetriedTask DEF TypeOK
  <1>4. Holders' = Holders /\ InHand' = InHand
    BY DEF Holders, InHand
  <1> HIDE DEF back
  <1>5. UniqueInv'
    <2>1. \A r, s \in back : r.TaskId = s.TaskId => r = s
      <3>1. \A t, u \in S \ gone : t.TaskId = u.TaskId => t = u
        BY DEF UniqueInv
      <3> QED
        BY <1>2, <3>1 DEF Same
    <2>2. \A r \in back : /\ \A s \in JobStatus \cup inFlight' : s.TaskId # r.TaskId
                          /\ \A c \in Holders : hand[c].TaskId # r.TaskId
      BY <1>2 DEF UniqueInv, Same
    <2> QED
      BY <1>1, <1>4, <2>1, <2>2 DEF UniqueInv
  <1>6. NoneNew
    BY <1>1, <1>2, <1>4 DEF NoneNew, Live, Same
  <1>7. Ids(gone) \subseteq LiveIds /\ LiveIds' = LiveIds \ Ids(gone)
    <2>1. Ids(gone) \subseteq LiveIds
      BY DEF LiveIds, Ids, Live
    <2>2. LiveIds' \subseteq LiveIds
      BY <1>6 DEF NoneNew, LiveIds, Ids, Same
    <2>3. LiveIds \ Ids(gone) \subseteq LiveIds'
      <3>1. \A t \in Live \ gone : \E r \in Live' : r.TaskId = t.TaskId
        BY <1>1, <1>3, <1>4 DEF Live, Same
      <3> QED
        BY <3>1 DEF LiveIds, Ids
    <2>4. LiveIds' \cap Ids(gone) = {}
      <3>1. \A t \in gone, r \in Live' : r.TaskId # t.TaskId
        <4>1. \A t \in gone : t \in inFlight /\ t \in S
          OBVIOUS
        <4>2. \A t \in gone, r \in back : r.TaskId # t.TaskId
          BY <1>2, <4>1 DEF UniqueInv, Same
        <4>3. \A t \in gone, r \in JobStatus \cup inFlight' \cup InHand : r.TaskId # t.TaskId
          BY <4>1 DEF UniqueInv, InHand
        <4> QED
          BY <1>1, <1>4, <4>2, <4>3 DEF Live
      <3> QED
        BY <3>1 DEF LiveIds, Ids
    <2> QED
      BY <2>1, <2>2, <2>3, <2>4
  <1>8. IsFiniteSet(Ids(gone)) /\ Cardinality(Ids(gone)) = Cardinality(gone)
    <2> DEFINE f == [t \in gone |-> t.TaskId]
    <2>1. IsFiniteSet(gone)
      BY FS_Subset DEF TypeOK
    <2>2. f \in Surjection(gone, Ids(gone))
      BY DEF Surjection, Ids
    <2>3. f \in Injection(gone, Ids(gone))
      BY <2>2 DEF Surjection, Injection, IsInjective, UniqueInv
    <2> HIDE DEF f
    <2> QED
      BY <2>1, <2>2, <2>3, FS_Surjection
  <1>9. PhaseInv => PhaseInv'
    BY <1>4 DEF PhaseInv
  <1> QED
    BY <1>5, <1>6, <1>7, <1>8, <1>9

\* CmdFailTask never finds the task that NoticeResult took out of inFlight.
LEMMA FailMoves ==
  ASSUME TypeOK, UniqueInv, NEW c \in Clients, FailTask(c)
  PROVE  /\ Reported(c) = {} /\ "LostFailure" \in incidents'
         /\ UniqueInv' /\ NoneNew /\ (PhaseInv => PhaseInv')
  <1>1. Reported(c) = {}
    BY DEF FailTask, Reported, WithId, UniqueInv, Holders
  <1>2. /\ inFlight' = inFlight
        /\ pc' = [pc EXCEPT ![c] = "idle"] /\ hand' = [hand EXCEPT ![c] = NoTask]
        /\ "LostFailure" \in incidents'
    BY <1>1 DEF FailTask, Forget
  <1>3. JobStatus' = JobStatus
    BY <1>1 DEF FailTask, GiveUpOrRequeue, Requeued
  <1>4. Holders' \subseteq Holders \ {c} /\ \A d \in Holders' : hand'[d] = hand[d]
    BY <1>2 DEF Holders, TypeOK
  <1>5. UniqueInv'
    BY <1>2, <1>3, <1>4 DEF UniqueInv
  <1>6. InHand' \subseteq InHand
    BY <1>4 DEF InHand
  <1>7. NoneNew
    BY <1>2, <1>3, <1>6 DEF NoneNew, Live, Same
  <1>8. PhaseInv => PhaseInv'
    <2>1. phaseIdx' = phaseIdx
      BY DEF FailTask
    <2> QED
      BY <1>2, <1>6, <2>1 DEF PhaseInv
  <1> QED
    BY <1>1, <1>2, <1>5, <1>7, <1>8

(***************************************************************************)
(* The chunks of stage 0                                                   *)
(***************************************************************************)
\* What is alive keeps its chunk when nothing is created and nothing evicted.
LEMMA ChunksKept ==
  ASSUME ChunksHeld, NoneNew, srcNext' = srcNext, chunkStore \subseteq chunkStore'
  PROVE  ChunksHeld'
  BY DEF ChunksHeld, NoneNew, Same

\* In stage 0 nothing but the listener creates a task, and a chunk is evicted with
\* the one task that needs it.
LEMMA ChunkStageStep ==
  ASSUME BucketInv, ChunkInv, Next, phaseIdx' = 0
  PROVE  UniqueInv' /\ ChunksHeld'
  <1>1. phaseIdx = 0
    <2>1. phaseIdx \in Nat /\ (phaseIdx' = phaseIdx \/ phaseIdx' = phaseIdx + 1)
      BY DEF BucketInv, TypeOK, Next, Listener, StoreChunk, EnqueueChunk, SourceExhausted,
         Sweep, ClientStep, Poll, Transition, Compact, Report, Shutdown, TakeTask,
         FindPhaseComplete, StartScan, DispatchTask, AdvancePhase, ReadNextPhase, EnqueueNext,
         EndTransition, SkipBucket, ClaimBucket, Execute, Abandon, IgnoreReport, AcceptReport,
         AcceptLateSuccess, CompleteTask, MarkReduceDone, FailTask, ContinueTask, fsmVars
    <2> QED
      BY <2>1
  <1>2. TypeOK /\ UniqueInv /\ ChunksHeld
    BY <1>1 DEF BucketInv, ChunkInv
  <1>3. CASE StoreChunk \/ SourceExhausted
    <2>1. /\ UNCHANGED <<JobStatus, inFlight, pc, hand, srcNext>>
          /\ chunkStore \subseteq chunkStore'
      BY <1>3 DEF StoreChunk, SourceExhausted
    <2>2. Holders' = Holders /\ \A c \in Holders : hand'[c] = hand[c]
      BY <2>1 DEF Holders
    <2>3. UniqueInv' /\ NoneNew
      BY <1>2, <2>1, <2>2, NothingMoves
    <2> QED
      BY <1>2, <2>1, <2>3, ChunksKept
  <1>4. CASE EnqueueChunk
    <2> DEFINE n == NewTask(srcNext, srcNext, "MapTask", 0)
    <2>1. n.TaskId = srcNext /\ n.ChunkID = srcNext
      BY DEF NewTask
    <2>2. /\ EnqueueTask(n) /\ srcNext \in chunkStore
          /\ UNCHANGED <<phaseIdx, inFlight, pc, hand, chunkStore>> /\ srcNext' = srcNext + 1
      BY <1>4 DEF EnqueueChunk, Stored
    <2> HIDE DEF n
    <2>3. srcNext \notin LiveIds
      BY <1>2 DEF ChunksHeld, LiveIds, Ids, TypeOK
    <2>4. Holders' = Holders
      BY <2>2 DEF Holders
    <2>5. UniqueInv' /\ Live' = Live \cup {n}
      BY <1>2, <2>1, <2>2, <2>3, <2>4, EnqueueMoves
    <2>6. srcNext \in Int
      BY <1>2 DEF TypeOK
    <2>7. ASSUME NEW t \in Live
          PROVE  t.ChunkID = t.TaskId /\ t.TaskId < srcNext + 1 /\ t.ChunkID \in chunkStore
      <3>1. t.TaskId \in Nat
        BY <1>2 DEF Live, InHand, Holders, TypeOK, TaskInfo
      <3> QED
        BY <1>2, <2>6, <3>1 DEF ChunksHeld
    <2>8. ChunksHeld'
      BY <2>1, <2>2, <2>5, <2>6, <2>7 DEF ChunksHeld
    <2> QED
      BY <2>5, <2>8
  <1>5. CASE Sweep
    <2>1. PICK late \in SUBSET inFlight :
             /\ inFlight' = inFlight \ late /\ GiveUpOrRequeue(late)
             /\ chunkStore' = chunkStore \ Chunks({t \in late : Exhausted(t)})
      BY <1>5 DEF Sweep, TakeOut
    <2>2. UNCHANGED <<phaseIdx, pc, hand, srcNext>>
      BY <1>5 DEF Sweep
    <2> DEFINE gone == {t \in late : Exhausted(t)}
    <2>3. UniqueInv' /\ NoneNew /\ LiveIds' = LiveIds \ Ids(gone)
      <3>1. gone = {t \in late : Exhausted(t)}
        OBVIOUS
      <3> HIDE DEF gone
      <3> QED
        BY <1>2, <2>1, <2>2, <3>1, SweepMoves
    <2>4. Chunks(gone) = Ids(gone)
      BY <1>2 DEF ChunksHeld, Live, Chunks, Ids
    <2>5. chunkStore' = chunkStore \ Ids(gone)
      BY <2>1, <2>4
    <2> HIDE DEF gone
    <2>6. ChunksHeld'
      <3> SUFFICES ASSUME NEW t \in Live'
                   PROVE  t.ChunkID = t.TaskId /\ t.TaskId < srcNext' /\ t.ChunkID \in chunkStore'
        BY DEF ChunksHeld
      <3>1. t.ChunkID = t.TaskId /\ t.TaskId < srcNext /\ t.ChunkID \in chunkStore
        BY <1>2, <2>3 DEF NoneNew, ChunksHeld, Same
      <3>2. t.TaskId \notin Ids(gone)
        BY <2>3 DEF LiveIds, Ids
      <3> QED
        BY <2>2, <2>5, <3>1, <3>2
    <2> QED
      BY <2>3, <2>6
  <1>6. ASSUME NEW c \in Clients, ClientStep(c) \/ Abandon(c)
        PROVE  UniqueInv' /\ ChunksHeld'
    <2>1. CASE Still(c)
      <3>1. UniqueInv' /\ NoneNew
        BY <1>2, <2>1, StillMoves
      <3>2. srcNext' = srcNext /\ chunkStore' = chunkStore
        BY <2>1 DEF Still, Shutdown, FindPhaseComplete, StartScan, SkipBucket, ReadNextPhase,
           EndTransition, Execute, Abandon, IgnoreReport, AcceptLateSuccess,
           MarkReduceDone, fsmVars
      <3> QED
        BY <1>2, <3>1, <3>2, ChunksKept
    <2>2. CASE TakeTask(c) \/ DispatchTask(c) \/ AcceptReport(c) \/ ContinueTask(c) \/ FailTask(c)
      <3>1. UniqueInv' /\ NoneNew
        BY <1>2, <2>2, TakeMoves, DispatchMoves, AcceptMoves, ContinueMoves, FailMoves
      <3>2. srcNext' = srcNext /\ chunkStore' = chunkStore
        BY <2>2 DEF TakeTask, DispatchTask, AcceptReport, ContinueTask, FailTask
      <3> QED
        BY <1>2, <3>1, <3>2, ChunksKept
    <2>3. CASE CompleteTask(c)
      <3>1. UniqueInv' /\ NoneNew /\ srcNext' = srcNext
        BY <1>2, <2>3, CompleteMoves DEF CompleteTask
      <3>2. CASE pc[c] # "complete"
        BY <1>2, <2>3, <3>1, <3>2, ChunksKept DEF CompleteTask
      <3>3. CASE pc[c] = "complete"
        <4>1. LiveIds' = LiveIds \ {hand[c].TaskId}
          BY <1>2, <2>3, <3>3, CompleteMoves
        <4>2. hand[c].ChunkID = hand[c].TaskId
          BY <1>2, <3>3 DEF ChunksHeld, Live, InHand, Holders
        <4>3. chunkStore' = chunkStore \ {hand[c].TaskId}
          BY <2>3, <3>3, <4>2 DEF CompleteTask
        <4> SUFFICES ASSUME NEW t \in Live'
                     PROVE  t.ChunkID = t.TaskId /\ t.TaskId < srcNext' /\ t.ChunkID \in chunkStore'
          BY <3>1 DEF ChunksHeld
        <4>4. t.ChunkID = t.TaskId /\ t.TaskId < srcNext /\ t.ChunkID \in chunkStore
          BY <1>2, <3>1 DEF NoneNew, ChunksHeld, Same
        <4>5. t.TaskId # hand[c].TaskId
          BY <4>1 DEF LiveIds, Ids
        <4> QED
          BY <3>1, <4>3, <4>4, <4>5
      <3> QED
        BY <3>2, <3>3
    <2>4. CASE AdvancePhase(c)
      BY <1>1, <2>4 DEF AdvancePhase
    <2>5. CASE EnqueueNext(c)
      BY <1>1, <2>5 DEF EnqueueNext, ChunkInv
    <2>6. CASE ClaimBucket(c)
      <3>1. pc[c] = "scan"
        BY <2>6 DEF ClaimBucket
      <3>2. walk[c].phase \in Nat /\ Action(walk[c].phase) = "GroupByTask" /\ walk[c].phase <= 0
        BY <1>1, <3>1 DEF BucketInv, TypeOK, WalkOK, PoolInv, ChunkInv
      <3>3. walk[c].phase = 0
        BY <3>2
      <3> QED
        BY <3>2, <3>3, PipelineAssumption DEF Action, NumStages
    <2> QED
      BY <1>6, <2>1, <2>2, <2>3, <2>4, <2>5, <2>6
      DEF ClientStep, Poll, Transition, Compact, Report, Still
  <1> QED
    BY <1>3, <1>4, <1>5, <1>6 DEF Next, Listener

\* A transition stands beyond stage 0, a scan in this stage or one before.
LEMMA ChunkWalkStep ==
  ASSUME TypeOK, ChunkInv, Next
  PROVE  \A c \in Clients : /\ pc'[c] \in {"readPhase", "enqueue"} => phaseIdx' > 0
                            /\ pc'[c] = "scan" => walk'[c].phase <= phaseIdx'
  <1>1. CASE Listener \/ Sweep
    <2>1. UNCHANGED <<phaseIdx, pc, walk>>
      BY <1>1 DEF Listener, StoreChunk, EnqueueChunk, SourceExhausted, Sweep
    <2> QED
      BY <2>1 DEF ChunkInv
  <1>2. ASSUME NEW d \in Clients, ClientStep(d) \/ Abandon(d)
        PROVE  \A c \in Clients : /\ pc'[c] \in {"readPhase", "enqueue"} => phaseIdx' > 0
                                  /\ pc'[c] = "scan" => walk'[c].phase <= phaseIdx'
    <2>1. CASE AdvancePhase(d)
      <3>1. /\ pc' = [pc EXCEPT ![d] = "readPhase"]
            /\ phaseIdx' = phaseIdx + 1 /\ walk' = walk
        BY <2>1 DEF AdvancePhase
      <3>2. phaseIdx \in Nat /\ \A c \in Clients : walk[c].phase \in Nat
        BY DEF TypeOK, WalkOK
      <3> QED
        BY <3>1, <3>2 DEF ChunkInv, TypeOK
    <2>2. CASE StartScan(d)
      <3>1. /\ pc' = [pc EXCEPT ![d] = "scan"]
            /\ walk' = [walk EXCEPT ![d] = Walk(phaseIdx, 0, NReduce, <<>>)]
            /\ phaseIdx' = phaseIdx
        BY <2>2 DEF StartScan, fsmVars
      <3>2. Walk(phaseIdx, 0, NReduce, <<>>).phase = phaseIdx /\ phaseIdx \in Nat
        BY DEF Walk, TypeOK
      <3> QED
        BY <3>1, <3>2 DEF ChunkInv, TypeOK
    <2>3. CASE SkipBucket(d)
      <3>1. /\ phaseIdx' = phaseIdx
            /\ \/ pc' = [pc EXCEPT ![d] = "idle"] /\ walk' = [walk EXCEPT ![d] = NoWalk]
               \/ pc' = pc /\ walk' = [walk EXCEPT ![d] = NextId(walk[d])]
        BY <2>3 DEF SkipBucket, fsmVars
      <3>2. NextId(walk[d]).phase = walk[d].phase
        BY DEF NextId, Walk
      <3> QED
        BY <3>1, <3>2 DEF ChunkInv, TypeOK
    <2>4. CASE ReadNextPhase(d) \/ EnqueueNext(d)
      <3>1. phaseIdx' = phaseIdx /\ phaseIdx > 0
        BY <2>4 DEF ReadNextPhase, EnqueueNext, fsmVars, ChunkInv
      <3>2. \A c \in Clients : pc'[c] = "scan" => pc[c] = "scan" /\ walk'[c] = walk[c]
        BY <2>4 DEF ReadNextPhase, EnqueueNext, TypeOK
      <3> QED
        BY <3>1, <3>2 DEF ChunkInv
    <2>5. CASE ~(AdvancePhase(d) \/ StartScan(d) \/ SkipBucket(d) \/ ReadNextPhase(d) \/ EnqueueNext(d))
      <3>1. /\ phaseIdx' = phaseIdx
            /\ \A c \in Clients : pc'[c] \in {"readPhase", "enqueue", "scan"} =>
                  pc'[c] = pc[c] /\ walk'[c] = walk[c]
        BY <1>2, <2>5 DEF ClientStep, Poll, Transition, Compact, Report, Shutdown, TakeTask,
         FindPhaseComplete, DispatchTask, EndTransition, ClaimBucket, Execute, Abandon,
         IgnoreReport, AcceptReport, AcceptLateSuccess, CompleteTask, MarkReduceDone,
         FailTask, ContinueTask, Forget, Results, fsmVars, TypeOK
      <3> QED
        BY <3>1 DEF ChunkInv
    <2> QED
      BY <2>1, <2>2, <2>3, <2>4, <2>5
  <1> QED
    BY <1>1, <1>2 DEF Next

\* ChunkInv is inductive, given the tokens and the pools.
LEMMA ChunkStep == BucketInv /\ ChunkInv /\ [Next]_vars => ChunkInv'
  <1> SUFFICES ASSUME BucketInv, ChunkInv, [Next]_vars PROVE ChunkInv'
    OBVIOUS
  <1>1. CASE Next
    BY <1>1, ChunkStageStep, ChunkWalkStep DEF ChunkInv, BucketInv
  <1>2. CASE UNCHANGED vars
    <2>1. UNCHANGED <<phaseIdx, pc, walk, JobStatus, inFlight, hand, srcNext, chunkStore>>
      BY <1>2 DEF vars, fsmVars
    <2>2. Holders' = Holders
      BY <2>1 DEF Holders
    <2>3. UniqueInv => UniqueInv'
      BY <2>1, <2>2 DEF UniqueInv
    <2>4. ChunksHeld => ChunksHeld'
      BY <2>1, <2>2 DEF ChunksHeld, Live, InHand
    <2> QED
      BY <2>1, <2>3, <2>4 DEF ChunkInv
  <1> QED
    BY <1>1, <1>2

\* Nothing is alive when the coordinator starts.
LEMMA NothingAlive ==
  ASSUME Init PROVE Live = {} /\ LiveIds = {} /\ Holders = {} /\ UniqueInv
  <1>1. Holders = {}
    BY DEF Init, Holders
  <1>2. Live = {}
    BY <1>1 DEF Init, Live, InHand
  <1> QED
    BY <1>1, <1>2 DEF Init, LiveIds, Ids, UniqueInv

\* It holds when the coordinator starts.
LEMMA ChunkInit == Init => ChunkInv
  <1> SUFFICES ASSUME Init PROVE ChunkInv
    OBVIOUS
  <1> QED
    BY NothingAlive DEF Init, ChunkInv, ChunksHeld

\* Whatever has happened, GetChunk finds the chunk of every map task that is queued,
\* in flight or about to be: completions and exhausted retries evict a chunk with
\* the last copy of its task.
THEOREM ChunkIsServed == Spec => []ChunkServed
  <1>1. ChunkInv => ChunkServed
    BY DEF ChunkInv, ChunksHeld, ChunkServed, Live, InHand, Holders
  <1> QED
    BY <1>1, BucketInit, BucketStep, ChunkInit, ChunkStep, PTL DEF Spec

(***************************************************************************)
(* The accounts: what most steps leave alone                               *)
(***************************************************************************)
\* How many tasks a phase has, and of which stage.
LEMMA TasksOfPhase ==
  ASSUME TypeOK, OneMapStage
  PROVE  /\ phaseTotal \in Nat /\ IsFiniteSet(PhaseTasks)
         /\ Cardinality(PhaseTasks) = phaseTotal
         /\ done => PhaseTasks = {} /\ phaseTotal = 0
         /\ phaseIdx = 0 => ~done /\ Action(phaseIdx) = "MapTask" /\ phaseTotal = NumTasks
         /\ phaseIdx > 0 /\ ~done => Action(phaseIdx) \in BucketStages /\ phaseTotal = NReduce
  <1>1. phaseIdx \in Nat /\ NumTasks \in Nat /\ NumStages \in Nat /\ NumStages > 0
    BY PipelineAssumption DEF TypeOK, NumStages
  <1>2. phaseIdx = 0 => ~done /\ Action(phaseIdx) = "MapTask" /\ phaseTotal = NumTasks
    BY <1>1 DEF OneMapStage, done, phaseTotal, BucketStages
  <1>3. phaseIdx > 0 /\ ~done => Action(phaseIdx) \in BucketStages /\ phaseTotal = NReduce
    <2> SUFFICES ASSUME phaseIdx > 0, ~done
                 PROVE  Action(phaseIdx) \in BucketStages /\ phaseTotal = NReduce
      OBVIOUS
    <2>1. phaseIdx \in 1..(NumStages - 1)
      BY <1>1 DEF done
    <2> QED
      BY <2>1 DEF OneMapStage, phaseTotal
  <1>4. phaseTotal \in Nat
    BY <1>1, BoundsAssumption DEF phaseTotal
  <1>5. done => PhaseTasks = {} /\ phaseTotal = 0
    BY DEF PhaseTasks, phaseTotal
  <1>6. IsFiniteSet(PhaseTasks) /\ Cardinality(PhaseTasks) = phaseTotal
    <2>1. IsFiniteSet(0..(phaseTotal - 1))
          /\ Cardinality(0..(phaseTotal - 1)) =
                IF 0 > phaseTotal - 1 THEN 0 ELSE phaseTotal - 1 - 0 + 1
      BY <1>4, FS_Interval
    <2> QED
      BY <1>4, <2>1 DEF PhaseTasks
  <1> QED
    BY <1>2, <1>3, <1>4, <1>5, <1>6

\* The tasks of a phase are the same as long as it lasts, once the listener is done.
LEMMA SameTasks ==
  ASSUME phaseIdx' = phaseIdx, NumTasks' = NumTasks
  PROVE  PhaseTasks' = PhaseTasks /\ done' = done /\ (InGroupBy' <=> InGroupBy)
  BY DEF PhaseTasks, phaseTotal, done, InGroupBy, Action

\* Steps that neither begin nor end a walk, and create no id.
LEMMA WalksKept ==
  ASSUME TypeOK, Accounts, CountInv', phaseIdx' = phaseIdx, PhaseTasks' = PhaseTasks,
         compaction' = compaction, sourceDone => sourceDone',
         LiveIds' \cup counted' \subseteq LiveIds \cup counted, counted \subseteq counted',
         \A c \in Clients : pc'[c] \in {"advance", "readPhase", "enqueue", "scan"} =>
            pc'[c] = pc[c] /\ walk'[c] = walk[c],
         \A c \in Clients : pc[c] \in {"readPhase", "enqueue"} => pc'[c] = pc[c]
  PROVE  /\ WalkInv' /\ BucketsClaimed'
         /\ incidents' = incidents /\ LiveIds \cup counted \subseteq LiveIds' \cup counted' => NoneLost'
  <1>1. done' = done /\ Action(phaseIdx)' = Action(phaseIdx) /\ (InGroupBy' <=> InGroupBy)
    BY DEF done, Action, InGroupBy
  <1>2. \A c \in Clients : (SetsUp(c)' <=> SetsUp(c))
    BY <1>1 DEF SetsUp
  <1>3. \A c \in Clients : SetsUp(c) => NextNew(c)' = NextNew(c)
    BY DEF SetsUp, NextNew
  <1>4. WalkInv'
    <2>1. \A c \in Clients : pc'[c] = "advance" =>
             /\ walk'[c].phase <= phaseIdx'
             /\ walk'[c].phase = phaseIdx' => ~done' /\ counted' = PhaseTasks' /\ sourceDone'
      <3> SUFFICES ASSUME NEW c \in Clients, pc'[c] = "advance"
                   PROVE  /\ walk'[c].phase <= phaseIdx'
                          /\ walk'[c].phase = phaseIdx' =>
                                ~done' /\ counted' = PhaseTasks' /\ sourceDone'
        OBVIOUS
      <3>1. pc[c] = "advance" /\ walk'[c] = walk[c]
        OBVIOUS
      <3>2. counted' \subseteq PhaseTasks'
        BY DEF CountInv
      <3> QED
        BY <1>1, <3>1, <3>2 DEF Accounts, WalkInv
    <2>2. \A c \in Clients : SetsUp(c)' => \A id \in LiveIds' \cup counted' : id < NextNew(c)'
      BY <1>2, <1>3 DEF Accounts, WalkInv
    <2>3. \A c, d \in Clients : SetsUp(c)' /\ SetsUp(d)' => c = d
      BY <1>2 DEF Accounts, WalkInv
    <2>4. \A c \in Clients :
             /\ pc'[c] = "readPhase" => walk'[c].phase < phaseIdx'
             /\ pc'[c] = "enqueue" =>
                   /\ walk'[c].phase = phaseIdx' /\ phaseIdx' > 0
                   /\ Action(phaseIdx)' # "GroupByTask"
                   /\ walk'[c].limit = NReduce /\ walk'[c].next < NReduce
             /\ pc'[c] = "scan" =>
                   walk'[c].phase <= phaseIdx' /\ walk'[c].limit = NReduce /\ walk'[c].next < NReduce
      BY <1>1 DEF Accounts, WalkInv
    <2> QED
      BY <2>1, <2>2, <2>3, <2>4 DEF WalkInv
  <1>5. BucketsClaimed'
    BY <1>1 DEF Accounts, BucketsClaimed, Action
  <1>6. incidents' = incidents /\ LiveIds \cup counted \subseteq LiveIds' \cup counted' => NoneLost'
    <2> SUFFICES ASSUME incidents' = incidents, LiveIds \cup counted \subseteq LiveIds' \cup counted',
                        incidents = {}, MongoReliable, NEW id \in PhaseTasks'
                 PROVE  Found(id)'
      BY DEF NoneLost
    <2>1. Found(id)
      BY DEF Accounts, NoneLost
    <2> QED
      BY <1>1, <1>2, <1>3, <2>1 DEF Found
  <1> QED
    BY <1>4, <1>5, <1>6

\* Steps that count nothing and report no new success.
LEMMA WorkKept ==
  ASSUME Accounts, UNCHANGED <<phaseIdx, counted, failedTasks>>, failedTasks \in Nat,
         output \subseteq output', NoMiscount, OneMapStage,
         \A c \in Clients : pc'[c] \in {"TaskSuccess", "complete"} =>
            pc'[c] = pc[c] /\ hand'[c] = hand[c]
  PROVE  WorkInv'
  <1>1. done' = done /\ Action(phaseIdx)' = Action(phaseIdx)
    BY DEF done, Action
  <1>2. \A c \in Clients : pc'[c] \in {"TaskSuccess", "complete"} /\ Stage(c)' \in WorkerStages
           => Bucket(c)' \in output'
    BY DEF Accounts, WorkInv, Stage, Bucket, Action
  <1>3. WorkDone'
    <2> SUFFICES ASSUME ~done, Action(phaseIdx) \in ChunkStages \cup {"ReduceTask", "SelectKeyTask"}
                 PROVE  Cardinality({id \in counted' : <<phaseIdx', id>> \notin output'}) <= failedTasks'
      BY <1>1 DEF WorkDone
    <2> DEFINE S == {id \in counted : <<phaseIdx, id>> \notin output}
               T == {id \in counted : <<phaseIdx, id>> \notin output'}
    <2>1. Cardinality(S) <= failedTasks
      BY DEF Accounts, WorkInv, WorkDone
    <2>2. T \subseteq S /\ IsFiniteSet(S)
      BY FS_Subset DEF Accounts, CountInv
    <2> HIDE DEF S, T
    <2>3. Cardinality(T) <= Cardinality(S) /\ Cardinality(T) \in Nat /\ Cardinality(S) \in Nat
      BY <2>2, FS_Subset, FS_CardinalityType
    <2>4. Cardinality(T) <= failedTasks
      BY <2>1, <2>3
    <2> QED
      BY <2>4 DEF T
  <1> QED
    BY <1>2, <1>3 DEF WorkInv

\* Nothing new enters or leaves the phase.
LEMMA AccountsKept ==
  ASSUME TypeOK, OneMapStage, Accounts, UniqueInv', PhaseInv', LiveIds' = LiveIds,
         UNCHANGED <<phaseIdx, NumTasks, phaseDone, counted, compaction, incidents>>,
         sourceDone => sourceDone', ListenerInv', WorkInv',
         \A c \in Clients : pc'[c] \in {"advance", "readPhase", "enqueue", "scan"} =>
            pc'[c] = pc[c] /\ walk'[c] = walk[c],
         \A c \in Clients : pc[c] \in {"readPhase", "enqueue"} => pc'[c] = pc[c],
         \A c \in Clients : pc'[c] # "completeLate"
  PROVE  Accounts'
  <1>1. PhaseTasks' = PhaseTasks
    BY SameTasks
  <1>2. CountInv'
    BY <1>1 DEF Accounts, CountInv
  <1>3. LiveIds' \cup counted' = LiveIds \cup counted /\ counted \subseteq counted'
        /\ UNCHANGED <<phaseIdx, compaction, incidents>>
    OBVIOUS
  <1>4. WalkInv' /\ BucketsClaimed' /\ NoneLost'
    BY <1>1, <1>2, <1>3, WalksKept
  <1> QED
    BY <1>2, <1>4 DEF Accounts

\* The listener's accounts do not change with the other variables.
LEMMA ListenerKept ==
  ASSUME ListenerInv, UNCHANGED <<phaseIdx, NumTasks, srcNext, sourceDone>>
  PROVE  ListenerInv'
  BY DEF ListenerInv

(***************************************************************************)
(* Each action keeps the accounts                                          *)
(***************************************************************************)
\* The listener stores a chunk, or sees the source exhausted.
LEMMA StoreAccounts ==
  ASSUME BucketInv, OneMapStage, Accounts, NoMiscount, StoreChunk \/ SourceExhausted
  PROVE  Accounts'
  <1>1. /\ UNCHANGED <<phaseIdx, incidents, NumTasks, phaseDone, failedTasks, counted, compaction, output,
                       JobStatus, inFlight, pc, hand, walk, srcNext>>
        /\ \/ sourceDone' = sourceDone
           \/ sourceDone' = TRUE /\ srcNext = NumChunks
    BY DEF StoreChunk, SourceExhausted, countVars, storeVars
  <1>2. TypeOK /\ UniqueInv /\ PhaseInv /\ failedTasks \in Nat
    BY DEF BucketInv, TypeOK, Accounts
  <1>3. Holders' = Holders
    BY <1>1 DEF Holders
  <1>4. UniqueInv' /\ PhaseInv' /\ LiveIds' = LiveIds
    BY <1>1, <1>2, <1>3, NothingMoves
  <1>5. ListenerInv'
    BY <1>1 DEF Accounts, ListenerInv
  <1>6. WorkInv'
    BY <1>1, <1>2, WorkKept
  <1>7. \A c \in Clients : pc'[c] # "completeLate"
    BY <1>1 DEF Accounts
  <1> QED
    BY <1>1, <1>2, <1>4, <1>5, <1>6, <1>7, AccountsKept

\* The listener creates a task: stage 0 is under way and gets the next id.
LEMMA EnqueueChunkAccounts ==
  ASSUME BucketInv, OneMapStage, Accounts, NoMiscount, EnqueueChunk
  PROVE  Accounts'
  <1> DEFINE n == NewTask(srcNext, srcNext, "MapTask", 0)
  <1>1. n.TaskId = srcNext
    BY DEF NewTask
  <1>2. /\ EnqueueTask(n) /\ srcNext' = srcNext + 1 /\ NumTasks' = NumTasks + 1
        /\ srcNext < NumChunks
        /\ UNCHANGED <<phaseIdx, incidents, sourceDone, phaseDone, failedTasks, counted, compaction,
                       output, inFlight, pc, hand, walk>>
    BY DEF EnqueueChunk, Popped, EnqueueTask, countVars, storeVars
  <1> HIDE DEF n
  <1>3. TypeOK /\ UniqueInv /\ PhaseInv /\ failedTasks \in Nat /\ srcNext \in Nat
    BY DEF BucketInv, TypeOK, Accounts
  <1>4. ~sourceDone /\ phaseIdx = 0 /\ NumTasks = srcNext
    BY <1>2, <1>3, BoundsAssumption DEF Accounts, ListenerInv, TypeOK
  <1>5. /\ ~done /\ Action(phaseIdx) = "MapTask"
        /\ PhaseTasks = 0..(srcNext - 1) /\ PhaseTasks' = 0..srcNext
    <2>1. ~done /\ Action(phaseIdx) = "MapTask" /\ phaseTotal = NumTasks
      BY <1>3, <1>4, TasksOfPhase
    <2>2. phaseTotal' = NumTasks'
      BY <1>2, <2>1 DEF phaseTotal, done, Action, BucketStages
    <2>3. NumTasks' - 1 = srcNext
      BY <1>2, <1>3, <1>4
    <2> QED
      BY <1>4, <2>1, <2>2, <2>3 DEF PhaseTasks
  <1>6. srcNext \notin PhaseTasks /\ PhaseTasks' = PhaseTasks \cup {srcNext}
    BY <1>3, <1>5
  <1>7. /\ UniqueInv' /\ PhaseInv' /\ LiveIds' = LiveIds \cup {srcNext}
    <2>1. srcNext \notin LiveIds /\ Holders' = Holders
      BY <1>2, <1>6 DEF Accounts, CountInv, Holders
    <2> QED
      BY <1>1, <1>2, <1>3, <2>1, EnqueueMoves
  <1>8. CountInv'
    BY <1>2, <1>6, <1>7 DEF Accounts, CountInv
  <1>9. \A c \in Clients : ~SetsUp(c) /\ ~SetsUp(c)'
    <2>1. \A c \in Clients : pc[c] \notin {"enqueue", "readPhase"}
      BY <1>3, <1>4 DEF Accounts, WalkInv, TypeOK, WalkOK
    <2> QED
      BY <1>2, <2>1 DEF SetsUp
  <1>10. WalkInv'
    <2>1. \A c \in Clients : pc[c] = "advance" => walk[c].phase # phaseIdx
      BY <1>4 DEF Accounts, WalkInv
    <2>2. Action(phaseIdx)' = Action(phaseIdx)
      BY <1>2 DEF Action
    <2> QED
      BY <1>2, <1>9, <2>1, <2>2 DEF Accounts, WalkInv
  <1>11. BucketsClaimed'
    BY <1>2, <1>5 DEF Accounts, BucketsClaimed, InGroupBy, done, Action
  <1>12. NoneLost'
    BY <1>2, <1>5, <1>6, <1>7, <1>9 DEF Accounts, NoneLost, Found, InGroupBy
  <1>13. ListenerInv'
    BY <1>2, <1>4 DEF ListenerInv
  <1>14. WorkInv'
    BY <1>2, <1>3, WorkKept
  <1> QED
    BY <1>2, <1>7, <1>8, <1>10, <1>11, <1>12, <1>13, <1>14 DEF Accounts

\* The steps of a client that move ids between places, or move none.
LEMMA StayAccounts ==
  ASSUME BucketInv, OneMapStage, Accounts, NoMiscount, NEW c \in Clients,
         \/ Shutdown(c) \/ TakeTask(c) \/ DispatchTask(c) \/ EndTransition(c)
         \/ Abandon(c) \/ IgnoreReport(c) \/ MarkReduceDone(c) \/ ContinueTask(c)
  PROVE  Accounts'
  <1>1. UNCHANGED <<phaseIdx, incidents, NumTasks, phaseDone, failedTasks, counted, compaction, output,
                    srcNext, sourceDone>>
    BY DEF Shutdown, TakeTask, DispatchTask, EndTransition, Abandon, IgnoreReport,
           MarkReduceDone, ContinueTask, fsmVars, countVars, storeVars
  <1>2. TypeOK /\ UniqueInv /\ PhaseInv /\ failedTasks \in Nat
    BY DEF BucketInv, TypeOK, Accounts
  <1>3. UniqueInv' /\ PhaseInv' /\ LiveIds' = LiveIds
    BY <1>2, StillMoves, TakeMoves, DispatchMoves, ContinueMoves DEF Still
  <1>4. /\ pc[c] \notin {"readPhase", "enqueue"}
        /\ \E where \in {"down", "dispatch", "run", "idle"} : pc' = [pc EXCEPT ![c] = where]
        /\ \A d \in Clients \ {c} : walk'[d] = walk[d] /\ hand'[d] = hand[d]
    BY <1>2 DEF Shutdown, TakeTask, DispatchTask, EndTransition, Abandon, IgnoreReport,
           MarkReduceDone, ContinueTask, Forget, Results, TypeOK
  <1>5. \A d \in Clients :
           /\ pc'[d] \in {"advance", "readPhase", "enqueue", "scan"} =>
                 pc'[d] = pc[d] /\ walk'[d] = walk[d]
           /\ pc[d] \in {"readPhase", "enqueue"} => pc'[d] = pc[d]
           /\ pc'[d] # "completeLate"
           /\ pc'[d] \in {"TaskSuccess", "complete"} => pc'[d] = pc[d] /\ hand'[d] = hand[d]
    BY <1>2, <1>4 DEF TypeOK, Accounts
  <1>6. ListenerInv'
    BY <1>1, ListenerKept DEF Accounts
  <1>7. WorkInv'
    BY <1>1, <1>2, <1>5, WorkKept
  <1> QED
    BY <1>1, <1>2, <1>3, <1>5, <1>6, <1>7, AccountsKept

\* An execution: a success of a worker stage leaves its output.
LEMMA ExecuteAccounts ==
  ASSUME BucketInv, OneMapStage, Accounts, NoMiscount, NEW c \in Clients, Execute(c)
  PROVE  Accounts'
  <1>1. /\ UNCHANGED <<phaseIdx, incidents, NumTasks, phaseDone, failedTasks, counted, compaction,
                       srcNext, sourceDone, walk, hand>>
        /\ output \subseteq output'
        /\ pc[c] = "run"
        /\ \E where \in Results : pc' = [pc EXCEPT ![c] = where]
    BY DEF Execute, fsmVars, countVars, Results
  <1>2. TypeOK /\ UniqueInv /\ PhaseInv /\ failedTasks \in Nat
    BY DEF BucketInv, TypeOK, Accounts
  <1>3. UniqueInv' /\ PhaseInv' /\ LiveIds' = LiveIds
    BY <1>2, StillMoves DEF Still
  <1>4. \A d \in Clients :
           /\ pc'[d] \in {"advance", "readPhase", "enqueue", "scan"} => pc'[d] = pc[d]
           /\ pc[d] \in {"readPhase", "enqueue"} => pc'[d] = pc[d]
           /\ pc'[d] # "completeLate"
           /\ d # c => pc'[d] = pc[d]
    BY <1>1, <1>2 DEF TypeOK, Accounts, Results
  <1>5. ListenerInv'
    BY <1>1, ListenerKept DEF Accounts
  <1>6. pc'[c] = "TaskSuccess" /\ Stage(c) \in WorkerStages => Bucket(c) \in output'
    <2> SUFFICES ASSUME pc'[c] = "TaskSuccess", Stage(c) \in WorkerStages
                 PROVE  Bucket(c) \in output'
      OBVIOUS
    <2>1. c \in Workers
      <3>1. c \notin Compacters
        BY <1>1 DEF BucketInv, PoolInv, Holding, Executing, WorkerStages, ChunkStages
      <3> QED
        BY <3>1 DEF Clients
    <2>2. Action(hand[c].PhaseIdx) \in Handled(c)
      BY <2>1 DEF Handled, WorkerStages, Stage
    <2>3. output' = output \cup {<<hand[c].PhaseIdx, hand[c].TaskId>>}
      BY <1>2, <2>2 DEF Execute, TypeOK
    <2> QED
      BY <2>3 DEF Bucket
  <1>7. WorkInv'
    <2>1. \A d \in Clients : pc'[d] \in {"TaskSuccess", "complete"} /\ Stage(d)' \in WorkerStages
             => Bucket(d)' \in output'
      <3>1. pc'[c] # "complete"
        BY <1>1, <1>2 DEF Results, TypeOK
      <3> QED
        BY <1>1, <1>4, <1>6, <3>1 DEF Accounts, WorkInv, Stage, Bucket, Action
    <2>2. WorkDone'
      <3> DEFINE S == {id \in counted : <<phaseIdx, id>> \notin output}
                 T == {id \in counted : <<phaseIdx, id>> \notin output'}
      <3>1. T \subseteq S /\ IsFiniteSet(S)
        BY <1>1, FS_Subset DEF Accounts, CountInv
      <3>2. WorkDone <=> (~done /\ Action(phaseIdx) \in ChunkStages \cup {"ReduceTask", "SelectKeyTask"}
                             => Cardinality(S) <= failedTasks)
        BY DEF WorkDone
      <3>3. ~done /\ Action(phaseIdx) \in ChunkStages \cup {"ReduceTask", "SelectKeyTask"}
               => Cardinality(T) <= failedTasks
        <4> HIDE DEF S, T
        <4>1. Cardinality(T) <= Cardinality(S) /\ Cardinality(T) \in Nat /\ Cardinality(S) \in Nat
          BY <3>1, FS_Subset, FS_CardinalityType
        <4> QED
          BY <1>2, <3>2, <4>1 DEF Accounts, WorkInv
      <3> QED
        BY <1>1, <3>3 DEF WorkDone, done, Action
    <2> QED
      BY <2>1, <2>2 DEF WorkInv
  <1> QED
    BY <1>1, <1>2, <1>3, <1>4, <1>5, <1>7, AccountsKept

\* Ids that were alive are counted.
LEMMA IdsCounted ==
  ASSUME TypeOK, OneMapStage, Accounts, NEW S, S \subseteq LiveIds, IsFiniteSet(S),
         LiveIds' = LiveIds \ S, counted' = counted \cup S,
         phaseDone' = phaseDone + Cardinality(S), UNCHANGED <<phaseIdx, NumTasks>>
  PROVE  /\ CountInv' /\ PhaseTasks' = PhaseTasks
         /\ LiveIds' \cup counted' = LiveIds \cup counted /\ counted \subseteq counted'
  <1>1. PhaseTasks' = PhaseTasks
    BY SameTasks
  <1>2. S \cap counted = {}
    BY DEF Accounts, CountInv
  <1>3. IsFiniteSet(counted') /\ phaseDone' = Cardinality(counted')
    <2>1. /\ IsFiniteSet(counted \cup S)
          /\ Cardinality(counted \cup S) =
                Cardinality(counted) + Cardinality(S) - Cardinality(counted \cap S)
      BY FS_Union DEF Accounts, CountInv
    <2>2. Cardinality(counted \cap S) = 0
      BY <1>2, FS_EmptySet
    <2>3. Cardinality(counted) \in Nat /\ Cardinality(S) \in Nat
      BY FS_CardinalityType DEF Accounts, CountInv
    <2>4. phaseDone = Cardinality(counted)
      BY DEF Accounts, CountInv
    <2> QED
      BY <2>1, <2>2, <2>3, <2>4
  <1>4. counted' \subseteq PhaseTasks' /\ LiveIds' \subseteq PhaseTasks' \ counted'
    BY <1>1 DEF Accounts, CountInv
  <1>5. CountInv'
    BY <1>3, <1>4 DEF CountInv
  <1> QED
    BY <1>1, <1>5

\* A report takes its record; the record is that of the executed task's id and phase.
LEMMA AcceptAccounts ==
  ASSUME BucketInv, OneMapStage, Accounts, NoMiscount, NEW c \in Clients, AcceptReport(c)
  PROVE  Accounts'
  <1>1. PICK t \in Reported(c) : hand' = [hand EXCEPT ![c] = t]
    BY DEF AcceptReport
  <1>2. /\ UNCHANGED <<phaseIdx, incidents, NumTasks, phaseDone, failedTasks, counted, compaction, output,
                       srcNext, sourceDone, walk>>
        /\ pc[c] \in Results /\ hand[c].PhaseIdx = phaseIdx
        /\ pc' = [pc EXCEPT ![c] = CASE pc[c] = "TaskSuccess" -> "complete"
                                     [] pc[c] = "TaskFailed" -> "fail"
                                     [] OTHER -> "continue"]
    BY DEF AcceptReport, countVars, storeVars
  <1>3. TypeOK /\ UniqueInv /\ PhaseInv /\ failedTasks \in Nat
    BY DEF BucketInv, TypeOK, Accounts
  <1>4. UniqueInv' /\ PhaseInv' /\ LiveIds' = LiveIds
    BY <1>3, AcceptMoves
  <1>5. /\ pc'[c] \in {"complete", "fail", "continue"}
        /\ pc'[c] = "complete" => pc[c] = "TaskSuccess"
        /\ \A d \in Clients \ {c} : pc'[d] = pc[d] /\ hand'[d] = hand[d]
        /\ hand'[c] = t
    BY <1>1, <1>2, <1>3 DEF TypeOK
  <1>6. \A d \in Clients :
           /\ pc'[d] \in {"advance", "readPhase", "enqueue", "scan"} => pc'[d] = pc[d]
           /\ pc[d] \in {"readPhase", "enqueue"} => pc'[d] = pc[d]
           /\ pc'[d] # "completeLate"
    BY <1>2, <1>5 DEF Results, Accounts
  <1>7. ListenerInv'
    BY <1>2, ListenerKept DEF Accounts
  <1>8. t.PhaseIdx = hand[c].PhaseIdx /\ t.TaskId = hand[c].TaskId
    BY <1>2, <1>3 DEF Reported, WithId, PhaseInv
  <1>9. WorkInv'
    <2>1. \A d \in Clients : pc'[d] \in {"TaskSuccess", "complete"} /\ Stage(d)' \in WorkerStages
             => Bucket(d)' \in output'
      BY <1>2, <1>5, <1>8 DEF Accounts, WorkInv, Stage, Bucket, Action
    <2>2. WorkDone'
      BY <1>2 DEF Accounts, WorkInv, WorkDone, done, Action
    <2> QED
      BY <2>1, <2>2 DEF WorkInv
  <1> QED
    BY <1>2, <1>3, <1>4, <1>6, <1>7, <1>9, AccountsKept

\* A completion is applied in the phase it belongs to, and counts its task.
LEMMA CompleteAccounts ==
  ASSUME BucketInv, OneMapStage, Accounts, NoMiscount, NEW c \in Clients, CompleteTask(c)
  PROVE  Accounts' /\ hand[c].PhaseIdx = phaseIdx
  <1> DEFINE id == hand[c].TaskId
  <1>1. TypeOK /\ UniqueInv /\ PhaseInv /\ failedTasks \in Nat
    BY DEF BucketInv, TypeOK, Accounts
  <1>2. pc[c] = "complete"
    BY DEF CompleteTask, Accounts
  <1>3. /\ UNCHANGED <<phaseIdx, incidents, NumTasks, failedTasks, compaction, output, srcNext,
                       sourceDone, walk>>
        /\ phaseDone' = phaseDone + 1 /\ counted' = counted \cup {id}
        /\ \E where \in {"mark", "idle"} : pc' = [pc EXCEPT ![c] = where]
        /\ \A d \in Clients \ {c} : hand'[d] = hand[d]
    BY <1>1 DEF CompleteTask, Forget, storeVars, TypeOK
  <1>4. UniqueInv' /\ PhaseInv' /\ id \in LiveIds /\ LiveIds' = LiveIds \ {id}
    BY <1>1, <1>2, CompleteMoves
  <1>5. hand[c].PhaseIdx = phaseIdx
    BY <1>1, <1>2 DEF PhaseInv, InHand, Holders
  <1>6. IsFiniteSet({id}) /\ Cardinality({id}) = 1
    BY FS_Singleton
  <1> HIDE DEF id
  <1>7. /\ CountInv' /\ PhaseTasks' = PhaseTasks
        /\ LiveIds' \cup counted' = LiveIds \cup counted /\ counted \subseteq counted'
    BY <1>1, <1>3, <1>4, <1>6, IdsCounted
  <1>8. \A d \in Clients :
           /\ pc'[d] \in {"advance", "readPhase", "enqueue", "scan"} =>
                 pc'[d] = pc[d] /\ walk'[d] = walk[d]
           /\ pc[d] \in {"readPhase", "enqueue"} => pc'[d] = pc[d]
           /\ pc'[d] # "completeLate"
           /\ pc'[d] \in {"TaskSuccess", "complete"} => pc'[d] = pc[d] /\ hand'[d] = hand[d]
    BY <1>1, <1>2, <1>3 DEF TypeOK, Accounts
  <1>9. WalkInv' /\ BucketsClaimed' /\ NoneLost'
    BY <1>1, <1>3, <1>7, <1>8, WalksKept
  <1>10. ListenerInv'
    BY <1>3, ListenerKept DEF Accounts
  <1>11. WorkInv'
    <2>1. \A d \in Clients : pc'[d] \in {"TaskSuccess", "complete"} /\ Stage(d)' \in WorkerStages
             => Bucket(d)' \in output'
      BY <1>3, <1>8 DEF Accounts, WorkInv, Stage, Bucket, Action
    <2>2. WorkDone'
      <3> SUFFICES ASSUME ~done, Action(phaseIdx) \in ChunkStages \cup {"ReduceTask", "SelectKeyTask"}
                   PROVE  Cardinality({i \in counted' : <<phaseIdx, i>> \notin output}) <= failedTasks
        BY <1>3 DEF WorkDone, done, Action
      <3>1. <<phaseIdx, id>> \in output
        BY <1>2, <1>5 DEF Accounts, WorkInv, Stage, Bucket, WorkerStages, id
      <3>2. {i \in counted' : <<phaseIdx, i>> \notin output}
               = {i \in counted : <<phaseIdx, i>> \notin output}
        BY <1>3, <3>1
      <3> QED
        BY <3>2 DEF Accounts, WorkInv, WorkDone
    <2> QED
      BY <2>1, <2>2 DEF WorkInv
  <1> QED
    BY <1>4, <1>5, <1>7, <1>8, <1>9, <1>10, <1>11 DEF Accounts

\* A sweep counts what it gives up on, as finished and as failed.
LEMMA SweepAccounts ==
  ASSUME BucketInv, OneMapStage, Accounts, NoMiscount, Sweep
  PROVE  Accounts'
  <1>1. PICK late \in SUBSET inFlight : inFlight' = inFlight \ late /\ GiveUpOrRequeue(late)
    BY DEF Sweep, TakeOut
  <1>2. UNCHANGED <<phaseIdx, incidents, NumTasks, compaction, output, srcNext, sourceDone, walk, pc, hand>>
    BY DEF Sweep, storeVars
  <1>3. TypeOK /\ UniqueInv /\ PhaseInv /\ failedTasks \in Nat
    BY DEF BucketInv, TypeOK, Accounts
  <1> DEFINE gone == {t \in late : Exhausted(t)}
             S    == Ids(gone)
  <1>4. /\ UniqueInv' /\ PhaseInv' /\ S \subseteq LiveIds /\ LiveIds' = LiveIds \ S
        /\ IsFiniteSet(S) /\ Cardinality(S) = Cardinality(gone)
    <2>1. gone = {t \in late : Exhausted(t)}
      OBVIOUS
    <2> HIDE DEF gone
    <2> QED
      BY <1>1, <1>2, <1>3, <2>1, SweepMoves
  <1>5. /\ counted' = counted \cup S
        /\ phaseDone' = phaseDone + Cardinality(S) /\ failedTasks' = failedTasks + Cardinality(S)
    BY <1>1, <1>4 DEF GiveUpOrRequeue
  <1> HIDE DEF S, gone
  <1>6. /\ CountInv' /\ PhaseTasks' = PhaseTasks
        /\ LiveIds' \cup counted' = LiveIds \cup counted /\ counted \subseteq counted'
    BY <1>2, <1>3, <1>4, <1>5, IdsCounted
  <1>7. WalkInv' /\ BucketsClaimed' /\ NoneLost'
    BY <1>2, <1>3, <1>6, WalksKept
  <1>8. ListenerInv'
    BY <1>2, ListenerKept DEF Accounts
  <1>9. WorkInv'
    <2>1. \A d \in Clients : pc'[d] \in {"TaskSuccess", "complete"} /\ Stage(d)' \in WorkerStages
             => Bucket(d)' \in output'
      BY <1>2 DEF Accounts, WorkInv, Stage, Bucket, Action
    <2>2. WorkDone'
      <3> SUFFICES ASSUME ~done, Action(phaseIdx) \in ChunkStages \cup {"ReduceTask", "SelectKeyTask"}
                   PROVE  Cardinality({i \in counted' : <<phaseIdx, i>> \notin output}) <= failedTasks'
        BY <1>2 DEF WorkDone, done, Action
      <3> DEFINE A == {i \in counted : <<phaseIdx, i>> \notin output}
                 B == {i \in counted' : <<phaseIdx, i>> \notin output}
      <3>1. Cardinality(A) <= failedTasks
        BY DEF Accounts, WorkInv, WorkDone
      <3>2. IsFiniteSet(A) /\ B \subseteq A \cup S
        BY <1>5, FS_Subset DEF Accounts, CountInv
      <3> HIDE DEF A, B
      <3>3. /\ IsFiniteSet(A \cup S)
            /\ Cardinality(A \cup S) = Cardinality(A) + Cardinality(S) - Cardinality(A \cap S)
        BY <1>4, <3>2, FS_Union
      <3>4. /\ Cardinality(A) \in Nat /\ Cardinality(S) \in Nat /\ Cardinality(A \cap S) \in Nat
            /\ Cardinality(B) \in Nat /\ Cardinality(B) <= Cardinality(A \cup S)
        BY <1>4, <3>2, <3>3, FS_Subset, FS_CardinalityType
      <3>5. Cardinality(B) <= failedTasks'
        BY <1>3, <1>5, <3>1, <3>3, <3>4
      <3> QED
        BY <3>5 DEF B
    <2> QED
      BY <2>1, <2>2 DEF WorkInv
  <1>10. \A c \in Clients : pc'[c] # "completeLate"
    BY <1>2 DEF Accounts
  <1> QED
    BY <1>4, <1>6, <1>7, <1>8, <1>9, <1>10 DEF Accounts

\* A walk begins that creates nothing: who creates the tasks of the phase, and what
\* it has created, stays as it was.
LEMMA CreatorsKept ==
  ASSUME TypeOK, Accounts, LiveIds' = LiveIds,
         UNCHANGED <<phaseIdx, NumTasks, phaseDone, counted, compaction, incidents>>,
         \A c \in Clients : SetsUp(c)' <=> SetsUp(c),
         \A c \in Clients : SetsUp(c) => NextNew(c)' = NextNew(c)
  PROVE  /\ CountInv' /\ BucketsClaimed' /\ NoneLost'
         /\ \A c \in Clients : SetsUp(c)' => \A id \in LiveIds' \cup counted' : id < NextNew(c)'
         /\ \A c, d \in Clients : SetsUp(c)' /\ SetsUp(d)' => c = d
         /\ PhaseTasks' = PhaseTasks
  <1>1. PhaseTasks' = PhaseTasks /\ done' = done /\ (InGroupBy' <=> InGroupBy)
        /\ Action(phaseIdx)' = Action(phaseIdx)
    BY SameTasks DEF Action
  <1>2. CountInv'
    BY <1>1 DEF Accounts, CountInv
  <1>3. BucketsClaimed'
    BY <1>1 DEF Accounts, BucketsClaimed, Action
  <1>4. NoneLost'
    <2> SUFFICES ASSUME incidents = {}, MongoReliable, NEW id \in PhaseTasks' PROVE Found(id)'
      BY DEF NoneLost
    <2>1. Found(id)
      BY <1>1 DEF Accounts, NoneLost
    <2> QED
      BY <1>1, <2>1 DEF Found
  <1>5. /\ \A c \in Clients : SetsUp(c)' => \A id \in LiveIds' \cup counted' : id < NextNew(c)'
        /\ \A c, d \in Clients : SetsUp(c)' /\ SetsUp(d)' => c = d
    BY DEF Accounts, WalkInv
  <1> QED
    BY <1>1, <1>2, <1>3, <1>4, <1>5

\* As many ids counted as the phase has means that all of them are.
LEMMA AllCounted ==
  ASSUME TypeOK, OneMapStage, Accounts, currentPhaseComplete, ~done
  PROVE  counted = PhaseTasks /\ sourceDone
  <1>1. counted = PhaseTasks
    <2>1. Cardinality(counted) = Cardinality(PhaseTasks)
      BY TasksOfPhase DEF Accounts, CountInv, currentPhaseComplete
    <2> QED
      BY <2>1, TasksOfPhase, FS_Subset DEF Accounts, CountInv
  <1>2. sourceDone
    <2>1. CASE phaseIdx = 0
      BY <2>1 DEF currentPhaseComplete, OneMapStage
    <2>2. CASE phaseIdx > 0
      BY <2>2 DEF Accounts, ListenerInv
    <2> QED
      BY <2>1, <2>2 DEF TypeOK
  <1> QED
    BY <1>1, <1>2

\* A poll finds the phase complete, or begins to scan its buckets.
LEMMA BeginAccounts ==
  ASSUME BucketInv, OneMapStage, Accounts, NoMiscount, NEW c \in Clients,
         FindPhaseComplete(c) \/ StartScan(c)
  PROVE  Accounts'
  <1>1. /\ UNCHANGED <<phaseIdx, incidents, NumTasks, phaseDone, failedTasks, counted, compaction, output,
                       srcNext, sourceDone, hand>>
        /\ pc[c] = "idle"
    BY DEF FindPhaseComplete, StartScan, fsmVars, storeVars
  <1>2. TypeOK /\ UniqueInv /\ PhaseInv /\ failedTasks \in Nat
    BY DEF BucketInv, TypeOK, Accounts
  <1>3. UniqueInv' /\ PhaseInv' /\ LiveIds' = LiveIds
    BY <1>2, StillMoves DEF Still
  <1>4. /\ \/ pc'[c] = "advance" /\ FindPhaseComplete(c)
           \/ pc'[c] = "scan" /\ walk'[c].limit = NReduce /\ walk'[c].next = 0
        /\ walk'[c].phase = phaseIdx
        /\ \A d \in Clients \ {c} : pc'[d] = pc[d] /\ walk'[d] = walk[d]
    BY <1>2 DEF FindPhaseComplete, StartScan, Walk, TypeOK
  <1>5. done' = done /\ Action(phaseIdx)' = Action(phaseIdx)
    BY <1>1 DEF done, Action
  <1>6. \A d \in Clients : (SetsUp(d)' <=> SetsUp(d)) /\ (SetsUp(d) => NextNew(d)' = NextNew(d))
    BY <1>1, <1>4, <1>5 DEF SetsUp, NextNew
  <1>7. /\ CountInv' /\ BucketsClaimed' /\ NoneLost'
        /\ \A d \in Clients : SetsUp(d)' => \A id \in LiveIds' \cup counted' : id < NextNew(d)'
        /\ \A d, e \in Clients : SetsUp(d)' /\ SetsUp(e)' => d = e
        /\ PhaseTasks' = PhaseTasks
    BY <1>1, <1>2, <1>3, <1>6, CreatorsKept
  <1>8. FindPhaseComplete(c) => ~done /\ counted = PhaseTasks /\ sourceDone
    BY <1>2, AllCounted DEF FindPhaseComplete
  <1>9. WalkInv'
    <2>1. \A d \in Clients : pc'[d] = "advance" =>
             /\ walk'[d].phase <= phaseIdx'
             /\ walk'[d].phase = phaseIdx' => ~done' /\ counted' = PhaseTasks' /\ sourceDone'
      BY <1>1, <1>2, <1>4, <1>5, <1>7, <1>8 DEF Accounts, WalkInv, TypeOK
    <2>2. \A d \in Clients :
             /\ pc'[d] = "readPhase" => walk'[d].phase < phaseIdx'
             /\ pc'[d] = "enqueue" =>
                   /\ walk'[d].phase = phaseIdx' /\ phaseIdx' > 0
                   /\ Action(phaseIdx)' # "GroupByTask"
                   /\ walk'[d].limit = NReduce /\ walk'[d].next < NReduce
             /\ pc'[d] = "scan" =>
                   walk'[d].phase <= phaseIdx' /\ walk'[d].limit = NReduce /\ walk'[d].next < NReduce
      BY <1>1, <1>2, <1>4, <1>5, BoundsAssumption DEF Accounts, WalkInv, TypeOK
    <2> QED
      BY <1>7, <2>1, <2>2 DEF WalkInv
  <1>10. ListenerInv'
    BY <1>1, ListenerKept DEF Accounts
  <1>11. \A d \in Clients : /\ pc'[d] # "completeLate"
                            /\ pc'[d] \in {"TaskSuccess", "complete"} =>
                                  pc'[d] = pc[d] /\ hand'[d] = hand[d]
    BY <1>1, <1>4 DEF Accounts
  <1>12. WorkInv'
    BY <1>1, <1>2, <1>11, WorkKept
  <1> QED
    BY <1>3, <1>7, <1>9, <1>10, <1>11, <1>12 DEF Accounts

\* A transition moves on from a phase that is complete, to one that has not begun.
LEMMA AdvanceAccounts ==
  ASSUME BucketInv, OneMapStage, Accounts, NoMiscount', NEW c \in Clients, AdvancePhase(c)
  PROVE  Accounts' /\ ~done /\ counted = PhaseTasks /\ sourceDone
  <1>1. /\ phaseIdx' = phaseIdx + 1 /\ phaseDone' = 0 /\ failedTasks' = 0 /\ counted' = {}
        /\ inFlight' = {} /\ pc[c] = "advance" /\ pc' = [pc EXCEPT ![c] = "readPhase"]
        /\ walk[c].phase = phaseIdx
        /\ UNCHANGED <<NumTasks, sourceDone, JobStatus, srcNext, hand, walk, output, compaction>>
    BY DEF AdvancePhase, storeVars, NoMiscount
  <1>2. TypeOK /\ phaseIdx \in Nat /\ \A d \in Clients : walk[d].phase \in Nat
    BY DEF BucketInv, TypeOK, WalkOK
  <1>3. ~done /\ counted = PhaseTasks /\ sourceDone
    BY <1>1 DEF Accounts, WalkInv
  <1>4. Live = {} /\ Holders = {} /\ JobStatus = {}
    <2>1. LiveIds = {}
      BY <1>3 DEF Accounts, CountInv
    <2> QED
      BY <2>1 DEF LiveIds, Ids, Live, InHand
  <1>5. Holders' = {}
    BY <1>1, <1>2, <1>4 DEF Holders, TypeOK
  <1>6. Live' = {} /\ LiveIds' = {} /\ UniqueInv' /\ PhaseInv'
    <2>1. InHand' = {}
      BY <1>5 DEF InHand
    <2>2. Live' = {}
      BY <1>1, <1>4, <2>1 DEF Live
    <2> QED
      BY <1>1, <1>4, <1>5, <2>1, <2>2 DEF LiveIds, Ids, UniqueInv, PhaseInv
  <1>7. CountInv'
    <2>1. IsFiniteSet({}) /\ Cardinality({}) = 0
      BY FS_EmptySet
    <2> QED
      BY <1>1, <1>6, <2>1 DEF CountInv
  <1>8. \A d \in Clients : pc[d] # "enqueue"
    <2> SUFFICES ASSUME NEW d \in Clients, pc[d] = "enqueue" PROVE FALSE
      OBVIOUS
    <2>1. walk[d].next \in 0..(NReduce - 1) /\ phaseIdx > 0
      BY <1>2, BoundsAssumption DEF Accounts, WalkInv, TypeOK, WalkOK
    <2>2. walk[d].next \in counted
      BY <1>2, <1>3, <2>1, TasksOfPhase DEF PhaseTasks
    <2>3. walk[d].next < walk[d].next
      BY <2>2 DEF Accounts, WalkInv, SetsUp, NextNew
    <2> QED
      BY <2>1, <2>3
  <1>9. \A d \in Clients : SetsUp(d)' => d = c
    BY <1>1, <1>2, <1>8 DEF SetsUp, Accounts, WalkInv, TypeOK
  <1>10. WalkInv'
    <2>1. \A d \in Clients \ {c} : pc'[d] = pc[d]
      BY <1>1, <1>2 DEF TypeOK
    <2>2. pc'[c] = "readPhase"
      BY <1>1, <1>2 DEF TypeOK
    <2>3. \A d \in Clients :
             /\ pc'[d] = "advance" => walk'[d].phase < phaseIdx'
             /\ pc'[d] = "readPhase" => walk'[d].phase < phaseIdx'
             /\ pc'[d] # "enqueue"
             /\ pc'[d] = "scan" =>
                   walk'[d].phase <= phaseIdx' /\ walk'[d].limit = NReduce /\ walk'[d].next < NReduce
      BY <1>1, <1>2, <1>8, <2>1, <2>2 DEF Accounts, WalkInv
    <2> QED
      BY <1>1, <1>2, <1>6, <1>9, <2>3 DEF WalkInv
  <1>11. InGroupBy => PhaseTasks = 0..(NReduce - 1)
    BY <1>2, TasksOfPhase DEF InGroupBy, PhaseTasks, TypeOK
  <1>12. BucketsClaimed'
    <2>1. \A b \in compaction : b[1] <= phaseIdx /\ b[1] \in Nat
      BY <1>2 DEF Accounts, BucketsClaimed, TypeOK
    <2>2. \A b \in compaction' : b[1] <= phaseIdx'
      BY <1>1, <1>2, <2>1
    <2>3. ASSUME NEW p \in 0..(phaseIdx' - 1), p < NumStages, Action(p) = "GroupByTask",
                 NEW b \in 0..(NReduce - 1)
          PROVE  <<p, b>> \in compaction
      <3>1. CASE p = phaseIdx
        BY <1>3, <1>11, <2>3, <3>1 DEF Accounts, BucketsClaimed, InGroupBy
      <3>2. CASE p # phaseIdx
        <4>1. p \in 0..(phaseIdx - 1)
          BY <1>1, <1>2, <3>2
        <4> QED
          BY <2>3, <4>1 DEF Accounts, BucketsClaimed
      <3> QED
        BY <3>1, <3>2
    <2> QED
      BY <1>1, <1>6, <2>2, <2>3 DEF BucketsClaimed, Action
  <1>13. NoneLost'
    <2> SUFFICES ASSUME NEW id \in PhaseTasks' PROVE Found(id)'
      BY DEF NoneLost
    <2>1. id \in Int /\ id >= 0 /\ ~done'
      <3>1. PICK n \in Nat : n = phaseTotal' /\ (n > 0 => ~done')
        <4>1. phaseTotal' \in Nat
          BY <1>1, <1>2, BoundsAssumption DEF phaseTotal, TypeOK
        <4>2. phaseTotal' > 0 => ~done'
          BY DEF phaseTotal
        <4> QED
          BY <4>1, <4>2
      <3>2. id \in 0..(n - 1)
        BY <3>1 DEF PhaseTasks
      <3>3. id \in Int /\ id >= 0 /\ n > 0
        BY <3>2
      <3>4. ~done'
        BY <3>1, <3>3
      <3> QED
        BY <3>3, <3>4
    <2>2. CASE Action(phaseIdx)' = "GroupByTask"
      <3>1. <<phaseIdx + 1, id>> \notin compaction
        BY <1>2 DEF Accounts, BucketsClaimed, TypeOK
      <3> QED
        BY <1>1, <2>1, <2>2, <3>1 DEF Found, InGroupBy
    <2>3. CASE Action(phaseIdx)' # "GroupByTask"
      <3>1. SetsUp(c)' /\ NextNew(c)' = 0
        BY <1>1, <1>2, <2>1, <2>3 DEF SetsUp, NextNew, TypeOK
      <3> QED
        BY <2>1, <3>1 DEF Found
    <2> QED
      BY <2>2, <2>3
  <1>14. ListenerInv'
    BY <1>1, <1>2, <1>3 DEF Accounts, ListenerInv
  <1>15. WorkInv'
    <2>1. \A d \in Clients : pc'[d] \in {"TaskSuccess", "complete"} => pc'[d] = pc[d]
      BY <1>1, <1>2 DEF TypeOK
    <2>2. \A d \in Clients : pc'[d] \in {"TaskSuccess", "complete"} /\ Stage(d)' \in WorkerStages
             => Bucket(d)' \in output'
      BY <1>1, <2>1 DEF Accounts, WorkInv, Stage, Bucket, Action
    <2>3. WorkDone'
      <3>1. {id \in counted' : <<phaseIdx', id>> \notin output'} = {}
        BY <1>1
      <3>2. Cardinality({id \in counted' : <<phaseIdx', id>> \notin output'}) <= failedTasks'
        BY <1>1, <3>1, FS_EmptySet
      <3> QED
        BY <3>2 DEF WorkDone
    <2> QED
      BY <2>2, <2>3 DEF WorkInv
  <1>16. \A d \in Clients : pc'[d] # "completeLate"
    BY <1>1, <1>2 DEF TypeOK, Accounts
  <1> QED
    BY <1>3, <1>6, <1>7, <1>10, <1>12, <1>13, <1>14, <1>15, <1>16 DEF Accounts

\* The transition that moved to this phase sets it up: where it had to create
\* everything from id 0, it begins to.
LEMMA ReadAccounts ==
  ASSUME BucketInv, OneMapStage, Accounts, NoMiscount', NEW c \in Clients, ReadNextPhase(c)
  PROVE  Accounts'
  <1>1. /\ UNCHANGED <<phaseIdx, incidents, NumTasks, phaseDone, failedTasks, counted, compaction, output,
                       srcNext, sourceDone, hand>>
        /\ pc[c] = "readPhase" /\ phaseIdx = walk[c].phase + 1
    BY DEF ReadNextPhase, NoMiscount, fsmVars, storeVars, BucketInv, TypeOK
  <1>2. TypeOK /\ UniqueInv /\ PhaseInv /\ failedTasks \in Nat /\ NoMiscount
    BY DEF BucketInv, TypeOK, Accounts, ReadNextPhase, NoMiscount
  <1>3. UniqueInv' /\ PhaseInv' /\ LiveIds' = LiveIds
    BY <1>2, StillMoves DEF Still
  <1>4. phaseIdx > 0 /\ phaseIdx \in Nat
    BY <1>1, <1>2 DEF TypeOK, WalkOK
  <1>5. /\ \/ pc'[c] = "advanced" /\ ~SetsUp(c)
           \/ /\ pc'[c] = "enqueue" /\ SetsUp(c) /\ Action(phaseIdx) # "GroupByTask"
              /\ walk'[c].phase = phaseIdx /\ walk'[c].next = 0 /\ walk'[c].limit = NReduce
        /\ \A d \in Clients \ {c} : pc'[d] = pc[d] /\ walk'[d] = walk[d]
    <2>1. CASE done
      BY <1>1, <1>2, <2>1 DEF ReadNextPhase, SetsUp, TypeOK
    <2>2. CASE ~done /\ Action(phaseIdx) = "GroupByTask"
      <3>1. "GroupByTask" \notin ChunkStages
        BY DEF ChunkStages
      <3> QED
        BY <1>1, <1>2, <2>2, <3>1 DEF ReadNextPhase, SetsUp, TypeOK
    <2>3. CASE ~done /\ Action(phaseIdx) # "GroupByTask"
      <3>1. Action(phaseIdx) \notin ChunkStages
        BY <1>2, <1>4, <2>3, TasksOfPhase DEF BucketStages, ChunkStages
      <3>2. /\ walk' = [walk EXCEPT ![c] = Walk(phaseIdx, 0, NReduce, <<>>)]
            /\ pc' = [pc EXCEPT ![c] = IF NReduce = 0 THEN "advanced" ELSE "enqueue"]
        BY <2>3, <3>1 DEF ReadNextPhase
      <3> QED
        BY <1>1, <1>2, <2>3, <3>2, BoundsAssumption DEF SetsUp, Walk, TypeOK
    <2> QED
      BY <2>1, <2>2, <2>3
  <1>6. done' = done /\ Action(phaseIdx)' = Action(phaseIdx)
    BY <1>1 DEF done, Action
  <1>7. \A d \in Clients : (SetsUp(d)' <=> SetsUp(d)) /\ (SetsUp(d) => NextNew(d)' = NextNew(d))
    BY <1>1, <1>5, <1>6 DEF SetsUp, NextNew
  <1>8. /\ CountInv' /\ BucketsClaimed' /\ NoneLost'
        /\ \A d \in Clients : SetsUp(d)' => \A id \in LiveIds' \cup counted' : id < NextNew(d)'
        /\ \A d, e \in Clients : SetsUp(d)' /\ SetsUp(e)' => d = e
        /\ PhaseTasks' = PhaseTasks
    BY <1>1, <1>2, <1>3, <1>7, CreatorsKept
  <1>9. WalkInv'
    <2>1. \A d \in Clients : pc'[d] = "advance" =>
             /\ walk'[d].phase <= phaseIdx'
             /\ walk'[d].phase = phaseIdx' => ~done' /\ counted' = PhaseTasks' /\ sourceDone'
      BY <1>1, <1>5, <1>6, <1>8 DEF Accounts, WalkInv
    <2>2. \A d \in Clients :
             /\ pc'[d] = "readPhase" => walk'[d].phase < phaseIdx'
             /\ pc'[d] = "enqueue" =>
                   /\ walk'[d].phase = phaseIdx' /\ phaseIdx' > 0
                   /\ Action(phaseIdx)' # "GroupByTask"
                   /\ walk'[d].limit = NReduce /\ walk'[d].next < NReduce
             /\ pc'[d] = "scan" =>
                   walk'[d].phase <= phaseIdx' /\ walk'[d].limit = NReduce /\ walk'[d].next < NReduce
      BY <1>1, <1>4, <1>5, <1>6, BoundsAssumption DEF Accounts, WalkInv
    <2> QED
      BY <1>8, <2>1, <2>2 DEF WalkInv
  <1>10. ListenerInv'
    BY <1>1, ListenerKept DEF Accounts
  <1>11. \A d \in Clients : /\ pc'[d] # "completeLate"
                            /\ pc'[d] \in {"TaskSuccess", "complete"} =>
                                  pc'[d] = pc[d] /\ hand'[d] = hand[d]
    BY <1>1, <1>5 DEF Accounts
  <1>12. WorkInv'
    BY <1>1, <1>2, <1>11, WorkKept
  <1> QED
    BY <1>3, <1>8, <1>9, <1>10, <1>11, <1>12 DEF Accounts

\* A transition creates the next task of the phase.
LEMMA EnqueueNextAccounts ==
  ASSUME BucketInv, OneMapStage, Accounts, NoMiscount, NEW c \in Clients, EnqueueNext(c)
  PROVE  Accounts'
  <1> DEFINE w     == walk[c]
             chunk == IF w.next \in DOMAIN w.files THEN w.files[w.next] ELSE NoChunk
             n     == NewTask(w.next, chunk, Action(w.phase), w.phase)
  <1>1. TypeOK /\ UniqueInv /\ PhaseInv /\ failedTasks \in Nat
    BY DEF BucketInv, TypeOK, Accounts
  <1>2. /\ EnqueueTask(n) /\ n.TaskId = w.next
        /\ walk' = [walk EXCEPT ![c] = NextId(w)]
        /\ pc[c] = "enqueue"
        /\ pc' = [pc EXCEPT ![c] = IF w.next + 1 = w.limit THEN "advanced" ELSE "enqueue"]
        /\ UNCHANGED <<phaseIdx, incidents, sourceDone, phaseDone, failedTasks, counted, compaction, output,
                       inFlight, srcNext, hand>>
    BY DEF EnqueueNext, NewTask, countVars, storeVars
  <1>3. /\ w.phase = phaseIdx /\ phaseIdx > 0 /\ Action(phaseIdx) # "GroupByTask"
        /\ w.limit = NReduce /\ w.next < NReduce /\ w.next \in Nat /\ phaseIdx < NumStages
        /\ phaseIdx \in Nat
    BY <1>1, <1>2 DEF Accounts, WalkInv, TypeOK, WalkOK
  <1>4. /\ NextId(w).phase = w.phase /\ NextId(w).next = w.next + 1 /\ NextId(w).limit = w.limit
    BY DEF NextId, Walk
  <1> HIDE DEF w, n
  <1>5. ~done /\ PhaseTasks = 0..(NReduce - 1) /\ PhaseTasks' = PhaseTasks
    <2>1. ~done
      BY <1>3, PipelineAssumption DEF done, NumStages
    <2>2. Action(phaseIdx) \in BucketStages /\ phaseTotal = NReduce
      BY <1>1, <1>3, <2>1, TasksOfPhase
    <2>3. phaseTotal' = NReduce
      BY <1>2, <2>1, <2>2 DEF phaseTotal, done, Action
    <2> QED
      BY <2>1, <2>2, <2>3 DEF PhaseTasks
  <1>6. SetsUp(c) /\ NextNew(c) = w.next
    BY <1>2 DEF SetsUp, NextNew, w
  <1>7. w.next \in PhaseTasks /\ w.next \notin LiveIds /\ w.next \notin counted
    <2>1. w.next \in PhaseTasks
      BY <1>3, <1>5, BoundsAssumption
    <2>2. \A id \in LiveIds \cup counted : id < w.next
      BY <1>6 DEF Accounts, WalkInv
    <2> QED
      BY <1>3, <2>1, <2>2
  <1>8. UniqueInv' /\ PhaseInv' /\ LiveIds' = LiveIds \cup {w.next}
    <2>1. Holders' = Holders
      BY <1>1, <1>2 DEF Holders, TypeOK
    <2> QED
      BY <1>1, <1>2, <1>7, <2>1, EnqueueMoves
  <1>9. CountInv'
    BY <1>2, <1>5, <1>7, <1>8 DEF Accounts, CountInv
  <1>10. /\ \A d \in Clients \ {c} : pc'[d] = pc[d] /\ walk'[d] = walk[d]
         /\ \/ pc'[c] = "advanced" /\ w.next + 1 = NReduce
            \/ pc'[c] = "enqueue" /\ w.next + 1 < NReduce
         /\ walk'[c].phase = phaseIdx /\ walk'[c].limit = NReduce /\ walk'[c].next = w.next + 1
    <2>1. \/ pc'[c] = "advanced" /\ w.next + 1 = NReduce
          \/ pc'[c] = "enqueue" /\ w.next + 1 # NReduce
      BY <1>1, <1>2, <1>3 DEF TypeOK
    <2>2. w.next + 1 # NReduce => w.next + 1 < NReduce
      BY <1>3, BoundsAssumption
    <2> QED
      BY <1>1, <1>2, <1>3, <1>4, <2>1, <2>2 DEF TypeOK
  <1>11. done' = done /\ Action(phaseIdx)' = Action(phaseIdx) /\ ~InGroupBy /\ ~InGroupBy'
    BY <1>2, <1>3 DEF done, Action, InGroupBy
  <1>12. \A d \in Clients : SetsUp(d)' => d = c /\ pc'[c] = "enqueue" /\ NextNew(d)' = w.next + 1
    <2>1. \A d \in Clients : SetsUp(d) => d = c
      BY <1>6 DEF Accounts, WalkInv
    <2>2. \A d \in Clients \ {c} : ~SetsUp(d)'
      BY <1>2, <1>10, <1>11, <2>1 DEF SetsUp
    <2>3. SetsUp(c)' => pc'[c] = "enqueue"
      BY <1>10 DEF SetsUp
    <2> QED
      BY <1>10, <2>2, <2>3 DEF NextNew
  <1>13. WalkInv'
    <2>1. \A d \in Clients : pc'[d] = "advance" =>
             /\ walk'[d].phase <= phaseIdx'
             /\ walk'[d].phase = phaseIdx' => ~done' /\ counted' = PhaseTasks' /\ sourceDone'
      BY <1>2, <1>5, <1>10, <1>11 DEF Accounts, WalkInv
    <2>2. \A d \in Clients :
             /\ pc'[d] = "readPhase" => walk'[d].phase < phaseIdx'
             /\ pc'[d] = "enqueue" =>
                   /\ walk'[d].phase = phaseIdx' /\ phaseIdx' > 0
                   /\ Action(phaseIdx)' # "GroupByTask"
                   /\ walk'[d].limit = NReduce /\ walk'[d].next < NReduce
             /\ pc'[d] = "scan" =>
                   walk'[d].phase <= phaseIdx' /\ walk'[d].limit = NReduce /\ walk'[d].next < NReduce
      BY <1>2, <1>3, <1>10, <1>11 DEF Accounts, WalkInv
    <2>3. \A d \in Clients : SetsUp(d)' => \A id \in LiveIds' \cup counted' : id < NextNew(d)'
      <3>1. \A id \in LiveIds \cup counted : id \in Int /\ id < w.next
        <4>1. \A id \in LiveIds \cup counted : id \in Int
          BY <1>5, BoundsAssumption DEF Accounts, CountInv
        <4> QED
          BY <1>6, <4>1 DEF Accounts, WalkInv
      <3>2. \A id \in LiveIds' \cup counted' : id < w.next + 1
        BY <1>2, <1>3, <1>8, <3>1
      <3> QED
        BY <1>12, <3>2
    <2>4. \A d, e \in Clients : SetsUp(d)' /\ SetsUp(e)' => d = e
      BY <1>12
    <2> QED
      BY <2>1, <2>2, <2>3, <2>4 DEF WalkInv
  <1>14. BucketsClaimed'
    BY <1>2, <1>11 DEF Accounts, BucketsClaimed, Action
  <1>15. NoneLost'
    <2> SUFFICES ASSUME incidents = {}, MongoReliable, NEW id \in PhaseTasks' PROVE Found(id)'
      BY <1>2 DEF NoneLost
    <2>1. Found(id) /\ id \in 0..(NReduce - 1)
      BY <1>5 DEF Accounts, NoneLost
    <2>2. id \in counted \cup LiveIds \/ id >= w.next
      BY <1>6, <1>11, <2>1 DEF Found, Accounts, WalkInv
    <2>3. id \in counted' \cup LiveIds' \/ id >= w.next + 1
      BY <1>2, <1>3, <1>8, <2>1, <2>2
    <2>4. CASE id >= w.next + 1
      <3>1. w.next + 1 < NReduce
        BY <1>3, <2>1, <2>4, BoundsAssumption
      <3>2. SetsUp(c)' /\ NextNew(c)' = w.next + 1
        BY <1>3, <1>10, <3>1, BoundsAssumption DEF SetsUp, NextNew
      <3> QED
        BY <2>4, <3>2 DEF Found
    <2> QED
      BY <2>3, <2>4 DEF Found
  <1>16. ListenerInv'
    BY <1>2, <1>3 DEF Accounts, ListenerInv
  <1>17. \A d \in Clients : /\ pc'[d] # "completeLate"
                            /\ pc'[d] \in {"TaskSuccess", "complete"} =>
                                  pc'[d] = pc[d] /\ hand'[d] = hand[d]
    BY <1>2, <1>10 DEF Accounts
  <1>18. WorkInv'
    BY <1>1, <1>2, <1>17, WorkKept
  <1> QED
    BY <1>8, <1>9, <1>13, <1>14, <1>15, <1>16, <1>17, <1>18 DEF Accounts

\* A scan goes on, or ends; a claim may have been recorded without being granted.
LEMMA SkipAccounts ==
  ASSUME BucketInv, OneMapStage, Accounts, NoMiscount, NEW c \in Clients, SkipBucket(c)
  PROVE  Accounts'
  <1> DEFINE w == walk[c]
  <1>1. /\ UNCHANGED <<phaseIdx, incidents, NumTasks, phaseDone, failedTasks, counted, output,
                       srcNext, sourceDone, hand>>
        /\ pc[c] = "scan"
        /\ compaction' = compaction \/ compaction' = compaction \cup {<<w.phase, w.next>>}
        /\ MongoReliable => compaction' = compaction
    BY DEF SkipBucket, fsmVars
  <1>2. TypeOK /\ UniqueInv /\ PhaseInv /\ failedTasks \in Nat
    BY DEF BucketInv, TypeOK, Accounts
  <1>3. UniqueInv' /\ PhaseInv' /\ LiveIds' = LiveIds
    BY <1>2, StillMoves DEF Still
  <1>4. w.phase <= phaseIdx /\ w.limit = NReduce /\ w.next < NReduce /\ w.next \in Nat
        /\ w.phase \in Nat
    BY <1>1, <1>2 DEF Accounts, WalkInv, TypeOK, WalkOK
  <1>5. /\ \A d \in Clients \ {c} : pc'[d] = pc[d] /\ walk'[d] = walk[d]
        /\ \/ pc'[c] = "idle"
           \/ /\ pc'[c] = "scan" /\ walk'[c].phase = w.phase /\ walk'[c].limit = NReduce
              /\ walk'[c].next < NReduce
    <2>1. /\ NextId(w).phase = w.phase /\ NextId(w).next = w.next + 1 /\ NextId(w).limit = w.limit
      BY DEF NextId, Walk
    <2>2. \/ pc' = [pc EXCEPT ![c] = "idle"] /\ walk' = [walk EXCEPT ![c] = NoWalk]
          \/ pc' = pc /\ walk' = [walk EXCEPT ![c] = NextId(w)] /\ w.next + 1 # w.limit
      BY DEF SkipBucket
    <2> HIDE DEF w
    <2>3. w.next + 1 # NReduce => w.next + 1 < NReduce
      BY <1>4, BoundsAssumption
    <2> QED
      BY <1>1, <1>2, <1>4, <2>1, <2>2, <2>3 DEF TypeOK
  <1> HIDE DEF w
  <1>6. /\ done' = done /\ Action(phaseIdx)' = Action(phaseIdx) /\ (InGroupBy' <=> InGroupBy)
        /\ PhaseTasks' = PhaseTasks
    BY <1>1, SameTasks DEF Action
  <1>7. \A d \in Clients : (SetsUp(d)' <=> SetsUp(d)) /\ (SetsUp(d) => NextNew(d)' = NextNew(d))
    BY <1>1, <1>5, <1>6 DEF SetsUp, NextNew
  <1>8. CountInv'
    BY <1>1, <1>3, <1>6 DEF Accounts, CountInv
  <1>9. WalkInv'
    <2>1. \A d \in Clients : SetsUp(d)' => \A id \in LiveIds' \cup counted' : id < NextNew(d)'
      BY <1>1, <1>3, <1>7 DEF Accounts, WalkInv
    <2>2. \A d, e \in Clients : SetsUp(d)' /\ SetsUp(e)' => d = e
      BY <1>7 DEF Accounts, WalkInv
    <2>3. \A d \in Clients : pc'[d] = "advance" =>
             /\ walk'[d].phase <= phaseIdx'
             /\ walk'[d].phase = phaseIdx' => ~done' /\ counted' = PhaseTasks' /\ sourceDone'
      BY <1>1, <1>5, <1>6 DEF Accounts, WalkInv
    <2>4. \A d \in Clients :
             /\ pc'[d] = "readPhase" => walk'[d].phase < phaseIdx'
             /\ pc'[d] = "enqueue" =>
                   /\ walk'[d].phase = phaseIdx' /\ phaseIdx' > 0
                   /\ Action(phaseIdx)' # "GroupByTask"
                   /\ walk'[d].limit = NReduce /\ walk'[d].next < NReduce
             /\ pc'[d] = "scan" =>
                   walk'[d].phase <= phaseIdx' /\ walk'[d].limit = NReduce /\ walk'[d].next < NReduce
      BY <1>1, <1>4, <1>5, <1>6 DEF Accounts, WalkInv
    <2> QED
      BY <2>1, <2>2, <2>3, <2>4 DEF WalkInv
  <1>10. BucketsClaimed'
    <2>1. <<w.phase, w.next>>[1] <= phaseIdx
      BY <1>4
    <2> QED
      BY <1>1, <1>3, <1>6, <2>1 DEF Accounts, BucketsClaimed, Action
  <1>11. NoneLost'
    <2> SUFFICES ASSUME incidents = {}, MongoReliable, NEW id \in PhaseTasks' PROVE Found(id)'
      BY <1>1 DEF NoneLost
    <2>1. Found(id)
      BY <1>6 DEF Accounts, NoneLost
    <2> QED
      BY <1>1, <1>3, <1>6, <1>7, <2>1 DEF Found
  <1>12. ListenerInv'
    BY <1>1, ListenerKept DEF Accounts
  <1>13. \A d \in Clients : /\ pc'[d] # "completeLate"
                            /\ pc'[d] \in {"TaskSuccess", "complete"} =>
                                  pc'[d] = pc[d] /\ hand'[d] = hand[d]
    BY <1>1, <1>5 DEF Accounts
  <1>14. WorkInv'
    BY <1>1, <1>2, <1>13, WorkKept
  <1> QED
    BY <1>3, <1>8, <1>9, <1>10, <1>11, <1>12, <1>13, <1>14 DEF Accounts

\* A claim is of the current phase, since those of the phases before are all taken.
LEMMA ClaimAccounts ==
  ASSUME BucketInv, OneMapStage, Accounts, NoMiscount, NEW c \in Clients, ClaimBucket(c)
  PROVE  Accounts'
  <1> DEFINE w  == walk[c]
             id == w.next
  <1>1. /\ UNCHANGED <<phaseIdx, incidents, NumTasks, phaseDone, failedTasks, counted, output,
                       srcNext, sourceDone>>
        /\ pc[c] = "scan" /\ pc' = [pc EXCEPT ![c] = "dispatch"]
        /\ walk' = [walk EXCEPT ![c] = NoWalk]
        /\ <<w.phase, id>> \notin compaction
        /\ compaction' = compaction \cup {<<w.phase, id>>}
        /\ \E t : hand' = [hand EXCEPT ![c] = t]
    BY DEF ClaimBucket, Claimable, fsmVars
  <1>2. TypeOK /\ UniqueInv /\ PhaseInv /\ failedTasks \in Nat /\ phaseIdx \in Nat
    BY DEF BucketInv, TypeOK, Accounts
  <1>3. /\ w.phase <= phaseIdx /\ id < NReduce /\ id \in Nat
        /\ w.phase \in Nat /\ w.phase < NumStages /\ Action(w.phase) = "GroupByTask"
    BY <1>1, <1>2 DEF Accounts, WalkInv, TypeOK, WalkOK, BucketInv, PoolInv
  <1> HIDE DEF w, id
  <1>4. id \in 0..(NReduce - 1)
    BY <1>3, BoundsAssumption
  <1>5. w.phase = phaseIdx /\ InGroupBy
    <2>1. w.phase = phaseIdx
      <3> SUFFICES ASSUME w.phase # phaseIdx PROVE FALSE
        OBVIOUS
      <3>1. w.phase \in 0..(phaseIdx - 1)
        BY <1>2, <1>3
      <3>2. <<w.phase, id>> \in compaction
        BY <1>3, <1>4, <3>1 DEF Accounts, BucketsClaimed
      <3> QED
        BY <1>1, <3>2
    <2>2. ~done
      BY <1>3, <2>1, PipelineAssumption DEF done, NumStages
    <2> QED
      BY <1>3, <2>1, <2>2 DEF InGroupBy
  <1>6. PhaseTasks = 0..(NReduce - 1)
    BY <1>2, <1>5, TasksOfPhase DEF InGroupBy, PhaseTasks
  <1>7. id \notin LiveIds /\ id \notin counted
    BY <1>1, <1>5 DEF Accounts, BucketsClaimed
  <1>8. UniqueInv' /\ PhaseInv' /\ LiveIds' = LiveIds \cup {id}
    BY <1>2, <1>5, <1>7, ClaimMoves DEF w, id
  <1>9. /\ done' = done /\ Action(phaseIdx)' = Action(phaseIdx) /\ InGroupBy'
        /\ PhaseTasks' = PhaseTasks
    BY <1>1, <1>5, SameTasks DEF Action
  <1>10. CountInv'
    BY <1>1, <1>4, <1>6, <1>7, <1>8, <1>9 DEF Accounts, CountInv
  <1>11. /\ \A d \in Clients \ {c} : pc'[d] = pc[d] /\ walk'[d] = walk[d] /\ hand'[d] = hand[d]
         /\ pc'[c] = "dispatch"
    BY <1>1, <1>2 DEF TypeOK
  <1>12. \A d \in Clients : ~SetsUp(d)'
    <2>1. \A d \in Clients : pc[d] # "enqueue"
      BY <1>5 DEF Accounts, WalkInv, InGroupBy
    <2> QED
      BY <1>9, <1>11, <2>1 DEF SetsUp, InGroupBy
  <1>13. WalkInv'
    <2>1. \A d \in Clients : pc'[d] = "advance" =>
             /\ walk'[d].phase <= phaseIdx'
             /\ walk'[d].phase = phaseIdx' => ~done' /\ counted' = PhaseTasks' /\ sourceDone'
      BY <1>1, <1>9, <1>11 DEF Accounts, WalkInv
    <2>2. \A d \in Clients :
             /\ pc'[d] = "readPhase" => walk'[d].phase < phaseIdx'
             /\ pc'[d] = "enqueue" =>
                   /\ walk'[d].phase = phaseIdx' /\ phaseIdx' > 0
                   /\ Action(phaseIdx)' # "GroupByTask"
                   /\ walk'[d].limit = NReduce /\ walk'[d].next < NReduce
             /\ pc'[d] = "scan" =>
                   walk'[d].phase <= phaseIdx' /\ walk'[d].limit = NReduce /\ walk'[d].next < NReduce
      BY <1>1, <1>9, <1>11 DEF Accounts, WalkInv
    <2> QED
      BY <1>12, <2>1, <2>2 DEF WalkInv
  <1>14. BucketsClaimed'
    <2>1. <<w.phase, id>>[1] <= phaseIdx
      BY <1>3
    <2> QED
      BY <1>1, <1>5, <1>8, <1>9, <2>1 DEF Accounts, BucketsClaimed, Action
  <1>15. NoneLost'
    <2> SUFFICES ASSUME incidents = {}, MongoReliable, NEW i \in PhaseTasks' PROVE Found(i)'
      BY <1>1 DEF NoneLost
    <2>1. Found(i)
      BY <1>9 DEF Accounts, NoneLost
    <2>2. i \in counted \cup LiveIds \/ <<phaseIdx, i>> \notin compaction
      <3>1. \A d \in Clients : ~SetsUp(d)
        BY <1>5 DEF Accounts, WalkInv, InGroupBy, SetsUp
      <3> QED
        BY <2>1, <3>1 DEF Found
    <2>3. i \in counted' \cup LiveIds' \/ <<phaseIdx', i>> \notin compaction'
      BY <1>1, <1>5, <1>8, <2>2
    <2> QED
      BY <1>9, <2>3 DEF Found
  <1>16. ListenerInv'
    BY <1>1, ListenerKept DEF Accounts
  <1>17. \A d \in Clients : /\ pc'[d] # "completeLate"
                            /\ pc'[d] \in {"TaskSuccess", "complete"} =>
                                  pc'[d] = pc[d] /\ hand'[d] = hand[d]
    BY <1>11 DEF Accounts
  <1>18. WorkInv'
    BY <1>1, <1>2, <1>17, WorkKept
  <1> QED
    BY <1>8, <1>10, <1>13, <1>14, <1>15, <1>16, <1>17, <1>18 DEF Accounts

\* A failure is reported and its task dropped: it is miscounted nowhere.
LEMMA FailAccounts ==
  ASSUME BucketInv, OneMapStage, Accounts, NoMiscount, NEW c \in Clients, FailTask(c)
  PROVE  Accounts'
  <1>1. TypeOK /\ UniqueInv /\ PhaseInv /\ failedTasks \in Nat /\ phaseDone \in Nat
    BY DEF BucketInv, TypeOK, Accounts
  <1>2. /\ Reported(c) = {} /\ "LostFailure" \in incidents'
        /\ UniqueInv' /\ PhaseInv' /\ NoneNew
    BY <1>1, FailMoves
  <1>3. UNCHANGED <<phaseDone, failedTasks, counted>>
    <2> DEFINE gone == {t \in {} : Exhausted(t)}
    <2>1. gone = {} /\ Ids(gone) = {} /\ Cardinality(gone) = 0
      BY FS_EmptySet DEF Ids
    <2>2. /\ failedTasks' = failedTasks + Cardinality(gone)
          /\ phaseDone' = phaseDone + Cardinality(gone)
          /\ counted' = counted \cup Ids(gone)
      BY <1>2 DEF FailTask, GiveUpOrRequeue
    <2> HIDE DEF gone
    <2> QED
      BY <1>1, <2>1, <2>2
  <1>4. /\ UNCHANGED <<phaseIdx, NumTasks, compaction, output, srcNext, sourceDone, walk>>
        /\ pc[c] = "fail" /\ pc' = [pc EXCEPT ![c] = "idle"]
        /\ \A d \in Clients \ {c} : hand'[d] = hand[d]
    BY <1>1 DEF FailTask, Forget, storeVars, TypeOK
  <1>5. LiveIds' \subseteq LiveIds
    BY <1>2 DEF NoneNew, LiveIds, Ids, Same
  <1>6. PhaseTasks' = PhaseTasks
    BY <1>4, SameTasks
  <1>7. CountInv'
    BY <1>3, <1>5, <1>6 DEF Accounts, CountInv
  <1>8. \A d \in Clients :
           /\ pc'[d] \in {"advance", "readPhase", "enqueue", "scan"} =>
                 pc'[d] = pc[d] /\ walk'[d] = walk[d]
           /\ pc[d] \in {"readPhase", "enqueue"} => pc'[d] = pc[d]
           /\ pc'[d] # "completeLate"
           /\ pc'[d] \in {"TaskSuccess", "complete"} => pc'[d] = pc[d] /\ hand'[d] = hand[d]
    BY <1>1, <1>4 DEF TypeOK, Accounts
  <1>9. WalkInv' /\ BucketsClaimed'
    <2>1. LiveIds' \cup counted' \subseteq LiveIds \cup counted /\ counted \subseteq counted'
      BY <1>3, <1>5
    <2> QED
      BY <1>1, <1>4, <1>6, <1>7, <1>8, <2>1, WalksKept
  <1>10. NoneLost'
    BY <1>2 DEF NoneLost
  <1>11. ListenerInv'
    BY <1>4, ListenerKept DEF Accounts
  <1>12. WorkInv'
    BY <1>1, <1>3, <1>4, <1>8, WorkKept
  <1> QED
    BY <1>2, <1>7, <1>8, <1>9, <1>10, <1>11, <1>12 DEF Accounts

(***************************************************************************)
(* The accounts, step by step                                              *)
(***************************************************************************)
\* An incident is never forgotten.
LEMMA IncidentsGrow == ASSUME [Next]_vars PROVE incidents \subseteq incidents'
  BY DEF Next, Listener, StoreChunk, EnqueueChunk, SourceExhausted, Sweep, ClientStep, Poll,
         Transition, Compact, Report, Shutdown, TakeTask, FindPhaseComplete, StartScan,
         DispatchTask, AdvancePhase, ReadNextPhase, EnqueueNext, EndTransition, SkipBucket,
         ClaimBucket, Execute, Abandon, IgnoreReport, AcceptReport, AcceptLateSuccess,
         CompleteTask, MarkReduceDone, FailTask, ContinueTask, vars

\* The accounts are kept by every step that miscounts nothing.
LEMMA AccountsStep ==
  ASSUME BucketInv, OneMapStage, Accounts, NoMiscount', Next
  PROVE  Accounts'
  <1>1. NoMiscount
    BY IncidentsGrow DEF NoMiscount
  <1>2. CASE Listener \/ Sweep
    BY <1>1, <1>2, StoreAccounts, EnqueueChunkAccounts, SweepAccounts DEF Listener
  <1>3. ASSUME NEW c \in Clients, ClientStep(c) \/ Abandon(c) PROVE Accounts'
    <2>1. CASE Poll(c) \/ DispatchTask(c) \/ Execute(c) \/ Abandon(c)
      BY <1>1, <2>1, StayAccounts, BeginAccounts, ExecuteAccounts DEF Poll
    <2>2. CASE Transition(c) \/ Compact(c)
      BY <1>1, <2>2, AdvanceAccounts, ReadAccounts, EnqueueNextAccounts, StayAccounts,
         SkipAccounts, ClaimAccounts DEF Transition, Compact
    <2>3. CASE Report(c)
      <3>1. ~AcceptLateSuccess(c)
        BY DEF AcceptLateSuccess, NoMiscount
      <3> QED
        BY <1>1, <2>3, <3>1, AcceptAccounts, CompleteAccounts, FailAccounts, StayAccounts
        DEF Report
    <2> QED
      BY <1>3, <2>1, <2>2, <2>3 DEF ClientStep
  <1> QED
    BY <1>2, <1>3 DEF Next

\* A step that changes nothing changes no account.
LEMMA AccountsStay ==
  ASSUME Accounts, UNCHANGED vars
  PROVE  Accounts'
  <1>1. /\ UNCHANGED <<phaseIdx, phaseDone, failedTasks, NumTasks, sourceDone, JobStatus,
                       inFlight, srcNext, pc, hand, walk, compaction, output, counted, incidents>>
        /\ Holders' = Holders
    BY DEF vars, fsmVars, storeVars, Holders
  <1>2. /\ InHand' = InHand /\ Live' = Live /\ LiveIds' = LiveIds
        /\ phaseTotal' = phaseTotal /\ PhaseTasks' = PhaseTasks
        /\ done' = done /\ (InGroupBy' <=> InGroupBy)
    BY <1>1 DEF InHand, Live, LiveIds, phaseTotal, PhaseTasks, done, InGroupBy, Action
  <1>3. UniqueInv' /\ PhaseInv' /\ CountInv' /\ ListenerInv' /\ BucketsClaimed'
    BY <1>1, <1>2 DEF Accounts, UniqueInv, PhaseInv, CountInv, ListenerInv, BucketsClaimed,
       Action
  <1>4. \A c \in Clients : (SetsUp(c)' <=> SetsUp(c)) /\ NextNew(c)' = NextNew(c)
    BY <1>1, <1>2 DEF SetsUp, NextNew, Action
  <1>5. WalkInv'
    BY <1>1, <1>2, <1>4 DEF Accounts, WalkInv, Action
  <1>6. NoneLost'
    BY <1>1, <1>2, <1>4 DEF Accounts, NoneLost, Found
  <1>7. WorkInv'
    BY <1>1, <1>2 DEF Accounts, WorkInv, WorkDone, Stage, Bucket, Action, NoMiscount
  <1> QED
    BY <1>1, <1>3, <1>5, <1>6, <1>7 DEF Accounts

\* AccountInv is inductive.
LEMMA AccountStep == AccountInv /\ [Next]_vars => AccountInv'
  <1> SUFFICES ASSUME AccountInv, [Next]_vars PROVE AccountInv'
    OBVIOUS
  <1>1. BucketInv'
    BY BucketStep DEF AccountInv
  <1>2. ASSUME NoMiscount', OneMapStage PROVE Accounts'
    <2>1. NoMiscount
      BY <1>2, IncidentsGrow DEF NoMiscount
    <2>2. Accounts /\ BucketInv
      BY <1>2, <2>1 DEF AccountInv
    <2> QED
      BY <1>2, <2>2, AccountsStep, AccountsStay
  <1> QED
    BY <1>1, <1>2 DEF AccountInv, OneMapStage, Action

\* It holds when the coordinator starts.
LEMMA AccountInit == Init => AccountInv
  <1> SUFFICES ASSUME Init, OneMapStage PROVE Accounts
    BY BucketInit DEF AccountInv
  <1>1. /\ Live = {} /\ LiveIds = {} /\ Holders = {} /\ UniqueInv
    BY NothingAlive
  <1>2. /\ phaseIdx = 0 /\ phaseDone = 0 /\ failedTasks = 0 /\ NumTasks = 0 /\ srcNext = 0
        /\ sourceDone = FALSE /\ counted = {} /\ compaction = {} /\ inFlight = {}
        /\ \A c \in Clients : pc[c] = "idle"
    BY DEF Init
  <1>3. ~done /\ Action(phaseIdx) = "MapTask" /\ phaseTotal = 0 /\ PhaseTasks = {}
    <2>1. ~done
      BY <1>2, PipelineAssumption DEF done, NumStages
    <2>2. phaseTotal = 0
      BY <1>2, <2>1 DEF OneMapStage, phaseTotal, BucketStages
    <2> QED
      BY <1>2, <2>1, <2>2 DEF OneMapStage, PhaseTasks
  <1>4. CountInv
    BY <1>1, <1>2, FS_EmptySet DEF CountInv
  <1>5. PhaseInv /\ ListenerInv
    BY <1>1, <1>2 DEF PhaseInv, InHand, ListenerInv
  <1>6. WalkInv
    BY <1>2 DEF WalkInv, SetsUp
  <1>7. BucketsClaimed
    BY <1>2, <1>3 DEF BucketsClaimed, InGroupBy
  <1>8. WorkInv
    <2>1. {id \in counted : <<phaseIdx, id>> \notin output} = {}
      BY <1>2
    <2>2. WorkDone
      BY <1>2, <2>1, FS_EmptySet DEF WorkDone
    <2> QED
      BY <1>2, <2>2 DEF WorkInv
  <1> QED
    BY <1>1, <1>2, <1>3, <1>4, <1>5, <1>6, <1>7, <1>8 DEF Accounts, NoneLost

(***************************************************************************)
(* What follows                                                            *)
(***************************************************************************)
\* However sweeps, reports and transitions interleave, phaseDone counts each task of
\* its phase once and no other task.
THEOREM TasksAreCountedOnce == Spec => []CountedOnce
  <1>1. AccountInv => CountedOnce
    BY DEF AccountInv, Accounts, CountInv, CountedOnce
  <1> QED
    BY <1>1, AccountInit, AccountStep, PTL DEF Spec

\* Every task of the phase that is not counted is queued, in flight, held by one
\* handler or still to be created: nothing the phase waits for has vanished.
THEOREM NoTaskIsLost == Spec => []NoTaskLost
  <1>1. AccountInv => NoTaskLost
    <2> SUFFICES ASSUME AccountInv, incidents = {}, OneMapStage, MongoReliable,
                        NEW id \in PhaseTasks,
                        id \notin counted \cup LiveIds
                 PROVE  id \in Uncreated
      BY DEF NoTaskLost, LiveIds, Live
    <2>1. Accounts /\ TypeOK
      BY DEF AccountInv, BucketInv, NoMiscount
    <2>2. Found(id)
      BY <2>1 DEF Accounts, NoneLost
    <2>3. CASE InGroupBy /\ <<phaseIdx, id>> \notin compaction
      BY <2>3 DEF Uncreated, InGroupBy
    <2>4. ASSUME NEW c \in Clients, SetsUp(c), id >= NextNew(c)
          PROVE  id \in Uncreated
      <3>1. CASE pc[c] = "readPhase"
        BY <3>1 DEF Uncreated
      <3>2. CASE pc[c] = "enqueue"
        <4>1. /\ phaseIdx > 0 /\ walk[c].limit = NReduce /\ walk[c].next \in Nat
              /\ phaseIdx < NumStages /\ id >= walk[c].next
          BY <2>1, <2>4, <3>2 DEF Accounts, WalkInv, TypeOK, WalkOK, NextNew
        <4>2. ~done
          BY <2>1, <4>1, PipelineAssumption DEF done, TypeOK, NumStages
        <4>3. PhaseTasks = 0..(NReduce - 1)
          BY <2>1, <4>1, <4>2, TasksOfPhase DEF PhaseTasks
        <4>4. id \in walk[c].next..(walk[c].limit - 1)
          BY <4>1, <4>3, BoundsAssumption
        <4> QED
          BY <3>2, <4>4 DEF Uncreated
      <3> QED
        BY <2>4, <3>1, <3>2 DEF SetsUp
    <2> QED
      BY <2>2, <2>3, <2>4 DEF Found
  <1> QED
    BY <1>1, AccountInit, AccountStep, PTL DEF Spec

\* In a stage of the worker pool a task counted as done has left its output, save
\* those given up on: an execution that reports success has left its output, and is
\* counted only in its phase.
THEOREM WorkIsDone == Spec => []WorkDone
  <1>1. AccountInv => WorkDone
    BY DEF AccountInv, Accounts, WorkInv, WorkDone
  <1> QED
    BY <1>1, AccountInit, AccountStep, PTL DEF Spec

\* No phase boundary falls between NoticeResult's phase guard and the completion
\* that a later critical section applies.
THEOREM CountedInPhase == Spec => CountedInItsPhase
  <1> DEFINE InPhaseStep == \A c \in Clients : CompleteTask(c) /\ NoMiscount' /\ OneMapStage =>
                               hand[c].PhaseIdx = phaseIdx
  <1>1. AccountInv /\ [Next]_vars => [InPhaseStep]_vars
    <2> SUFFICES ASSUME AccountInv, [Next]_vars, NEW c \in Clients, CompleteTask(c),
                        NoMiscount', OneMapStage
                 PROVE  hand[c].PhaseIdx = phaseIdx
      OBVIOUS
    <2>1. NoMiscount
      BY IncidentsGrow DEF NoMiscount
    <2> QED
      BY <2>1, CompleteAccounts DEF AccountInv
  <1> QED
    BY <1>1, AccountInit, AccountStep, PTL DEF Spec, CountedInItsPhase

(***************************************************************************)
(* The phases of the job                                                   *)
(***************************************************************************)
\* A task of the phase is a task of its stage.
LEMMA PhaseTasksOfStage ==
  ASSUME TypeOK, OneMapStage, ListenerInv
  PROVE  /\ PhaseTasks \subseteq (IF done THEN {} ELSE StageTasks[phaseIdx])
         /\ sourceDone /\ ~done => PhaseTasks = StageTasks[phaseIdx]
  <1>1. phaseIdx \in Nat /\ (done => PhaseTasks = {})
    BY TasksOfPhase DEF TypeOK
  <1>2. ASSUME ~done
        PROVE  /\ PhaseTasks \subseteq StageTasks[phaseIdx]
               /\ sourceDone => PhaseTasks = StageTasks[phaseIdx]
    <2>1. phaseIdx \in 0..(NumStages - 1)
      BY <1>1, <1>2, PipelineAssumption DEF done, NumStages
    <2>2. CASE phaseIdx = 0
      <3>1. StageTasks[phaseIdx] = 0..(NumChunks - 1)
        BY <2>1, <2>2 DEF StageTasks, OneMapStage, BucketStages
      <3>2. PhaseTasks = 0..(NumTasks - 1) /\ NumTasks = srcNext
        BY <2>2, TasksOfPhase DEF PhaseTasks, ListenerInv
      <3>3. srcNext \in 0..NumChunks /\ (sourceDone => srcNext = NumChunks)
        BY DEF TypeOK, ListenerInv
      <3> QED
        BY <3>1, <3>2, <3>3, BoundsAssumption
    <2>3. CASE phaseIdx > 0
      BY <1>2, <2>1, <2>3, TasksOfPhase DEF StageTasks, PhaseTasks
    <2> QED
      BY <2>1, <2>2, <2>3
  <1> QED
    BY <1>1, <1>2

\* Ids that were alive finish, as the abstract job's tasks do.
LEMMA IdsFinish ==
  ASSUME BucketInv, OneMapStage, Accounts, NEW S, S \subseteq LiveIds,
         phaseIdx' = phaseIdx, counted' = counted \cup S
  PROVE  [Job!Next]_<<phaseIdx, counted>>
  <1>1. S \subseteq PhaseTasks \ counted
    BY DEF Accounts, CountInv
  <1>2. S = {} => UNCHANGED <<phaseIdx, counted>>
    OBVIOUS
  <1>3. ASSUME S # {} PROVE Job!Finish
    <2>1. PhaseTasks \subseteq (IF done THEN {} ELSE StageTasks[phaseIdx])
      BY PhaseTasksOfStage DEF BucketInv, Accounts
    <2>2. ~done
      BY <1>1, <1>3, <2>1
    <2>3. S \in (SUBSET (StageTasks[phaseIdx] \ counted)) \ {{}}
      BY <1>1, <1>3, <2>1, <2>2
    <2>4. phaseIdx < NumStages
      BY <2>2, PipelineAssumption DEF done, BucketInv, TypeOK, NumStages
    <2> QED
      BY <2>3, <2>4 DEF Job!Finish
  <1> QED
    BY <1>2, <1>3 DEF Job!Next

\* Every step that miscounts nothing is one of the job, or changes nothing of it.
LEMMA JobStep ==
  ASSUME AccountInv, OneMapStage, NoMiscount', [Next]_vars
  PROVE  [Job!Next]_<<phaseIdx, counted>>
  <1>1. NoMiscount
    BY IncidentsGrow DEF NoMiscount
  <1>2. /\ BucketInv /\ Accounts /\ TypeOK /\ UniqueInv
        /\ PhaseTasks \subseteq (IF done THEN {} ELSE StageTasks[phaseIdx])
    BY <1>1, PhaseTasksOfStage DEF AccountInv, Accounts, BucketInv
  <1>3. ASSUME NEW c \in Clients, AdvancePhase(c)
        PROVE  [Job!Next]_<<phaseIdx, counted>>
    <2>1. ~done /\ counted = PhaseTasks /\ sourceDone
      BY <1>2, <1>3, AdvanceAccounts
    <2>2. PhaseTasks = StageTasks[phaseIdx]
      BY <1>2, <2>1, PhaseTasksOfStage DEF Accounts
    <2>3. phaseIdx' = phaseIdx + 1 /\ counted' = {}
      BY <1>3 DEF AdvancePhase
    <2>4. phaseIdx < NumStages
      BY <1>2, <2>1, PipelineAssumption DEF done, TypeOK, NumStages
    <2> QED
      BY <2>1, <2>2, <2>3, <2>4 DEF Job!Next, Job!Advance
  <1>4. ASSUME NEW c \in Clients, CompleteTask(c)
        PROVE  [Job!Next]_<<phaseIdx, counted>>
    <2>1. pc[c] = "complete"
      BY <1>2, <1>4 DEF CompleteTask, Accounts
    <2>2. {hand[c].TaskId} \subseteq LiveIds
      BY <1>2, <1>4, <2>1, CompleteMoves
    <2>3. counted' = counted \cup {hand[c].TaskId} /\ phaseIdx' = phaseIdx
      BY <1>4 DEF CompleteTask
    <2> QED
      BY <1>2, <2>2, <2>3, IdsFinish
  <1>5. CASE Sweep
    <2>1. PICK late \in SUBSET inFlight :
             counted' = counted \cup Ids({t \in late : Exhausted(t)}) /\ phaseIdx' = phaseIdx
      BY <1>5 DEF Sweep, GiveUpOrRequeue
    <2>2. Ids({t \in late : Exhausted(t)}) \subseteq LiveIds
      BY DEF LiveIds, Ids, Live
    <2> QED
      BY <1>2, <2>1, <2>2, IdsFinish
  <1>6. ASSUME NEW c \in Clients, FailTask(c)
        PROVE  UNCHANGED <<phaseIdx, counted>>
    <2>1. Reported(c) = {}
      BY <1>2, <1>6, FailMoves
    <2> QED
      BY <1>6, <2>1 DEF FailTask, GiveUpOrRequeue, Ids
  <1>7. ASSUME NEW c \in Clients, ClientStep(c) \/ Abandon(c),
               ~(AdvancePhase(c) \/ CompleteTask(c) \/ FailTask(c))
        PROVE  UNCHANGED <<phaseIdx, counted>>
    BY <1>7 DEF ClientStep, Poll, Transition, Compact, Report, Shutdown, TakeTask,
       FindPhaseComplete, StartScan, DispatchTask, ReadNextPhase, EnqueueNext, EndTransition,
       SkipBucket, ClaimBucket, Execute, Abandon, IgnoreReport, AcceptReport,
       AcceptLateSuccess, MarkReduceDone, ContinueTask, fsmVars, countVars
  <1>8. CASE Listener \/ UNCHANGED vars
    BY <1>8 DEF Listener, StoreChunk, EnqueueChunk, SourceExhausted, vars, fsmVars, countVars
  <1> QED
    BY <1>3, <1>4, <1>5, <1>6, <1>7, <1>8 DEF Next

\* The check that a phase is complete and the CmdAdvancePhase that follows it, in
\* another critical section, speak of the same phase in the same state: phaseIdx
\* moves by one, and only when every task of the phase is counted.
THEOREM PhasesAreInOrder == Spec => PhasesInOrder
  <1>1. AccountInv /\ [Next]_vars =>
           [NoMiscount' /\ OneMapStage => [Job!Next]_<<phaseIdx, counted>>]_vars
    BY JobStep
  <1> QED
    BY <1>1, AccountInit, AccountStep, PTL DEF Spec, PhasesInOrder

\* The coordinator implements the abstract job, in every behaviour that miscounts
\* nothing.
THEOREM JobIsPhased ==
  Spec /\ [](NoMiscount /\ OneMapStage) => ImplementsPhasedJob
  <1>1. Init => Job!Init
    BY DEF Init, Job!Init
  <1>2. AccountInv /\ (NoMiscount /\ OneMapStage) /\ (NoMiscount /\ OneMapStage)' /\ [Next]_vars
           => [Job!Next]_<<phaseIdx, counted>>
    BY JobStep
  <1> QED
    BY <1>1, <1>2, AccountInit, AccountStep, PTL DEF Spec, ImplementsPhasedJob, Job!Spec

(***************************************************************************)
(* One execution of a task at a time                                       *)
(***************************************************************************)
\* What is executed stays in flight when nothing of it is taken out.
LEMMA ExecutedKept ==
  ASSUME ExecInv, inFlight \subseteq inFlight',
         \A c \in Clients : Executing(c)' => Executing(c) /\ hand'[c] = hand[c]
  PROVE  ExecInv'
  BY DEF ExecInv

\* The sweeper takes out only what nobody works on, a report only its own record, a
\* completion none at all, and a transition finds nothing in flight.
LEMMA ExecStep ==
  ASSUME Slow = {}, BucketInv, OneMapStage, Accounts, NoMiscount', ExecInv, Next
  PROVE  ExecInv'
  <1>1. TypeOK /\ UniqueInv /\ TokenInv
    BY DEF BucketInv, Accounts
  <1>2. CASE Listener
    BY <1>2, ExecutedKept DEF Listener, StoreChunk, EnqueueChunk, SourceExhausted, Executing
  <1>3. CASE Sweep
    <2>1. PICK late \in SUBSET inFlight : /\ \A t \in late : ~OnTime(t)
                                          /\ inFlight' = inFlight \ late
                                          /\ UNCHANGED <<pc, hand>>
      BY <1>3 DEF Sweep, TakeOut
    <2>2. \A c \in Clients : Executing(c) => hand[c] \notin late
      BY <2>1 DEF OnTime, Executing
    <2> QED
      BY <2>1, <2>2 DEF ExecInv, Executing
  <1>4. ASSUME NEW c \in Clients, ClientStep(c) \/ Abandon(c)
        PROVE  ExecInv'
    <2>1. CASE DispatchTask(c)
      <3>1. c \in Holders /\ pc' = [pc EXCEPT ![c] = "run"] /\ hand' = hand
        BY <2>1 DEF DispatchTask, Holders
      <3>2. WithId(inFlight, hand[c].TaskId) = {}
        BY <1>1, <3>1 DEF WithId, UniqueInv
      <3>3. inFlight' = inFlight \cup {hand[c]}
        BY <2>1, <3>2 DEF DispatchTask
      <3>4. \A d \in Clients \ {c} : Executing(d)' => Executing(d)
        BY <1>1, <3>1 DEF Executing, TypeOK
      <3> QED
        BY <3>1, <3>3, <3>4 DEF ExecInv
    <2>2. CASE AcceptReport(c)
      <3>1. PICK t \in inFlight : /\ t.TaskId = hand[c].TaskId
                                  /\ t.DispatchedAt = hand[c].DispatchedAt
                                  /\ inFlight' = inFlight \ {t}
                                  /\ hand' = [hand EXCEPT ![c] = t]
        BY <2>2 DEF AcceptReport, Superseded, Reported, WithId, Evict
      <3>2. /\ pc[c] \in Results
            /\ \E where \in {"complete", "fail", "continue"} : pc' = [pc EXCEPT ![c] = where]
        BY <2>2 DEF AcceptReport
      <3>3. ~Executing(c)' /\ \A d \in Clients \ {c} : (Executing(d)' <=> Executing(d)) /\ hand'[d] = hand[d]
        BY <1>1, <3>1, <3>2 DEF Executing, Results, TypeOK
      <3>4. \A d \in Clients \ {c} : Executing(d) => hand[d] # t
        BY <1>1, <3>1, <3>2 DEF TokenInv, Holding, Executing
      <3> QED
        BY <3>1, <3>3, <3>4 DEF ExecInv
    <2>3. CASE AdvancePhase(c)
      <3>1. counted = PhaseTasks
        BY <2>3, AdvanceAccounts
      <3>2. inFlight = {}
        BY <3>1 DEF Accounts, CountInv, LiveIds, Ids, Live
      <3>3. pc' = [pc EXCEPT ![c] = "readPhase"] /\ inFlight' = {} /\ hand' = hand
        BY <2>3 DEF AdvancePhase
      <3>4. \A d \in Clients : Executing(d)' => Executing(d) /\ hand'[d] = hand[d]
        BY <1>1, <3>3 DEF Executing, Results, TypeOK
      <3> QED
        BY <3>2, <3>3, <3>4, ExecutedKept
    <2>4. CASE CompleteTask(c)
      <3>1. pc[c] = "complete" /\ c \in Holders
        BY <2>4 DEF CompleteTask, Accounts, Holders
      <3>2. inFlight' = inFlight
        BY <1>1, <2>4, <3>1 DEF CompleteTask, WithId, UniqueInv
      <3>3. \A d \in Clients : Executing(d)' => Executing(d) /\ hand'[d] = hand[d]
        BY <1>1, <2>4 DEF CompleteTask, Forget, Executing, Results, TypeOK
      <3> QED
        BY <3>2, <3>3, ExecutedKept
    <2>5. CASE FailTask(c)
      <3>1. inFlight' = inFlight
        BY <1>1, <2>5, FailMoves DEF FailTask
      <3>2. \A d \in Clients : Executing(d)' => Executing(d) /\ hand'[d] = hand[d]
        BY <1>1, <2>5 DEF FailTask, Forget, Executing, Results, TypeOK
      <3> QED
        BY <3>1, <3>2, ExecutedKept
    <2>6. CASE \/ Poll(c) \/ ReadNextPhase(c) \/ EnqueueNext(c) \/ EndTransition(c)
               \/ Compact(c) \/ Execute(c) \/ Abandon(c)
               \/ IgnoreReport(c) \/ AcceptLateSuccess(c) \/ MarkReduceDone(c) \/ ContinueTask(c)
      <3>1. inFlight' = inFlight
        BY <2>6 DEF Poll, Compact, Shutdown, TakeTask, FindPhaseComplete, StartScan,
           ReadNextPhase, EnqueueNext, EndTransition, SkipBucket, ClaimBucket, Execute, Abandon,
           IgnoreReport, AcceptLateSuccess, MarkReduceDone, ContinueTask, fsmVars
      <3>2. \A d \in Clients : Executing(d)' => Executing(d) /\ hand'[d] = hand[d]
        BY <1>1, <2>6 DEF Poll, Compact, Shutdown, TakeTask, FindPhaseComplete, StartScan,
           ReadNextPhase, EnqueueNext, EndTransition, SkipBucket, ClaimBucket, Execute, Abandon,
           IgnoreReport, AcceptLateSuccess, MarkReduceDone, ContinueTask, Forget, Executing,
           Results, TypeOK
      <3> QED
        BY <3>1, <3>2, ExecutedKept
    <2> QED
      BY <1>4, <2>1, <2>2, <2>3, <2>4, <2>5, <2>6 DEF ClientStep, Transition, Report
  <1> QED
    BY <1>2, <1>3, <1>4 DEF Next

\* The accounts, and what is executed.
ExecutionInv == Slow = {} /\ NoMiscount /\ OneMapStage => ExecInv

\* When no client outlives the timeout, the sweeper re-dispatches only what nobody
\* works on any more: a task is executed by one client at a time.
THEOREM ExecutionIsExclusive == Spec => [](Slow = {} => ExclusiveExecution)
  <1>1. Init => ExecutionInv
    BY DEF Init, ExecutionInv, ExecInv, Executing, Results
  <1>2. AccountInv /\ ExecutionInv /\ [Next]_vars => ExecutionInv'
    <2> SUFFICES ASSUME AccountInv, ExecutionInv, [Next]_vars, Slow = {}, NoMiscount', OneMapStage
                 PROVE  ExecInv'
      BY DEF ExecutionInv, OneMapStage, Action
    <2>1. NoMiscount
      BY IncidentsGrow DEF NoMiscount
    <2>2. ExecInv /\ BucketInv /\ Accounts
      BY <2>1 DEF AccountInv, ExecutionInv
    <2>3. CASE Next
      BY <2>2, <2>3, ExecStep
    <2>4. CASE UNCHANGED vars
      BY <2>2, <2>4 DEF ExecInv, Executing, vars, fsmVars
    <2> QED
      BY <2>3, <2>4
  <1>3. AccountInv /\ ExecutionInv => (Slow = {} => ExclusiveExecution)
    <2> SUFFICES ASSUME AccountInv, ExecutionInv, Slow = {}, NoMiscount, OneMapStage,
                        NEW c \in Clients, NEW d \in Clients, Executing(c), Executing(d),
                        hand[c].TaskId = hand[d].TaskId
                 PROVE  c = d
      BY DEF ExclusiveExecution
    <2>1. hand[c] \in inFlight /\ hand[d] \in inFlight
      BY DEF ExecutionInv, ExecInv
    <2>2. hand[c] = hand[d]
      BY <2>1 DEF AccountInv, Accounts, UniqueInv
    <2> QED
      BY <2>2 DEF AccountInv, BucketInv, TokenInv, Holding
  <1> QED
    BY <1>1, <1>2, <1>3, AccountInit, AccountStep, PTL DEF Spec
==============================================================================
