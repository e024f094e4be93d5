------------------------- MODULE CoordinatorHolders -------------------------
(***************************************************************************)
(* Proof that a TaskInfo is queued, in flight, or held by one handler, and *)
(* never two of these: the pointers that the queue, inFlight and the       *)
(* handlers pass to each other, each under another lock or command, are    *)
(* never shared. Every move takes the object from its old place in the     *)
(* critical section that puts it in the new one, or holds it in between.   *)
(***************************************************************************)
EXTENDS CoordinatorTypes

(***************************************************************************)
(* The invariant                                                           *)
(***************************************************************************)
\* Objects are created once, and have one place.
PlaceInv ==
    /\ \A t \in JobStatus \cup inFlight : t.obj <= allocs
    /\ \A c \in Holders : hand[c].obj <= allocs
    /\ \A s, t \in JobStatus : s.obj = t.obj => s = t
    /\ \A s, t \in inFlight : s.obj = t.obj => s = t
    /\ \A s \in JobStatus, t \in inFlight : s.obj # t.obj
    /\ \A c \in Holders : \A t \in JobStatus \cup inFlight : hand[c].obj # t.obj
    /\ \A c, d \in Holders : hand[c].obj = hand[d].obj => c = d

HolderInv == TypeOK /\ IsFiniteSet(JobStatus) /\ PlaceInv

(***************************************************************************)
(* Updates keep the identity of the object                                 *)
(***************************************************************************)
LEMMA SameObject ==
  ASSUME NEW t \in TaskInfo
  PROVE  /\ Undispatched(t).obj = t.obj
         /\ NextChunk(t).obj = t.obj
         /\ Stamped(t).obj = t.obj
         /\ InPhase(t).obj = t.obj
         /\ [t EXCEPT !.Retries = @ + 1].obj = t.obj
  BY DEF Undispatched, NextChunk, Stamped, InPhase, TaskInfo

\* Counting a retry keeps the identity.
LEMMA RetriedObject == ASSUME NEW t \in TaskInfo PROVE Retried(t).obj = t.obj
  <1> DEFINE r == [t EXCEPT !.Retries = @ + 1]
  <1>1. r \in TaskInfo /\ r.obj = t.obj
    BY FieldTypes, SameObject
  <1>2. Undispatched(r).obj = r.obj
    BY <1>1, SameObject
  <1> QED
    BY <1>1, <1>2 DEF Retried

\* A finite set of tasks with different identities has as many of them.
LEMMA ObjectCount ==
  ASSUME NEW S, IsFiniteSet(S), \A s, t \in S : s.obj = t.obj => s = t
  PROVE  Cardinality({t.obj : t \in S}) = Cardinality(S)
  <1> DEFINE T == {t.obj : t \in S}
             f == [t \in S |-> t.obj]
  <1>1. f \in Surjection(S, T) /\ f \in Injection(S, T)
    BY DEF Surjection, Injection, IsInjective
  <1> HIDE DEF f, T
  <1>2. Cardinality(T) = Cardinality(S)
    BY <1>1, FS_Surjection
  <1> QED
    BY <1>2 DEF T

(***************************************************************************)
(* The ways an object moves                                                *)
(***************************************************************************)
\* Nothing moves, or something is dropped.
LEMMA PlaceKept ==
  ASSUME HolderInv, JobStatus' \subseteq JobStatus, inFlight' \subseteq inFlight,
         allocs' = allocs,
         \A c \in Holders' : c \in Holders /\ hand'[c] = hand[c]
  PROVE  PlaceInv' /\ IsFiniteSet(JobStatus')
  <1>1. IsFiniteSet(JobStatus')
    BY FS_Subset DEF HolderInv
  <1>2. PlaceInv'
    BY DEF HolderInv, PlaceInv
  <1> QED
    BY <1>1, <1>2

\* A new task is queued.
LEMMA PlaceEnqueued ==
  ASSUME HolderInv, NEW task \in TaskInfo, task.obj = allocs + 1, EnqueueTask(task),
         inFlight' = inFlight,
         \A c \in Holders' : c \in Holders /\ hand'[c] = hand[c]
  PROVE  PlaceInv' /\ IsFiniteSet(JobStatus')
  <1>1. JobStatus' = JobStatus \cup {task} /\ allocs' = allocs + 1
    BY DEF EnqueueTask
  <1>2. IsFiniteSet(JobStatus')
    BY <1>1, FS_AddElement DEF HolderInv
  <1>3. /\ allocs \in Nat
        /\ \A t \in JobStatus \cup inFlight : t.obj \in Nat /\ t.obj <= allocs
        /\ \A c \in Holders : hand[c].obj \in Nat /\ hand[c].obj <= allocs
    BY DEF HolderInv, PlaceInv, TypeOK, TaskInfo, Holders
  <1>4. /\ \A t \in JobStatus \cup inFlight : t.obj # task.obj /\ t.obj <= allocs'
        /\ \A c \in Holders : hand[c].obj # task.obj /\ hand[c].obj <= allocs'
        /\ task.obj <= allocs'
    BY <1>1, <1>3
  <1>5. PlaceInv'
    <2>1. \A s, t \in JobStatus' : s.obj = t.obj => s = t
      BY <1>1, <1>4 DEF HolderInv, PlaceInv
    <2> QED
      BY <1>1, <1>4, <2>1 DEF HolderInv, PlaceInv
  <1> QED
    BY <1>2, <1>5

\* Some tasks in flight are queued again or given up on.
LEMMA PlaceRequeued ==
  ASSUME HolderInv, NEW S \in SUBSET inFlight, inFlight' = inFlight \ S,
         GiveUpOrRequeue(S), allocs' = allocs,
         \A c \in Holders' : c \in Holders /\ hand'[c] = hand[c]
  PROVE  PlaceInv' /\ IsFiniteSet(JobStatus')
  <1> DEFINE kept == {t \in S : ~Exhausted(t)}
             back == {Retried(t) : t \in kept}
  <1>1. JobStatus' = JobStatus \cup back
    <2>1. JobStatus' = JobStatus \cup {Retried(t) : t \in S \ {t \in S : Exhausted(t)}}
      BY DEF GiveUpOrRequeue, Requeued
    <2>2. S \ {t \in S : Exhausted(t)} = kept
      OBVIOUS
    <2> HIDE DEF kept
    <2> QED
      BY <2>1, <2>2
  <1>2. IsFiniteSet(back)
    <2> DEFINE f == [t \in kept |-> Retried(t)]
    <2>1. f \in Surjection(kept, back)
      BY DEF Surjection
    <2>2. IsFiniteSet(kept)
      BY FS_Subset DEF HolderInv, TypeOK
    <2> HIDE DEF f, kept, back
    <2> QED
      BY <2>1, <2>2, FS_Surjection
  <1>3. IsFiniteSet(JobStatus')
    BY <1>1, <1>2, FS_Union DEF HolderInv
  <1>4. \A s \in back : \E t \in inFlight \ inFlight' : s = Retried(t) /\ s.obj = t.obj
    <2>1. \A t \in kept : t \in TaskInfo /\ t \in inFlight \ inFlight'
      BY DEF HolderInv, TypeOK
    <2> HIDE DEF kept
    <2> QED
      BY <2>1, RetriedObject
  <1> HIDE DEF back
  <1>5. \A r, s \in JobStatus' : r.obj = s.obj => r = s
    <2>1. \A r, s \in back : r.obj = s.obj => r = s
      BY <1>4 DEF HolderInv, PlaceInv
    <2>2. \A r \in JobStatus, s \in back : r.obj # s.obj
      BY <1>4 DEF HolderInv, PlaceInv
    <2> QED
      BY <1>1, <2>1, <2>2 DEF HolderInv, PlaceInv
  <1>6. \A s \in JobStatus' : s.obj <= allocs
    BY <1>1, <1>4 DEF HolderInv, PlaceInv
  <1>7. \A s \in JobStatus', t \in inFlight' : s.obj # t.obj
    BY <1>1, <1>4 DEF HolderInv, PlaceInv
  <1>8. \A c \in Holders, s \in JobStatus' : hand[c].obj # s.obj
    BY <1>1, <1>4 DEF HolderInv, PlaceInv
  <1>9. PlaceInv'
    BY <1>5, <1>6, <1>7, <1>8 DEF HolderInv, PlaceInv
  <1> QED
    BY <1>3, <1>9

(***************************************************************************)
(* Each action keeps the invariant                                         *)
(***************************************************************************)
\* One client moves, to a place where it holds no task alone.
LEMMA HoldersShrink ==
  ASSUME TypeOK, NEW c \in Clients, NEW where, pc' = [pc EXCEPT ![c] = where],
         where \notin {"dispatch", "complete", "fail", "continue"},
         hand' = hand \/ hand' = [hand EXCEPT ![c] = NoTask]
  PROVE  \A d \in Holders' : d \in Holders /\ hand'[d] = hand[d]
  BY DEF Holders, TypeOK

\* Steps of the listener, the sweeper and the transitions.
LEMMA SharedHolders ==
  ASSUME HolderInv, Listener \/ Sweep \/ \E c \in Clients : Transition(c)
  PROVE  PlaceInv' /\ IsFiniteSet(JobStatus')
  <1>1. CASE Listener
    <2>1. Holders' = Holders /\ hand' = hand /\ inFlight' = inFlight
      BY <1>1 DEF Listener, StoreChunk, EnqueueChunk, SourceExhausted, Holders
    <2>2. CASE EnqueueChunk
      <3> DEFINE n == NewTask(srcNext, srcNext, "MapTask", 0)
      <3>1. n \in TaskInfo
        BY NewTaskType, BoundsAssumption DEF HolderInv, TypeOK, TaskTypes, ChunkStages
      <3>2. n.obj = allocs + 1
        BY DEF NewTask
      <3>3. EnqueueTask(n)
        BY <2>2 DEF EnqueueChunk
      <3> HIDE DEF n
      <3> QED
        BY <2>1, <3>1, <3>2, <3>3, PlaceEnqueued
    <2>3. CASE StoreChunk \/ SourceExhausted
      <3>1. JobStatus' = JobStatus /\ allocs' = allocs
        BY <2>3 DEF StoreChunk, SourceExhausted
      <3> QED
        BY <2>1, <3>1, PlaceKept
    <2> QED
      BY <1>1, <2>2, <2>3 DEF Listener
  <1>2. CASE Sweep
    <2>1. PICK late \in SUBSET inFlight : inFlight' = TakeOut(late) /\ GiveUpOrRequeue(late)
      BY <1>2 DEF Sweep
    <2>2. allocs' = allocs /\ Holders' = Holders /\ hand' = hand
      BY <1>2 DEF Sweep, Holders
    <2> QED
      BY <2>1, <2>2, PlaceRequeued DEF TakeOut
  <1>3. ASSUME NEW c \in Clients, Transition(c) PROVE PlaceInv' /\ IsFiniteSet(JobStatus')
    <2>1. \A d \in Holders' : d \in Holders /\ hand'[d] = hand[d]
      <3>1. \E where \in {"readPhase", "advanced", "enqueue", "down", "idle"} :
               pc' = [pc EXCEPT ![c] = where]
        BY <1>3 DEF Transition, AdvancePhase, ReadNextPhase, EnqueueNext, EndTransition
      <3>2. hand' = hand
        BY <1>3 DEF Transition, AdvancePhase, ReadNextPhase, EnqueueNext, EndTransition
      <3> QED
        BY <3>1, <3>2, HoldersShrink DEF HolderInv
    <2>2. CASE EnqueueNext(c)
      <3> DEFINE w     == walk[c]
                 chunk == IF w.next \in DOMAIN w.files THEN w.files[w.next] ELSE NoChunk
                 n     == NewTask(w.next, chunk, Action(w.phase), w.phase)
      <3>1. WalkOK(w, "enqueue")
        BY <2>2 DEF EnqueueNext, HolderInv, TypeOK
      <3>2. n \in TaskInfo
        <4>1. chunk \in Nat \cup {NoChunk}
          BY <3>1 DEF WalkOK, FilesOK
        <4>2. Action(w.phase) \in TaskTypes
          BY <3>1, ActionType DEF WalkOK
        <4> QED
          BY <3>1, <4>1, <4>2, NewTaskType DEF WalkOK, HolderInv, TypeOK
      <3>3. n.obj = allocs + 1
        BY DEF NewTask
      <3>4. EnqueueTask(n) /\ inFlight' = inFlight
        BY <2>2 DEF EnqueueNext
      <3> HIDE DEF n
      <3> QED
        BY <2>1, <3>2, <3>3, <3>4, PlaceEnqueued
    <2>3. CASE AdvancePhase(c) \/ ReadNextPhase(c) \/ EndTransition(c)
      <3>1. JobStatus' = JobStatus /\ allocs' = allocs /\ inFlight' \subseteq inFlight
        BY <2>3 DEF AdvancePhase, ReadNextPhase, EndTransition, fsmVars
      <3> QED
        BY <2>1, <3>1, PlaceKept
    <2> QED
      BY <1>3, <2>2, <2>3 DEF Transition
  <1> QED
    BY <1>1, <1>2, <1>3

\* Polls and scans, and what they take or create.
LEMMA PollHolders ==
  ASSUME NEW c \in Clients, HolderInv, Poll(c) \/ Compact(c)
  PROVE  PlaceInv' /\ IsFiniteSet(JobStatus')
  <1>1. CASE Shutdown(c) \/ FindPhaseComplete(c) \/ StartScan(c) \/ SkipBucket(c)
    <2>1. \E where \in {"down", "advance", "scan", "idle"} : pc' = [pc EXCEPT ![c] = where]
      BY <1>1 DEF Shutdown, FindPhaseComplete, StartScan, SkipBucket, HolderInv, TypeOK
    <2>2. UNCHANGED <<JobStatus, inFlight, allocs, hand>>
      BY <1>1 DEF Shutdown, FindPhaseComplete, StartScan, SkipBucket, fsmVars
    <2>3. \A d \in Holders' : d \in Holders /\ hand'[d] = hand[d]
      BY <2>1, <2>2, HoldersShrink DEF HolderInv
    <2> QED
      BY <2>2, <2>3, PlaceKept
  <1>2. CASE TakeTask(c)
    <2>1. PICK t \in JobStatus : /\ JobStatus' = Dequeue(t)
                                 /\ hand' = [hand EXCEPT ![c] = Stamped(InPhase(t))]
      BY <1>2 DEF TakeTask
    <2> DEFINE s == Stamped(InPhase(t))
    <2>2. s.obj = t.obj
      <3>1. t \in TaskInfo /\ phaseIdx \in Nat
        BY DEF HolderInv, TypeOK
      <3>2. InPhase(t) \in TaskInfo
        BY <3>1, FieldTypes
      <3> QED
        BY <3>1, <3>2, SameObject
    <2>3. /\ JobStatus' = JobStatus \ {t}
          /\ hand' = [hand EXCEPT ![c] = s]
          /\ pc' = [pc EXCEPT ![c] = "dispatch"]
          /\ UNCHANGED <<inFlight, allocs>>
      BY <1>2, <2>1 DEF TakeTask, Dequeue
    <2> HIDE DEF s
    <2>4. /\ hand'[c] = s
          /\ \A d \in Holders' : d = c \/ (d \in Holders /\ hand'[d] = hand[d])
      BY <2>3 DEF Holders, HolderInv, TypeOK
    <2>5. IsFiniteSet(JobStatus')
      BY <2>3, FS_Subset DEF HolderInv
    <2>6. PlaceInv'
      BY <2>2, <2>3, <2>4 DEF PlaceInv, HolderInv
    <2> QED
      BY <2>5, <2>6
  <1>3. CASE ClaimBucket(c)
    <2> DEFINE n == NewTask(walk[c].next, NoChunk, "GroupByTask", walk[c].phase)
               s == Stamped(n)
    <2>1. s.obj = allocs + 1
      <3>1. WalkOK(walk[c], "scan")
        BY <1>3 DEF ClaimBucket, HolderInv, TypeOK
      <3>2. n \in TaskInfo
        BY <3>1, NewTaskType DEF WalkOK, HolderInv, TypeOK, TaskTypes, BucketStages
      <3>3. n.obj = allocs + 1
        BY DEF NewTask
      <3> HIDE DEF n
      <3> QED
        BY <3>2, <3>3, SameObject
    <2>2. /\ hand' = [hand EXCEPT ![c] = s]
          /\ pc' = [pc EXCEPT ![c] = "dispatch"]
          /\ allocs' = allocs + 1
          /\ UNCHANGED <<JobStatus, inFlight>>
      BY <1>3 DEF ClaimBucket, fsmVars
    <2> HIDE DEF s
    <2>3. /\ hand'[c] = s
          /\ \A d \in Holders' : d = c \/ (d \in Holders /\ hand'[d] = hand[d])
      BY <2>2 DEF Holders, HolderInv, TypeOK
    <2>4. /\ allocs \in Nat
          /\ \A t \in JobStatus \cup inFlight : t.obj \in Nat /\ t.obj <= allocs
          /\ \A d \in Holders : hand[d].obj \in Nat /\ hand[d].obj <= allocs
      BY DEF HolderInv, PlaceInv, TypeOK, TaskInfo, Holders
    <2>5. /\ \A t \in JobStatus \cup inFlight : t.obj # s.obj /\ t.obj <= allocs'
          /\ \A d \in Holders : hand[d].obj # s.obj /\ hand[d].obj <= allocs'
          /\ s.obj <= allocs'
      BY <2>1, <2>2, <2>4
    <2>6. PlaceInv'
      BY <2>2, <2>3, <2>5 DEF PlaceInv, HolderInv
    <2> QED
      BY <2>2, <2>6 DEF HolderInv
  <1> QED
    BY <1>1, <1>2, <1>3 DEF Poll, Compact

\* CmdDispatchTask hands the object over to inFlight.
LEMMA DispatchHolders ==
  ASSUME NEW c \in Clients, HolderInv, DispatchTask(c)
  PROVE  PlaceInv' /\ IsFiniteSet(JobStatus')
  <1>1. /\ c \in Holders
        /\ inFlight' \subseteq inFlight \cup {hand[c]}
        /\ JobStatus' \subseteq JobStatus
        /\ UNCHANGED <<hand, allocs>>
        /\ pc' = [pc EXCEPT ![c] = "run"]
    BY DEF DispatchTask, Holders
  <1>2. Holders' \subseteq Holders \ {c}
    BY <1>1 DEF Holders, HolderInv, TypeOK
  <1>3. IsFiniteSet(JobStatus')
    BY <1>1, FS_Subset DEF HolderInv
  <1>4. PlaceInv'
    BY <1>1, <1>2 DEF PlaceInv, HolderInv
  <1> QED
    BY <1>3, <1>4

\* Executions, and reports that are dropped, accepted and processed.
LEMMA ReportHolders ==
  ASSUME NEW c \in Clients, HolderInv, Execute(c) \/ Abandon(c) \/ Report(c)
  PROVE  PlaceInv' /\ IsFiniteSet(JobStatus')
  <1>1. CASE \/ Execute(c) \/ Abandon(c) \/ IgnoreReport(c) \/ AcceptLateSuccess(c)
             \/ CompleteTask(c) \/ MarkReduceDone(c)
    <2>1. /\ \E where \in Results \cup {"idle", "completeLate", "mark"} :
                pc' = [pc EXCEPT ![c] = where]
          /\ hand' = hand \/ hand' = [hand EXCEPT ![c] = NoTask]
      BY <1>1 DEF Execute, Abandon, IgnoreReport, AcceptLateSuccess, CompleteTask,
                  MarkReduceDone, Forget, Results
    <2>2. JobStatus' = JobStatus /\ allocs' = allocs /\ inFlight' \subseteq inFlight
      BY <1>1 DEF Execute, Abandon, IgnoreReport, AcceptLateSuccess, CompleteTask,
                  MarkReduceDone, fsmVars
    <2>3. \A d \in Holders' : d \in Holders /\ hand'[d] = hand[d]
      BY <2>1, HoldersShrink DEF HolderInv, Results
    <2> QED
      BY <2>2, <2>3, PlaceKept
  <1>2. CASE AcceptReport(c)
    <2>1. PICK t \in inFlight : inFlight' = inFlight \ {t} /\ hand' = [hand EXCEPT ![c] = t]
      BY <1>2 DEF AcceptReport, Reported, WithId, Evict
    <2>2. UNCHANGED <<JobStatus, allocs>> /\ \A d \in Clients \ {c} : pc'[d] = pc[d]
      BY <1>2 DEF AcceptReport, HolderInv, TypeOK
    <2>3. /\ hand'[c] = t
          /\ \A d \in Holders' : d = c \/ (d \in Holders /\ hand'[d] = hand[d])
      BY <2>1, <2>2 DEF Holders, HolderInv, TypeOK
    <2>4. PlaceInv'
      BY <2>1, <2>2, <2>3 DEF PlaceInv, HolderInv
    <2> QED
      BY <2>2, <2>4 DEF HolderInv
  <1>3. CASE FailTask(c)
    <2>1. /\ Reported(c) \in SUBSET inFlight
          /\ inFlight' = inFlight \ Reported(c)
          /\ GiveUpOrRequeue(Reported(c))
          /\ allocs' = allocs
      BY <1>3 DEF FailTask, Reported, WithId
    <2>2. \A d \in Holders' : d \in Holders /\ hand'[d] = hand[d]
      BY <1>3, HoldersShrink DEF FailTask, Forget, HolderInv
    <2> QED
      BY <2>1, <2>2, PlaceRequeued
  <1>4. CASE ContinueTask(c)
    <2> DEFINE n == Undispatched(NextChunk(hand[c]))
    <2>1. n.obj = hand[c].obj
      <3>1. NextChunk(hand[c]) \in TaskInfo /\ hand[c] \in TaskInfo
        BY FieldTypes DEF HolderInv, TypeOK
      <3> QED
        BY <3>1, SameObject
    <2>2. /\ c \in Holders
          /\ JobStatus' = JobStatus \cup {n}
          /\ UNCHANGED <<inFlight, allocs>>
          /\ Forget(c, "idle")
      BY <1>4 DEF ContinueTask, Holders
    <2> HIDE DEF n
    <2>3. \A d \in Holders' : d \in Holders \ {c} /\ hand'[d] = hand[d]
      BY <2>2 DEF Forget, Holders, HolderInv, TypeOK
    <2>4. IsFiniteSet(JobStatus')
      BY <2>2, FS_AddElement DEF HolderInv
    <2>5. PlaceInv'
      BY <2>1, <2>2, <2>3 DEF PlaceInv, HolderInv
    <2> QED
      BY <2>4, <2>5
  <1> QED
    BY <1>1, <1>2, <1>3, <1>4 DEF Report

(***************************************************************************)
(* The theorem                                                             *)
(***************************************************************************)
\* HolderInv is inductive.
LEMMA HolderStep == HolderInv /\ [Next]_vars => HolderInv'
  <1> SUFFICES ASSUME HolderInv, [Next]_vars PROVE HolderInv'
    OBVIOUS
  <1>1. TypeOK'
    BY TypeStep DEF HolderInv
  <1>2. PlaceInv' /\ IsFiniteSet(JobStatus')
    <2>1. CASE Listener \/ Sweep
      BY <2>1, SharedHolders
    <2>2. ASSUME NEW c \in Clients, ClientStep(c) \/ Abandon(c)
          PROVE  PlaceInv' /\ IsFiniteSet(JobStatus')
      BY <2>2, SharedHolders, PollHolders, DispatchHolders, ReportHolders DEF ClientStep
    <2>3. CASE UNCHANGED vars
      <3>1. UNCHANGED <<JobStatus, inFlight, allocs, hand, pc>>
        BY <2>3 DEF vars, fsmVars
      <3>2. Holders' = Holders
        BY <3>1 DEF Holders
      <3> QED
        BY <3>1, <3>2, PlaceKept
    <2> QED
      BY <2>1, <2>2, <2>3 DEF Next
  <1> QED
    BY <1>1, <1>2 DEF HolderInv

\* It holds when the coordinator starts.
LEMMA HolderInit == Init => HolderInv
  <1> SUFFICES ASSUME Init PROVE HolderInv
    OBVIOUS
  <1>1. IsFiniteSet(JobStatus)
    BY FS_EmptySet DEF Init
  <1>2. Holders = {}
    BY DEF Init, Holders
  <1>3. PlaceInv
    BY <1>2 DEF Init, PlaceInv
  <1> QED
    BY <1>1, <1>3, InitType DEF HolderInv

\* However the polls, reports, sweeps and transitions interleave, and whatever
\* incident has happened, no TaskInfo is in two places: a task whose report is
\* being processed cannot be re-enqueued by the sweeper.
THEOREM OneHolderAlways == Spec => []OneHolder
  <1>1. HolderInv => OneHolder
    <2> SUFFICES ASSUME HolderInv PROVE OneHolder
      OBVIOUS
    <2>1. /\ Cardinality({t.obj : t \in JobStatus}) = Cardinality(JobStatus)
          /\ Cardinality({t.obj : t \in inFlight}) = Cardinality(inFlight)
      BY ObjectCount DEF HolderInv, PlaceInv, TypeOK
    <2>2. /\ {t.obj : t \in JobStatus} \cap {t.obj : t \in inFlight} = {}
          /\ {t.obj : t \in InHand} \cap {t.obj : t \in JobStatus \cup inFlight} = {}
          /\ \A c, d \in Holders : hand[c].obj = hand[d].obj => c = d
      BY DEF HolderInv, PlaceInv, InHand
    <2> QED
      BY <2>1, <2>2 DEF OneHolder
  <1> QED
    BY <1>1, HolderInit, HolderStep, PTL DEF Spec
=============================================================================
