------------------------- MODULE CoordinatorBuckets -------------------------
(***************************************************************************)
(* Proof that two compacters never compact the same bucket and that no     *)
(* bucket is compacted before its reduce output is there, whatever the     *)
(* sweeper, MongoDB and the clients do.                                    *)
(*                                                                         *)
(* A report passes NoticeResult by its dispatch token, and what is marked  *)
(* reduced then is the record found in inFlight, not the task the client   *)
(* executed. The argument therefore starts with the tokens (TokenInv): no  *)
(* two dispatches share one, so a matching record is the executed task.    *)
(***************************************************************************)
EXTENDS CoordinatorTypes

\* Between the dispatch of a task and the handling of its report.
Holding(c) == pc[c] = "dispatch" \/ Executing(c)

\* After an execution that succeeded.
Succeeded(c) == pc[c] \in {"TaskSuccess", "complete", "completeLate", "mark"}

Bucket(c) == <<hand[c].PhaseIdx, hand[c].TaskId>>

Stage(c) == Action(hand[c].PhaseIdx)

(***************************************************************************)
(* The invariants                                                          *)
(***************************************************************************)
\* A dispatch token belongs to one dispatch, and to the record it left.
TokenInv ==
    /\ \A t \in inFlight : t.DispatchedAt <= clock
    /\ \A c \in Clients : Holding(c) => hand[c].DispatchedAt <= clock
    /\ \A c, d \in Clients :
          Holding(c) /\ Holding(d) /\ hand[c].DispatchedAt = hand[d].DispatchedAt => c = d
    /\ \A t \in inFlight, c \in Clients :
          Holding(c) /\ hand[c].DispatchedAt = t.DispatchedAt => Executing(c) /\ t = hand[c]

\* A compacter scans a GroupBy phase and holds GroupBy and Sink tasks only.
PoolInv ==
    /\ \A c \in Clients : pc[c] = "scan" => c \in Compacters /\ Action(walk[c].phase) = "GroupByTask"
    /\ \A c \in Compacters : Holding(c) => Stage(c) \in {"GroupByTask", "SinkTask"}

\* A success of a reduce task has its output, before and after it is marked.
ReducedInv ==
    /\ \A r \in reduction : Action(r[1]) = "ReduceTask" => r \in output
    /\ \A c \in Clients : Succeeded(c) /\ Stage(c) = "ReduceTask" => Bucket(c) \in output

\* A compacter holds a GroupBy task it has claimed, alone, and after its reduce.
ClaimInv ==
    /\ \A c \in Compacters : Holding(c) /\ Stage(c) = "GroupByTask" =>
          /\ Bucket(c) \in compaction
          /\ <<hand[c].PhaseIdx - 1, hand[c].TaskId>> \in output
    /\ \A c, d \in Compacters :
          Holding(c) /\ Holding(d) /\ Stage(c) = "GroupByTask" /\ Bucket(c) = Bucket(d) => c = d

BucketInv == TypeOK /\ TokenInv /\ PoolInv /\ ReducedInv /\ ClaimInv

(***************************************************************************)
(* What a dispatch stamps, and steps that dispatch nothing                 *)
(***************************************************************************)
\* A dispatched task carries the phase and the token of its dispatch.
LEMMA StampedFields ==
  ASSUME NEW t \in TaskInfo, phaseIdx \in Nat, clock \in Nat
  PROVE  /\ Stamped(t).DispatchedAt = clock + 1
         /\ Stamped(t).PhaseIdx = t.PhaseIdx
         /\ Stamped(t).TaskId = t.TaskId
         /\ Stamped(t).obj = t.obj
         /\ InPhase(t).PhaseIdx = phaseIdx
         /\ InPhase(t).TaskId = t.TaskId
         /\ InPhase(t).obj = t.obj
         /\ InPhase(t) \in TaskInfo
  <1>1. /\ InPhase(t).PhaseIdx = phaseIdx
        /\ InPhase(t).TaskId = t.TaskId
        /\ InPhase(t).obj = t.obj
    BY DEF InPhase, TaskInfo
  <1>2. /\ Stamped(t).DispatchedAt = clock + 1
        /\ Stamped(t).PhaseIdx = t.PhaseIdx
        /\ Stamped(t).TaskId = t.TaskId
        /\ Stamped(t).obj = t.obj
    BY DEF Stamped, TaskInfo
  <1> QED
    BY <1>1, <1>2, FieldTypes

\* Holding means what it says in the next state too.
LEMMA HoldingPrimed ==
  /\ \A c : Holding(c)' <=> pc'[c] \in {"dispatch", "run"} \cup Results
  /\ \A c : Holding(c) <=> pc[c] \in {"dispatch", "run"} \cup Results
  BY DEF Holding, Executing

\* Tokens stay unique as long as nothing is dispatched.
LEMMA TokensKept ==
  ASSUME TokenInv, inFlight' \subseteq inFlight, clock' = clock,
         \A c \in Clients : Holding(c)' => /\ Holding(c) /\ hand'[c] = hand[c]
                                           /\ Executing(c) => Executing(c)'
  PROVE  TokenInv'
  BY DEF TokenInv

\* The bucket invariants survive a step that dispatches nothing, reports no new
\* success and takes no record back.
LEMMA BucketsKept ==
  ASSUME PoolInv, ReducedInv, ClaimInv,
         reduction' = reduction, compaction \subseteq compaction', output \subseteq output',
         \A c \in Clients : Holding(c)' => Holding(c) /\ hand'[c] = hand[c],
         \A c \in Clients : Succeeded(c)' => Succeeded(c) /\ hand'[c] = hand[c],
         \A c \in Clients : pc'[c] = "scan" => pc[c] = "scan" /\ walk'[c].phase = walk[c].phase
  PROVE  PoolInv' /\ ReducedInv' /\ ClaimInv'
  <1>1. PoolInv'
    BY DEF PoolInv, Stage, Clients
  <1>2. ReducedInv'
    BY DEF ReducedInv, Stage, Bucket, Clients
  <1>3. ClaimInv'
    BY DEF ClaimInv, Stage, Bucket, Clients
  <1> QED
    BY <1>1, <1>2, <1>3

(***************************************************************************)
(* Each action keeps the invariants                                        *)
(***************************************************************************)
\* Steps that leave the clients and MongoDB alone, and the polls that find nothing.
LEMMA IdleBuckets ==
  ASSUME BucketInv,
         UNCHANGED <<hand, clock, reduction, compaction, output>>,
         inFlight' \subseteq inFlight,
         \A c \in Clients : \/ pc'[c] = pc[c]
                            \/ pc'[c] \notin {"dispatch", "run", "complete", "completeLate",
                                              "mark", "scan"} \cup Results,
         \A c \in Clients : pc'[c] = "scan" => walk'[c].phase = walk[c].phase
  PROVE  TokenInv' /\ PoolInv' /\ ReducedInv' /\ ClaimInv'
  <1>1. \A c \in Clients : Holding(c)' => /\ Holding(c) /\ hand'[c] = hand[c]
                                          /\ Executing(c) => Executing(c)'
    BY DEF Holding, Executing
  <1>2. \A c \in Clients : Succeeded(c)' => Succeeded(c) /\ hand'[c] = hand[c]
    BY DEF Succeeded, Results
  <1>3. \A c \in Clients : pc'[c] = "scan" => pc[c] = "scan" /\ walk'[c].phase = walk[c].phase
    BY DEF Results
  <1>4. TokenInv'
    BY <1>1, TokensKept DEF BucketInv
  <1>5. PoolInv' /\ ReducedInv' /\ ClaimInv'
    <2>1. PoolInv /\ ReducedInv /\ ClaimInv
      BY DEF BucketInv
    <2>2. reduction' = reduction /\ compaction \subseteq compaction' /\ output \subseteq output'
      OBVIOUS
    <2>3. \A c \in Clients : Holding(c)' => Holding(c) /\ hand'[c] = hand[c]
      BY <1>1
    <2> QED
      BY <1>2, <1>3, <2>1, <2>2, <2>3, BucketsKept
  <1> QED
    BY <1>4, <1>5

\* The listener, the sweeper and the transitions.
LEMMA QuietBuckets ==
  ASSUME BucketInv,
         \/ Listener \/ Sweep
         \/ \E c \in Clients : Shutdown(c) \/ FindPhaseComplete(c) \/ Transition(c)
  PROVE  BucketInv'
  <1>1. TypeOK'
    <2>1. [Next]_vars
      BY DEF Next, ClientStep, Poll
    <2> QED
      BY <2>1, TypeStep DEF BucketInv
  <1>2. CASE Listener
    BY <1>1, <1>2, IdleBuckets
    DEF Listener, StoreChunk, EnqueueChunk, SourceExhausted, storeVars, BucketInv
  <1>3. CASE Sweep
    <2>1. inFlight' \subseteq inFlight
      BY <1>3 DEF Sweep, TakeOut
    <2> QED
      BY <1>1, <1>3, <2>1, IdleBuckets DEF Sweep, storeVars, BucketInv
  <1>4. ASSUME NEW c \in Clients, Shutdown(c) \/ FindPhaseComplete(c) \/ Transition(c)
        PROVE  BucketInv'
    <2>1. \E where \in PCs \ ({"dispatch", "run", "complete", "completeLate", "mark", "scan"}
                              \cup Results) : pc' = [pc EXCEPT ![c] = where]
      BY <1>4 DEF Shutdown, FindPhaseComplete, Transition, AdvancePhase, ReadNextPhase,
                  EnqueueNext, EndTransition, PCs, Results
    <2>2. \A d \in Clients : \/ pc'[d] = pc[d]
                             \/ pc'[d] \notin {"dispatch", "run", "complete", "completeLate",
                                               "mark", "scan"} \cup Results
      BY <2>1 DEF BucketInv, TypeOK
    <2>3. \A d \in Clients : pc'[d] = "scan" => walk'[d].phase = walk[d].phase
      <3>1. \A d \in Clients \ {c} : walk'[d] = walk[d]
        BY <1>4 DEF Shutdown, FindPhaseComplete, Transition, AdvancePhase, ReadNextPhase,
                    EnqueueNext, EndTransition, BucketInv, TypeOK
      <3>2. pc'[c] # "scan"
        BY <2>1 DEF BucketInv, TypeOK
      <3> QED
        BY <3>1, <3>2
    <2>4. /\ UNCHANGED <<hand, clock, reduction, compaction, output>>
          /\ inFlight' \subseteq inFlight
      BY <1>4 DEF Shutdown, FindPhaseComplete, Transition, AdvancePhase, ReadNextPhase,
                  EnqueueNext, EndTransition, fsmVars, storeVars
    <2> QED
      BY <1>1, <2>2, <2>3, <2>4, IdleBuckets DEF BucketInv
  <1> QED
    BY <1>2, <1>3, <1>4

\* A client that drops what it holds, whatever has become of it elsewhere.
LEMMA ForgetBuckets ==
  ASSUME BucketInv, NEW c \in Clients, Forget(c, "idle"),
         inFlight' \subseteq inFlight, output \subseteq output',
         UNCHANGED <<clock, walk, reduction, compaction>>
  PROVE  TokenInv' /\ PoolInv' /\ ReducedInv' /\ ClaimInv'
  <1>1. \A d \in Clients : \/ d # c /\ pc'[d] = pc[d] /\ hand'[d] = hand[d]
                           \/ pc'[d] = "idle"
    BY DEF Forget, BucketInv, TypeOK
  <1>2. \A d \in Clients : Holding(d)' => /\ Holding(d) /\ hand'[d] = hand[d]
                                          /\ Executing(d) => Executing(d)'
    BY <1>1 DEF Holding, Executing, Results
  <1>3. \A d \in Clients : Succeeded(d)' => Succeeded(d) /\ hand'[d] = hand[d]
    BY <1>1 DEF Succeeded
  <1>4. \A d \in Clients : pc'[d] = "scan" => pc[d] = "scan" /\ walk'[d].phase = walk[d].phase
    BY <1>1
  <1>5. TokenInv'
    BY <1>2, TokensKept DEF BucketInv
  <1>6. PoolInv' /\ ReducedInv' /\ ClaimInv'
    <2>1. PoolInv /\ ReducedInv /\ ClaimInv
      BY DEF BucketInv
    <2>2. reduction' = reduction /\ compaction \subseteq compaction' /\ output \subseteq output'
      OBVIOUS
    <2>3. \A d \in Clients : Holding(d)' => Holding(d) /\ hand'[d] = hand[d]
      BY <1>2
    <2> QED
      BY <1>3, <1>4, <2>1, <2>2, <2>3, BucketsKept
  <1> QED
    BY <1>5, <1>6

\* Only one client moves, and to a place where it holds a task just stamped.
LEMMA FreshToken ==
  ASSUME BucketInv, NEW c \in Clients, NEW t, hand' = [hand EXCEPT ![c] = t],
         pc' = [pc EXCEPT ![c] = "dispatch"], t.DispatchedAt = clock + 1,
         clock' = clock + 1, inFlight' = inFlight
  PROVE  TokenInv'
  <1>1. /\ \A d \in Clients \ {c} : /\ hand'[d] = hand[d] /\ pc'[d] = pc[d]
                                    /\ Holding(d)' = Holding(d)
                                    /\ Executing(d)' = Executing(d)
        /\ hand'[c] = t
    BY DEF Holding, Executing, BucketInv, TypeOK
  <1>2. /\ clock \in Nat
        /\ \A r \in inFlight : r.DispatchedAt \in Nat
        /\ \A d \in Clients : hand[d].DispatchedAt \in Nat
    BY DEF BucketInv, TypeOK, TaskInfo
  <1> QED
    BY <1>1, <1>2 DEF BucketInv, TokenInv

\* A worker or, in a Sink phase, a compacter dequeues a task.
LEMMA TakeBuckets == ASSUME NEW c \in Clients, BucketInv, TakeTask(c) PROVE BucketInv'
  <1>1. TypeOK'
    BY PollType DEF Poll, BucketInv
  <1>2. PICK t \in JobStatus : hand' = [hand EXCEPT ![c] = Stamped(InPhase(t))]
    BY DEF TakeTask
  <1> DEFINE s == Stamped(InPhase(t))
  <1>3. s.DispatchedAt = clock + 1 /\ s.PhaseIdx = phaseIdx
    <2>1. t \in TaskInfo
      BY DEF BucketInv, TypeOK
    <2> QED
      BY <2>1, StampedFields DEF BucketInv, TypeOK
  <1>4. /\ hand' = [hand EXCEPT ![c] = s]
        /\ pc' = [pc EXCEPT ![c] = "dispatch"]
        /\ clock' = clock + 1
        /\ c \in Compacters => Action(phaseIdx) = "SinkTask"
        /\ UNCHANGED <<inFlight, walk, storeVars>>
    BY <1>2 DEF TakeTask
  <1> HIDE DEF s
  <1>5. TokenInv'
    BY <1>3, <1>4, FreshToken
  <1>6. /\ \A d \in Clients \ {c} : /\ hand'[d] = hand[d] /\ pc'[d] = pc[d]
                                    /\ Holding(d)' = Holding(d)
                                    /\ Succeeded(d)' = Succeeded(d)
        /\ hand'[c] = s /\ pc'[c] = "dispatch" /\ ~Succeeded(c)'
    BY <1>4 DEF Holding, Executing, Succeeded, BucketInv, TypeOK
  <1>7. c \in Compacters => Stage(c)' = "SinkTask"
    BY <1>3, <1>4, <1>6 DEF Stage, Action
  <1>8. PoolInv'
    BY <1>4, <1>6, <1>7 DEF PoolInv, Stage, Action, Clients, BucketInv
  <1>9. ReducedInv'
    BY <1>4, <1>6 DEF ReducedInv, Stage, Action, Bucket, storeVars, BucketInv
  <1>10. ClaimInv'
    BY <1>4, <1>6, <1>7 DEF ClaimInv, Stage, Action, Bucket, Clients, storeVars, BucketInv
  <1> QED
    BY <1>1, <1>5, <1>8, <1>9, <1>10 DEF BucketInv

\* A dispatch is recorded in inFlight.
LEMMA DispatchBuckets == ASSUME NEW c \in Clients, BucketInv, DispatchTask(c) PROVE BucketInv'
  <1>1. TypeOK'
    BY DispatchType DEF BucketInv
  <1>2. /\ inFlight' \subseteq inFlight \cup {hand[c]}
        /\ pc[c] = "dispatch" /\ pc' = [pc EXCEPT ![c] = "run"]
        /\ UNCHANGED <<clock, hand, walk, storeVars>>
    BY DEF DispatchTask
  <1>3. /\ \A d \in Clients : Holding(d)' => Holding(d)
        /\ \A d \in Clients : Executing(d) => Executing(d)'
        /\ Holding(c) /\ Executing(c)'
        /\ \A d \in Clients : Succeeded(d)' => Succeeded(d)
        /\ \A d \in Clients : pc'[d] = "scan" => pc[d] = "scan"
    BY <1>2 DEF Holding, Executing, Succeeded, Results, BucketInv, TypeOK
  <1>4. TokenInv'
    BY <1>2, <1>3 DEF TokenInv, BucketInv
  <1>5. PoolInv' /\ ReducedInv' /\ ClaimInv'
    <2>1. PoolInv /\ ReducedInv /\ ClaimInv
      BY DEF BucketInv
    <2>2. reduction' = reduction /\ compaction \subseteq compaction' /\ output \subseteq output'
      BY <1>2 DEF storeVars
    <2>3. /\ \A d \in Clients : Holding(d)' => Holding(d) /\ hand'[d] = hand[d]
          /\ \A d \in Clients : Succeeded(d)' => Succeeded(d) /\ hand'[d] = hand[d]
          /\ \A d \in Clients : pc'[d] = "scan" => pc[d] = "scan" /\ walk'[d].phase = walk[d].phase
      BY <1>2, <1>3
    <2> QED
      BY <2>1, <2>2, <2>3, BucketsKept
  <1> QED
    BY <1>1, <1>4, <1>5 DEF BucketInv

\* A compacter begins to scan the buckets of a GroupBy phase.
LEMMA ScanBuckets == ASSUME NEW c \in Clients, BucketInv, StartScan(c) PROVE BucketInv'
  <1>1. TypeOK'
    BY PollType DEF Poll, BucketInv
  <1>2. /\ pc' = [pc EXCEPT ![c] = "scan"]
        /\ walk' = [walk EXCEPT ![c] = Walk(phaseIdx, 0, NReduce, <<>>)]
        /\ c \in Compacters /\ Action(phaseIdx) = "GroupByTask"
        /\ UNCHANGED <<inFlight, clock, hand, storeVars>>
    BY DEF StartScan, fsmVars
  <1>3. /\ \A d \in Clients \ {c} : walk'[d] = walk[d] /\ pc'[d] = pc[d]
        /\ walk'[c].phase = phaseIdx
        /\ \A d \in Clients : Holding(d)' => /\ Holding(d) /\ hand'[d] = hand[d]
                                             /\ Executing(d) => Executing(d)'
        /\ \A d \in Clients : Succeeded(d)' => Succeeded(d) /\ hand'[d] = hand[d]
    BY <1>2 DEF Holding, Executing, Succeeded, Results, Walk, BucketInv, TypeOK
  <1>4. TokenInv'
    BY <1>2, <1>3, TokensKept DEF BucketInv
  <1>5. PoolInv'
    BY <1>2, <1>3 DEF PoolInv, Stage, Action, Clients, BucketInv
  <1>6. ReducedInv'
    BY <1>2, <1>3 DEF ReducedInv, Stage, Action, Bucket, storeVars, BucketInv
  <1>7. ClaimInv'
    BY <1>2, <1>3 DEF ClaimInv, Stage, Action, Bucket, Clients, storeVars, BucketInv
  <1> QED
    BY <1>1, <1>4, <1>5, <1>6, <1>7 DEF BucketInv

\* A bucket that is not claimed, or whose claim is burnt.
LEMMA SkipBuckets == ASSUME NEW c \in Clients, BucketInv, SkipBucket(c) PROVE BucketInv'
  <1>1. TypeOK'
    BY CompactType DEF Compact, BucketInv
  <1>2. /\ \/ pc' = [pc EXCEPT ![c] = "idle"]
           \/ pc' = pc /\ walk' = [walk EXCEPT ![c] = NextId(walk[c])]
        /\ compaction \subseteq compaction'
        /\ UNCHANGED <<inFlight, clock, hand, reduction, output>>
    BY DEF SkipBucket, fsmVars
  <1>3. /\ \A d \in Clients : Holding(d)' => /\ Holding(d) /\ hand'[d] = hand[d]
                                             /\ Executing(d) => Executing(d)'
        /\ \A d \in Clients : Succeeded(d)' => Succeeded(d) /\ hand'[d] = hand[d]
    BY <1>2 DEF Holding, Executing, Succeeded, Results, BucketInv, TypeOK
  <1>4. \A d \in Clients : pc'[d] = "scan" => pc[d] = "scan" /\ walk'[d].phase = walk[d].phase
    <2>1. \A d \in Clients \ {c} : walk'[d] = walk[d]
      BY DEF SkipBucket, BucketInv, TypeOK
    <2> QED
      BY <1>2, <2>1 DEF NextId, Walk, BucketInv, TypeOK
  <1>5. TokenInv'
    BY <1>2, <1>3, TokensKept DEF BucketInv
  <1>6. PoolInv' /\ ReducedInv' /\ ClaimInv'
    <2>1. PoolInv /\ ReducedInv /\ ClaimInv
      BY DEF BucketInv
    <2>2. \A d \in Clients : Holding(d)' => Holding(d) /\ hand'[d] = hand[d]
      BY <1>3
    <2> QED
      BY <1>2, <1>3, <1>4, <2>1, <2>2, BucketsKept
  <1> QED
    BY <1>1, <1>5, <1>6 DEF BucketInv

\* The stage before a GroupBy stage is a Reduce stage.
LEMMA GroupByFollowsReduce ==
  ASSUME NEW p \in Nat, p < NumStages, Action(p) = "GroupByTask"
  PROVE  Action(p - 1) = "ReduceTask"
  <1>1. NumStages \in Nat
    BY PipelineAssumption DEF NumStages
  <1>2. p + 1 \in 1..NumStages
    BY <1>1
  <1>3. ProcessAction[(p + 1) - 1] = "ReduceTask"
    BY <1>2, PipelineAssumption DEF Action
  <1>4. (p + 1) - 1 = (p - 1) + 1
    OBVIOUS
  <1> QED
    BY <1>3, <1>4 DEF Action

\* A bucket is claimed only after it has been marked reduced.
LEMMA ClaimBuckets == ASSUME NEW c \in Clients, BucketInv, ClaimBucket(c) PROVE BucketInv'
  <1> DEFINE w == walk[c]
             s == Stamped(NewTask(w.next, NoChunk, "GroupByTask", w.phase))
  <1>1. TypeOK'
    BY CompactType DEF Compact, BucketInv
  <1>2. /\ WalkOK(w, "scan")
        /\ c \in Compacters /\ Action(w.phase) = "GroupByTask"
    BY DEF ClaimBucket, PoolInv, BucketInv, TypeOK
  <1>3. s.DispatchedAt = clock + 1 /\ s.PhaseIdx = w.phase /\ s.TaskId = w.next
    <2> DEFINE n == NewTask(w.next, NoChunk, "GroupByTask", w.phase)
    <2>1. n \in TaskInfo
      BY <1>2, NewTaskType DEF WalkOK, BucketInv, TypeOK, TaskTypes, BucketStages
    <2>2. n.PhaseIdx = w.phase /\ n.TaskId = w.next
      BY DEF NewTask
    <2> HIDE DEF n
    <2>3. /\ Stamped(n).DispatchedAt = clock + 1
          /\ Stamped(n).PhaseIdx = n.PhaseIdx
          /\ Stamped(n).TaskId = n.TaskId
      BY <2>1, StampedFields DEF BucketInv, TypeOK
    <2> QED
      BY <2>2, <2>3 DEF n
  <1>4. /\ hand' = [hand EXCEPT ![c] = s]
        /\ pc' = [pc EXCEPT ![c] = "dispatch"]
        /\ clock' = clock + 1
        /\ <<w.phase - 1, w.next>> \in reduction
        /\ <<w.phase, w.next>> \notin compaction
        /\ compaction' = compaction \cup {<<w.phase, w.next>>}
        /\ walk' = [walk EXCEPT ![c] = NoWalk]
        /\ UNCHANGED <<inFlight, reduction, output>>
    BY DEF ClaimBucket, Claimable, fsmVars
  <1>5. <<w.phase - 1, w.next>> \in output
    <2>1. Action(w.phase - 1) = "ReduceTask"
      BY <1>2, GroupByFollowsReduce DEF WalkOK
    <2> QED
      BY <1>4, <2>1 DEF BucketInv, ReducedInv
  <1> HIDE DEF s, w
  <1>6. TokenInv'
    BY <1>3, <1>4, FreshToken
  <1>7. /\ \A d \in Clients \ {c} : /\ hand'[d] = hand[d] /\ pc'[d] = pc[d]
                                    /\ walk'[d] = walk[d]
                                    /\ Holding(d)' = Holding(d)
                                    /\ Succeeded(d)' = Succeeded(d)
        /\ hand'[c] = s /\ pc'[c] = "dispatch" /\ ~Succeeded(c)'
    BY <1>4 DEF Holding, Executing, Succeeded, BucketInv, TypeOK
  <1>8. Stage(c)' = "GroupByTask" /\ Bucket(c)' = <<w.phase, w.next>>
    BY <1>2, <1>3, <1>7 DEF Stage, Action, Bucket
  <1>9. PoolInv'
    BY <1>7, <1>8 DEF PoolInv, Stage, Action, Clients, BucketInv
  <1>10. ReducedInv'
    BY <1>4, <1>7 DEF ReducedInv, Stage, Action, Bucket, BucketInv
  <1>11. ClaimInv'
    <2>1. \A d \in Clients \ {c} : Stage(d)' = Stage(d) /\ Bucket(d)' = Bucket(d)
      BY <1>7 DEF Stage, Action, Bucket
    <2>2. \A d \in Compacters \ {c} :
             Holding(d) /\ Stage(d) = "GroupByTask" => Bucket(d)' # Bucket(c)'
      BY <1>4, <1>8, <2>1 DEF ClaimInv, BucketInv, Clients
    <2>3. ASSUME NEW d \in Compacters, (Holding(d) /\ Stage(d) = "GroupByTask")'
          PROVE  Bucket(d)' \in compaction'
                 /\ <<hand'[d].PhaseIdx - 1, hand'[d].TaskId>> \in output'
      <3>1. CASE d = c
        BY <1>3, <1>4, <1>5, <1>7, <1>8, <3>1
      <3>2. CASE d # c
        BY <1>4, <1>7, <2>1, <2>3, <3>2 DEF ClaimInv, BucketInv, Clients
      <3> QED
        BY <3>1, <3>2
    <2>4. ASSUME NEW d \in Compacters, NEW e \in Compacters,
                 (Holding(d) /\ Holding(e) /\ Stage(d) = "GroupByTask" /\ Bucket(d) = Bucket(e))'
          PROVE  d = e
      <3>1. Action(hand'[e].PhaseIdx) = Action(hand'[d].PhaseIdx)
        BY <2>4 DEF Bucket
      <3>2. Stage(e)' = "GroupByTask"
        BY <3>1, <2>4 DEF Stage, Action
      <3> QED
        BY <1>7, <2>1, <2>2, <2>4, <3>2 DEF ClaimInv, BucketInv, Clients
    <2> QED
      BY <2>3, <2>4 DEF ClaimInv
  <1> QED
    BY <1>1, <1>6, <1>9, <1>10, <1>11 DEF BucketInv

\* An execution leaves its output before it reports the success.
LEMMA ExecuteBuckets == ASSUME NEW c \in Clients, BucketInv, Execute(c) PROVE BucketInv'
  <1>1. TypeOK'
    BY ExecuteType DEF BucketInv
  <1>2. /\ pc[c] = "run" /\ \E r \in Results : pc' = [pc EXCEPT ![c] = r]
        /\ output \subseteq output'
        /\ UNCHANGED <<inFlight, clock, hand, walk, reduction, compaction>>
    BY DEF Execute, Results, fsmVars
  <1>3. /\ \A d \in Clients : Holding(d)' => /\ Holding(d) /\ hand'[d] = hand[d]
                                             /\ Executing(d) => Executing(d)'
        /\ \A d \in Clients \ {c} : Succeeded(d)' = Succeeded(d)
        /\ \A d \in Clients : pc'[d] = "scan" => pc[d] = "scan" /\ walk'[d].phase = walk[d].phase
    BY <1>2 DEF Holding, Executing, Succeeded, Results, BucketInv, TypeOK
  <1>4. Succeeded(c)' /\ Stage(c) = "ReduceTask" => Bucket(c) \in output'
    <2>1. SUFFICES ASSUME Succeeded(c)', Stage(c) = "ReduceTask" PROVE Bucket(c) \in output'
      OBVIOUS
    <2>2. pc'[c] = "TaskSuccess"
      BY <1>2, <2>1 DEF Succeeded, Results, BucketInv, TypeOK
    <2>3. c \notin Compacters
      BY <1>2, <2>1 DEF PoolInv, Holding, Executing, BucketInv
    <2>4. "ReduceTask" \in Handled(c)
      BY <2>3 DEF Handled, Clients
    <2>5. output' = output \cup {<<hand[c].PhaseIdx, hand[c].TaskId>>}
      BY <2>1, <2>2, <2>4 DEF Execute, Stage, BucketInv, TypeOK
    <2> QED
      BY <2>5 DEF Bucket
  <1>5. TokenInv'
    BY <1>2, <1>3, TokensKept DEF BucketInv
  <1>6. PoolInv'
    BY <1>2, <1>3 DEF PoolInv, Stage, Action, Clients, BucketInv
  <1>7. ReducedInv'
    <2>1. \A r \in reduction' : Action(r[1])' = "ReduceTask" => r \in output'
      BY <1>2 DEF ReducedInv, BucketInv, Action
    <2>2. \A d \in Clients : Stage(d)' = Stage(d) /\ Bucket(d)' = Bucket(d)
      BY <1>2 DEF Stage, Action, Bucket
    <2>3. \A d \in Clients : Succeeded(d)' /\ Stage(d)' = "ReduceTask" => Bucket(d)' \in output'
      BY <1>2, <1>3, <1>4, <2>2 DEF ReducedInv, BucketInv
    <2> QED
      BY <2>1, <2>3 DEF ReducedInv
  <1>8. ClaimInv'
    BY <1>2, <1>3 DEF ClaimInv, Stage, Action, Bucket, Clients, BucketInv
  <1> QED
    BY <1>1, <1>5, <1>6, <1>7, <1>8 DEF BucketInv

\* The report of the dispatch that inFlight records: the record is the task.
LEMMA AcceptBuckets == ASSUME NEW c \in Clients, BucketInv, AcceptReport(c) PROVE BucketInv'
  <1>1. TypeOK'
    BY ReportType DEF Report, BucketInv
  <1>2. PICK t \in Reported(c) : inFlight' = Evict(t) /\ hand' = [hand EXCEPT ![c] = t]
    BY DEF AcceptReport
  <1>3. t = hand[c]
    BY DEF AcceptReport, Superseded, Reported, WithId, TokenInv, Holding, Executing, BucketInv
  <1>4. hand' = hand
    BY <1>2, <1>3 DEF BucketInv, TypeOK
  <1>5. /\ inFlight' \subseteq inFlight
        /\ UNCHANGED <<clock, walk, reduction, compaction, output>>
    BY <1>2 DEF AcceptReport, Evict, storeVars
  <1>6. /\ \A d \in Clients \ {c} : pc'[d] = pc[d]
        /\ pc[c] = "TaskSuccess" => pc'[c] = "complete"
        /\ pc[c] # "TaskSuccess" => pc'[c] \in {"fail", "continue"}
        /\ pc'[c] \in {"complete", "fail", "continue"}
    BY DEF AcceptReport, Results, BucketInv, TypeOK
  <1>7. /\ \A d \in Clients : Holding(d)' => /\ Holding(d) /\ hand'[d] = hand[d]
                                             /\ Executing(d) => Executing(d)'
        /\ \A d \in Clients : Succeeded(d)' => Succeeded(d) /\ hand'[d] = hand[d]
        /\ \A d \in Clients : pc'[d] = "scan" => pc[d] = "scan" /\ walk'[d].phase = walk[d].phase
    BY <1>4, <1>5, <1>6 DEF Holding, Executing, Succeeded, Results
  <1>8. TokenInv'
    BY <1>5, <1>7, TokensKept DEF BucketInv
  <1>9. PoolInv' /\ ReducedInv' /\ ClaimInv'
    <2>1. PoolInv /\ ReducedInv /\ ClaimInv
      BY DEF BucketInv
    <2>2. \A d \in Clients : Holding(d)' => Holding(d) /\ hand'[d] = hand[d]
      BY <1>7
    <2> QED
      BY <1>5, <1>7, <2>1, <2>2, BucketsKept
  <1> QED
    BY <1>1, <1>8, <1>9 DEF BucketInv

\* The reports that go on, and MarkReduceDone.
LEMMA ReportBuckets ==
  ASSUME NEW c \in Clients, BucketInv, Report(c) \/ Abandon(c)
  PROVE  BucketInv'
  <1>1. TypeOK'
    BY ReportType, ExecuteType DEF BucketInv
  <1>2. CASE IgnoreReport(c) \/ Abandon(c)
    BY <1>1, <1>2, ForgetBuckets
    DEF IgnoreReport, Abandon, fsmVars, storeVars, BucketInv
  <1>3. CASE AcceptReport(c)
    BY <1>3, AcceptBuckets
  <1>4. CASE AcceptLateSuccess(c)
    <2>1. /\ pc[c] = "TaskSuccess" /\ pc' = [pc EXCEPT ![c] = "completeLate"]
          /\ UNCHANGED <<inFlight, clock, hand, walk, reduction, compaction, output>>
      BY <1>4 DEF AcceptLateSuccess, fsmVars, storeVars
    <2>2. /\ \A d \in Clients : Holding(d)' => /\ Holding(d) /\ hand'[d] = hand[d]
                                               /\ Executing(d) => Executing(d)'
          /\ \A d \in Clients : Succeeded(d)' => Succeeded(d) /\ hand'[d] = hand[d]
          /\ \A d \in Clients : pc'[d] = "scan" => pc[d] = "scan" /\ walk'[d].phase = walk[d].phase
      BY <2>1 DEF Holding, Executing, Succeeded, Results, BucketInv, TypeOK
    <2>3. TokenInv'
      BY <2>1, <2>2, TokensKept DEF BucketInv
    <2>4. PoolInv' /\ ReducedInv' /\ ClaimInv'
      <3>1. PoolInv /\ ReducedInv /\ ClaimInv
        BY DEF BucketInv
      <3>2. \A d \in Clients : Holding(d)' => Holding(d) /\ hand'[d] = hand[d]
        BY <2>2
      <3> QED
        BY <2>1, <2>2, <3>1, <3>2, BucketsKept
    <2> QED
      BY <1>1, <2>3, <2>4 DEF BucketInv
  <1>5. CASE CompleteTask(c)
    <2>1. /\ inFlight' \subseteq inFlight
          /\ UNCHANGED <<clock, walk, reduction, compaction, output>>
      BY <1>5 DEF CompleteTask, storeVars
    <2>2. CASE Forget(c, "idle")
      BY <1>1, <2>1, <2>2, ForgetBuckets DEF BucketInv
    <2>3. CASE pc[c] = "complete" /\ pc' = [pc EXCEPT ![c] = "mark"] /\ hand' = hand
      <3>1. /\ \A d \in Clients : Holding(d)' => /\ Holding(d) /\ hand'[d] = hand[d]
                                                 /\ Executing(d) => Executing(d)'
            /\ \A d \in Clients : Succeeded(d)' => Succeeded(d) /\ hand'[d] = hand[d]
            /\ \A d \in Clients : pc'[d] = "scan" => pc[d] = "scan" /\ walk'[d].phase = walk[d].phase
        BY <2>1, <2>3 DEF Holding, Executing, Succeeded, Results, BucketInv, TypeOK
      <3>2. TokenInv'
        BY <2>1, <3>1, TokensKept DEF BucketInv
      <3>3. PoolInv' /\ ReducedInv' /\ ClaimInv'
        <4>1. PoolInv /\ ReducedInv /\ ClaimInv
          BY DEF BucketInv
        <4>2. \A d \in Clients : Holding(d)' => Holding(d) /\ hand'[d] = hand[d]
          BY <3>1
        <4> QED
          BY <2>1, <3>1, <4>1, <4>2, BucketsKept
      <3> QED
        BY <1>1, <3>2, <3>3 DEF BucketInv
    <2> QED
      BY <1>5, <2>2, <2>3 DEF CompleteTask
  <1>6. CASE MarkReduceDone(c)
    <2>1. /\ pc[c] = "mark" /\ Forget(c, "idle")
          /\ reduction' \subseteq reduction \cup {Bucket(c)}
          /\ UNCHANGED <<inFlight, clock, walk, compaction, output>>
      BY <1>6 DEF MarkReduceDone, Bucket, fsmVars
    <2>2. \A d \in Clients : \/ d # c /\ pc'[d] = pc[d] /\ hand'[d] = hand[d]
                             \/ pc'[d] = "idle"
      BY <2>1 DEF Forget, BucketInv, TypeOK
    <2>3. /\ \A d \in Clients : Holding(d)' => /\ Holding(d) /\ hand'[d] = hand[d]
                                               /\ Executing(d) => Executing(d)'
          /\ \A d \in Clients : Succeeded(d)' => Succeeded(d) /\ hand'[d] = hand[d]
          /\ \A d \in Clients : pc'[d] = "scan" => pc[d] = "scan" /\ walk'[d].phase = walk[d].phase
      BY <2>1, <2>2 DEF Holding, Executing, Succeeded, Results
    <2>4. TokenInv'
      BY <2>1, <2>3, TokensKept DEF BucketInv
    <2>5. PoolInv'
      BY <2>1, <2>3 DEF PoolInv, Stage, Action, Clients, BucketInv
    <2>6. ReducedInv'
      <3>1. Stage(c) = "ReduceTask" => Bucket(c) \in output
        BY <2>1 DEF ReducedInv, Succeeded, BucketInv
      <3>2. \A r \in reduction' : Action(r[1]) = "ReduceTask" => r \in output
        BY <2>1, <3>1 DEF ReducedInv, Stage, Bucket, BucketInv
      <3> QED
        BY <2>1, <2>3, <3>2 DEF ReducedInv, Stage, Action, Bucket, BucketInv
    <2>7. ClaimInv'
      BY <2>1, <2>3 DEF ClaimInv, Stage, Action, Bucket, Clients, BucketInv
    <2> QED
      BY <1>1, <2>4, <2>5, <2>6, <2>7 DEF BucketInv
  <1>7. CASE FailTask(c) \/ ContinueTask(c)
    BY <1>1, <1>7, ForgetBuckets
    DEF FailTask, ContinueTask, storeVars, BucketInv
  <1> QED
    BY <1>2, <1>3, <1>4, <1>5, <1>6, <1>7 DEF Report

(***************************************************************************)
(* The theorems                                                            *)
(***************************************************************************)
\* BucketInv is inductive.
LEMMA BucketStep == BucketInv /\ [Next]_vars => BucketInv'
  <1> SUFFICES ASSUME BucketInv, [Next]_vars PROVE BucketInv'
    OBVIOUS
  <1>1. CASE Listener \/ Sweep
    BY <1>1, QuietBuckets
  <1>2. ASSUME NEW c \in Clients, ClientStep(c) \/ Abandon(c) PROVE BucketInv'
    BY <1>2, QuietBuckets, TakeBuckets, ScanBuckets, DispatchBuckets, SkipBuckets,
       ClaimBuckets, ExecuteBuckets, ReportBuckets
    DEF ClientStep, Poll, Compact
  <1>3. CASE UNCHANGED vars
    <2>1. TypeOK'
      BY TypeStep DEF BucketInv
    <2> QED
      BY <1>3, <2>1, IdleBuckets DEF vars, fsmVars, storeVars, BucketInv
  <1> QED
    BY <1>1, <1>2, <1>3 DEF Next

\* It holds when the coordinator starts.
LEMMA BucketInit == Init => BucketInv
  <1> SUFFICES ASSUME Init PROVE BucketInv
    OBVIOUS
  <1>1. \A c \in Clients : ~Holding(c) /\ ~Succeeded(c) /\ pc[c] # "scan"
    BY DEF Init, Holding, Executing, Succeeded, Results
  <1>2. TokenInv
    BY <1>1 DEF Init, TokenInv
  <1>3. PoolInv /\ ReducedInv /\ ClaimInv
    BY <1>1 DEF Init, PoolInv, ReducedInv, ClaimInv, Clients
  <1> QED
    BY <1>2, <1>3, InitType DEF BucketInv

\* Two compacters never compact the same bucket, whatever the sweeper re-enqueues,
\* MongoDB loses and the clients do: the claim outlives every retry of its task.
THEOREM CompactionIsExclusive == Spec => []CompactionExclusive
  <1>1. BucketInv => CompactionExclusive
    BY DEF BucketInv, ClaimInv, CompactionExclusive, Holding, Stage, Bucket
  <1> QED
    BY <1>1, BucketInit, BucketStep, PTL DEF Spec

\* A bucket is marked reduced and handed to a compacter only with its reduce
\* output in place, although MarkReduceDone is called outside every lock.
THEOREM ReducedIsBeforeCompacted == Spec => []ReducedBeforeCompacted
  <1>1. BucketInv => ReducedBeforeCompacted
    BY DEF BucketInv, ReducedInv, ClaimInv, ReducedBeforeCompacted, Holding, Stage
  <1> QED
    BY <1>1, BucketInit, BucketStep, PTL DEF Spec
=============================================================================
