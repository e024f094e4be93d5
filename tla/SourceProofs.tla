---------------------------- MODULE SourceProofs ----------------------------
(***************************************************************************)
(* The data source loses no chunk, whatever the input: by itself, and as   *)
(* part of the way of the data. The invariant says where every chunk that  *)
(* was pushed is, in order: proposed, held by the listener, or queued.     *)
(***************************************************************************)
EXTENDS DataPath, SequenceTheorems, TLAPS

InOrder == pushed = tasks \o (held \o items)

\* Between Pop and the proposal the listener holds a chunk; at the end the producer
\* has closed the queue, which it does only when there is no file left to push from.
ListenerAt ==
    /\ lpc \in {"test", "pop", "end", "ended"} => held = <<>>
    /\ lpc \in {"store", "propose"} => Len(held) = 1
    /\ lpc \in {"end", "ended"} => closed /\ items = <<>>
    /\ sourceDone => lpc = "ended"

SourceInv ==
    /\ SourceTypeOK
    /\ InOrder
    /\ ListenerAt
    /\ closed => file = Len(ChunksOf) + 1

LEMMA InputLength == /\ Len(ChunksOf) \in Nat
                     /\ 1 \in 1..(Len(ChunksOf) + 1)
                     /\ Len(ChunksOf) + 1 \in 1..(Len(ChunksOf) + 1)
                     /\ \A f \in 1..Len(ChunksOf) : f + 1 \in 1..(Len(ChunksOf) + 1)
  <1>1. Len(ChunksOf) \in Nat
    BY ChunksOfAssumption, LenProperties
  <1> QED  BY <1>1

\* Popping moves the first chunk from the queue to the listener.
LEMMA PopKeepsOrder ==
    ASSUME NEW S, NEW q \in Seq(S), q # <<>>
    PROVE  /\ Head(q) \in S /\ Tail(q) \in Seq(S)
           /\ <<Head(q)>> \o Tail(q) = q
  <1>1. Head(q) \in S /\ Tail(q) \in Seq(S) /\ Len(Tail(q)) = Len(q) - 1
    BY HeadTailProperties
  <1>2. \A i \in 1..Len(Tail(q)) : Tail(q)[i] = q[i + 1]
    BY HeadTailProperties
  <1>3. Len(q) \in Nat \ {0}
    BY EmptySeq
  <1>4. <<Head(q)>> \in Seq(S) /\ Len(<<Head(q)>>) = 1 /\ <<Head(q)>>[1] = q[1]
    BY <1>1
  <1>5. /\ <<Head(q)>> \o Tail(q) \in Seq(S)
        /\ Len(<<Head(q)>> \o Tail(q)) = Len(q)
    BY <1>1, <1>3, <1>4, ConcatProperties
  <1>6. ASSUME NEW i \in 1..Len(q)
        PROVE  (<<Head(q)>> \o Tail(q))[i] = q[i]
    <2>1. (<<Head(q)>> \o Tail(q))[i] = IF i <= 1 THEN <<Head(q)>>[i] ELSE Tail(q)[i - 1]
      BY <1>1, <1>3, <1>4, ConcatProperties
    <2>2. CASE i = 1
      BY <2>1, <2>2, <1>4
    <2>3. CASE i # 1
      <3>1. i - 1 \in 1..Len(Tail(q)) /\ (i - 1) + 1 = i /\ ~(i <= 1)
        BY <2>3, <1>1, <1>3
      <3> QED  BY <3>1, <2>1, <1>2
    <2> QED  BY <2>2, <2>3
  <1> QED  BY <1>1, <1>5, <1>6, SeqEqual

LEMMA SourceInitInv == SourceInit => SourceInv
  <1> SUFFICES ASSUME SourceInit PROVE SourceInv
    OBVIOUS
  <1>1. <<>> \in Seq(FileChunk)
    BY EmptySeq
  <1>2. <<>> \o (<<>> \o <<>>) = <<>>
    BY <1>1, ConcatEmptySeq
  <1>3. SourceTypeOK
    BY <1>1, InputLength DEF SourceInit, SourceTypeOK, ListenerPCs
  <1>4. InOrder
    BY <1>2 DEF SourceInit, InOrder
  <1>5. ListenerAt /\ ~closed
    BY DEF SourceInit, ListenerAt
  <1> QED  BY <1>3, <1>4, <1>5 DEF SourceInv

LEMMA SourceStepInv == SourceInv /\ [SourceNext]_sourceVars => SourceInv'
  <1> SUFFICES ASSUME SourceInv, [SourceNext]_sourceVars PROVE SourceInv'
    OBVIOUS
  <1>t. /\ items \in Seq(FileChunk) /\ held \in Seq(FileChunk)
        /\ tasks \in Seq(FileChunk) /\ pushed \in Seq(FileChunk)
    BY DEF SourceInv, SourceTypeOK
  <1>1. CASE Push
    <2>1. <<file, part + 1>> \in FileChunk
      BY <1>1 DEF Push, SourceInv, SourceTypeOK, FileChunk
    <2>2. items' \in Seq(FileChunk) /\ pushed' \in Seq(FileChunk)
      BY <1>1, <1>t, <2>1 DEF Push
    <2>3. InOrder'
      <3> DEFINE new == <<<<file, part + 1>>>>
      <3>1. pushed' = Append(pushed, <<file, part + 1>>) /\ items' = Append(items, <<file, part + 1>>)
        BY <1>1 DEF Push
      <3>2. pushed' = pushed \o new /\ items' = items \o new
        BY <3>1, <2>1, <1>t, AppendIsConcat
      <3>3. tasks' = tasks /\ held' = held
        BY <1>1 DEF Push, listenerVars
      <3>4. new \in Seq(FileChunk)
        BY <2>1
      <3> HIDE DEF new
      <3>5. (tasks \o (held \o items)) \o new = tasks \o (held \o (items \o new))
        <4> DEFINE rest == held \o items
        <4>1. rest \in Seq(FileChunk)
          BY <1>t, ConcatProperties
        <4>2. rest \o new = held \o (items \o new)
          BY <1>t, <3>4, ConcatAssociative
        <4> HIDE DEF rest
        <4>3. (tasks \o rest) \o new = tasks \o (rest \o new)
          BY <1>t, <3>4, <4>1, ConcatAssociative
        <4> QED  BY <4>2, <4>3 DEF rest
      <3> QED  BY <3>2, <3>3, <3>5 DEF SourceInv, InOrder
    <2>4. ~closed
      BY <1>1 DEF Push, SourceInv
    <2>5. SourceTypeOK' /\ (closed' => file' = Len(ChunksOf) + 1)
      BY <1>1, <2>2, <2>4, InputLength DEF Push, SourceInv, SourceTypeOK, listenerVars
    <2>6. ListenerAt'
      BY <1>1, <2>4 DEF Push, SourceInv, ListenerAt, listenerVars
    <2> QED  BY <2>3, <2>5, <2>6 DEF SourceInv
  <1>2. CASE NextFile \/ StopWalk \/ Close
    <2>1. UNCHANGED <<items, pushed, listenerVars>>
      BY <1>2 DEF NextFile, StopWalk, Close, producerVars
    <2>2. InOrder'
      BY <2>1 DEF SourceInv, InOrder, listenerVars
    <2>3. closed => closed'
      BY <1>2 DEF NextFile, StopWalk, Close
    <2>4. ListenerAt'
      BY <2>1, <2>3 DEF SourceInv, ListenerAt, listenerVars
    <2>5. /\ closed' \in BOOLEAN
          /\ file' \in 1..(Len(ChunksOf) + 1) /\ part' \in Nat
          /\ closed' => file' = Len(ChunksOf) + 1
      <3>1. closed \in BOOLEAN /\ file \in 1..(Len(ChunksOf) + 1) /\ part \in Nat
        BY DEF SourceInv, SourceTypeOK
      <3>2. closed /\ file \in 1..Len(ChunksOf) => FALSE
        BY DEF SourceInv
      <3>3. CASE NextFile
        BY <3>1, <3>2, <3>3, InputLength DEF NextFile
      <3>4. CASE StopWalk
        BY <3>1, <3>2, <3>4, InputLength DEF StopWalk
      <3>5. CASE Close
        BY <3>1, <3>5, InputLength DEF Close, producerVars
      <3> QED  BY <1>2, <3>3, <3>4, <3>5
    <2>6. SourceTypeOK'
      BY <2>1, <2>5 DEF SourceInv, SourceTypeOK, listenerVars
    <2> QED  BY <2>2, <2>4, <2>5, <2>6 DEF SourceInv
  <1>3. CASE TestDone \/ PopNothing \/ Store \/ Exhausted
    <2>1. UNCHANGED <<items, closed, producerVars, held, tasks>>
      BY <1>3 DEF TestDone, PopNothing, Store, Exhausted
    <2>2. InOrder' /\ (closed' => file' = Len(ChunksOf) + 1)
      BY <2>1 DEF SourceInv, InOrder, producerVars
    <2>3. stored' \subseteq FileChunk
      <3>1. CASE Store
        <4>1. 1 \in 1..Len(held)
          BY <3>1 DEF Store, SourceInv, ListenerAt
        <4>2. held[1] \in FileChunk
          BY <4>1, <1>t, ElementOfSeq
        <4> QED  BY <3>1, <4>2 DEF Store, SourceInv, SourceTypeOK
      <3>2. CASE ~Store
        BY <1>3, <3>2 DEF TestDone, PopNothing, Exhausted, SourceInv, SourceTypeOK
      <3> QED  BY <3>1, <3>2
    <2>4. lpc' \in ListenerPCs /\ sourceDone' \in BOOLEAN
      BY <1>3 DEF TestDone, PopNothing, Store, Exhausted, ListenerPCs, SourceInv, SourceTypeOK
    <2>5. SourceTypeOK'
      BY <2>1, <2>3, <2>4 DEF SourceInv, SourceTypeOK, producerVars
    <2>6. ListenerAt'
      BY <1>3 DEF TestDone, PopNothing, Store, Exhausted, Done, SourceInv, ListenerAt
    <2> QED  BY <2>2, <2>5, <2>6 DEF SourceInv
  <1>4. CASE Pop
    <2>1. /\ Head(items) \in FileChunk /\ Tail(items) \in Seq(FileChunk)
          /\ <<Head(items)>> \o Tail(items) = items
      BY <1>4, <1>t, PopKeepsOrder DEF Pop
    <2>2. held = <<>> /\ <<>> \o items = items
      BY <1>4, <1>t, ConcatEmptySeq DEF Pop, SourceInv, ListenerAt
    <2>3. held' \o items' = held \o items
      BY <1>4, <2>1, <2>2 DEF Pop
    <2>4. held' \in Seq(FileChunk) /\ Len(held') = 1
      BY <1>4, <2>1 DEF Pop
    <2> QED
      BY <1>4, <2>1, <2>3, <2>4 DEF Pop, SourceInv, SourceTypeOK, InOrder, ListenerAt,
                                    ListenerPCs, producerVars
  <1>5. CASE ProposeTask
    <2>1. tasks' \in Seq(FileChunk) /\ held' \in Seq(FileChunk)
      BY <1>5, <1>t, ConcatProperties DEF ProposeTask
    <2>2. (tasks \o held) \o items = tasks \o (held \o items)
      BY <1>t, ConcatAssociative
    <2>3. <<>> \o items = items
      BY <1>t, ConcatEmptySeq
    <2>4. InOrder'
      BY <1>5, <2>2, <2>3 DEF ProposeTask, SourceInv, InOrder, producerVars
    <2> QED
      BY <1>5, <2>1, <2>4 DEF ProposeTask, SourceInv, SourceTypeOK, ListenerAt, ListenerPCs,
                              producerVars
  <1>6. CASE UNCHANGED sourceVars
    BY <1>6 DEF SourceInv, SourceTypeOK, InOrder, ListenerAt, sourceVars, producerVars,
                listenerVars
  <1> QED
    BY <1>1, <1>2, <1>3, <1>4, <1>5, <1>6 DEF SourceNext, Producer, Listener

LEMMA SourceInvImplies == SourceInv => NoChunkLeft
  <1> SUFFICES ASSUME SourceInv, sourceDone PROVE closed /\ tasks = pushed
    BY DEF NoChunkLeft
  <1>1. closed /\ items = <<>> /\ held = <<>>
    BY DEF SourceInv, ListenerAt
  <1>2. tasks \o (<<>> \o <<>>) = tasks
    BY ConcatEmptySeq, EmptySeq DEF SourceInv, SourceTypeOK
  <1> QED  BY <1>1, <1>2 DEF SourceInv, InOrder

\* For every input, and however producer and listener interleave: when the source is
\* reported exhausted, no chunk is left behind (coordinator.go listenFromDataSource).
THEOREM NoChunkIsLeft == SourceSpec => []NoChunkLeft
  <1>1. SourceInit => SourceInv
    BY SourceInitInv
  <1>2. SourceInv /\ [SourceNext]_sourceVars => SourceInv'
    BY SourceStepInv
  <1>3. SourceInv => NoChunkLeft
    BY SourceInvImplies
  <1> QED  BY <1>1, <1>2, <1>3, PTL DEF SourceSpec

\* A step of the whole system is a step of the source, or leaves it alone.
LEMMA StepMapsToSource == [Next]_vars => [SourceNext]_sourceVars
  <1> SUFFICES ASSUME [Next]_vars PROVE [SourceNext]_sourceVars
    OBVIOUS
  <1>1. CASE Source
    BY <1>1 DEF Source
  <1>2. CASE Schedule
    BY <1>2 DEF Schedule, FindPhaseComplete, AdvancePhase, GiveUp, Dispatch
  <1>3. ASSUME NEW w \in Clients, Execute(w) PROVE UNCHANGED sourceVars
    BY <1>3 DEF Execute, SkipExecution, FailAtStart, ReadInput, ReadShort, CreateFile, WriteFile,
                WriteShort, WriteFails, Rename, UpsertKey, LastUpsert, UpsertFails, MarkSinkDone
  <1>4. ASSUME NEW w \in Clients, Report(w) \/ Crash(w) PROVE UNCHANGED sourceVars
    BY <1>4 DEF Report, IgnoreReport, CompleteTask, MarkReduceDone, CompleteLate, CountLate,
                FailTask, Crash
  <1>5. CASE UNCHANGED vars
    BY <1>5 DEF vars
  <1> QED  BY <1>1, <1>2, <1>3, <1>4, <1>5 DEF Next

\* The way of the data contains the source as ChunkQueue describes it, so that
\* NoChunkLeft holds of it too: for every input, number of clients and bound.
THEOREM DataPathHasSource == Spec => SourceSpec
  <1>1. Init => SourceInit
    BY DEF Init
  <1>2. [Next]_vars => [SourceNext]_sourceVars
    BY StepMapsToSource
  <1> QED  BY <1>1, <1>2, PTL DEF Spec, SourceSpec

THEOREM DataPathLeavesNoChunk == Spec => []NoChunkLeft
  BY NoChunkIsLeft, DataPathHasSource, PTL
=============================================================================
