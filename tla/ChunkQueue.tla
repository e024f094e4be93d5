----------------------------- MODULE ChunkQueue -----------------------------
(***************************************************************************)
(* The data source, the queue and the listener: the goroutine of           *)
(* FilesDataSource.StreamChunks pushes the chunks of one file after the    *)
(* other and closes the queue, listenFromDataSource tests Done, pops,      *)
(* stores the chunk and proposes its task. Done and Pop are two critical   *)
(* sections of the queue's own mutex, and the producer runs in between.    *)
(***************************************************************************)
EXTENDS Integers, Sequences

CONSTANT ChunksOf   \* the input: how many chunks each file yields, in walk order

ASSUME ChunksOfAssumption == ChunksOf \in Seq(Nat)

VARIABLES
    items, closed,      \* ChunkQueue
    file, part,         \* StreamChunks: the file it reads, the chunks read of it
    pushed,             \* history: every chunk ever pushed, in order
    lpc, held,          \* listenFromDataSource: where it stands, the chunk it holds
    stored,             \* chunks put in chunkStore
    tasks,              \* chunks whose CmdEnqueueTask is applied; the task id is the
                        \* position in this sequence, less one
    sourceDone          \* Coordinator.sourceDone

producerVars == <<file, part, pushed>>
listenerVars == <<lpc, held, stored, tasks, sourceDone>>
sourceVars   == <<items, closed, producerVars, listenerVars>>

\* A FileChunk is known by its file and its place in it.
FileChunk == Nat \X Nat

ListenerPCs == {"test", "pop", "store", "propose", "end", "ended"}

(***************************************************************************)
(* StreamChunks                                                            *)
(***************************************************************************)
Push ==
    /\ file \in 1..Len(ChunksOf)
    /\ part < ChunksOf[file]
    /\ items' = Append(items, <<file, part + 1>>)
    /\ pushed' = Append(pushed, <<file, part + 1>>)
    /\ part' = part + 1
    /\ UNCHANGED <<closed, file, listenerVars>>

\* End of file; or the file does not open, or a read fails, and the rest of it is
\* skipped with a message.
NextFile ==
    /\ file \in 1..Len(ChunksOf)
    /\ file' = file + 1
    /\ part' = 0
    /\ UNCHANGED <<items, closed, pushed, listenerVars>>

\* WalkDir fails on a directory entry: the walk ends there, with a message.
StopWalk ==
    /\ file \in 1..Len(ChunksOf)
    /\ part = 0
    /\ file' = Len(ChunksOf) + 1
    /\ UNCHANGED <<items, closed, part, pushed, listenerVars>>

Close ==
    /\ file = Len(ChunksOf) + 1
    /\ ~closed
    /\ closed' = TRUE
    /\ UNCHANGED <<items, producerVars, listenerVars>>

Producer == Push \/ NextFile \/ StopWalk \/ Close

(***************************************************************************)
(* listenFromDataSource                                                    *)
(***************************************************************************)
MutantDone == closed

MutantNeverDone == closed /\ items # <<>>

Done == closed /\ items = <<>>

TestDone ==
    /\ lpc = "test"
    /\ lpc' = IF Done THEN "end" ELSE "pop"
    /\ UNCHANGED <<items, closed, producerVars, held, stored, tasks, sourceDone>>

\* Pop finds the queue empty: the listener sleeps and tests again.
PopNothing ==
    /\ lpc = "pop"
    /\ items = <<>>
    /\ lpc' = "test"
    /\ UNCHANGED <<items, closed, producerVars, held, stored, tasks, sourceDone>>

Pop ==
    /\ lpc = "pop"
    /\ items # <<>>
    /\ held' = <<Head(items)>>
    /\ items' = Tail(items)
    /\ lpc' = "store"
    /\ UNCHANGED <<closed, producerVars, stored, tasks, sourceDone>>

\* The bytes go to chunkStore, and to a file of chunkDir when there is one.
Store ==
    /\ lpc = "store"
    /\ stored' = stored \cup {held[1]}
    /\ lpc' = "propose"
    /\ UNCHANGED <<items, closed, producerVars, held, tasks, sourceDone>>

ProposeTask ==
    /\ lpc = "propose"
    /\ tasks' = tasks \o held
    /\ held' = <<>>
    /\ lpc' = "test"
    /\ UNCHANGED <<items, closed, producerVars, stored, sourceDone>>

Exhausted ==
    /\ lpc = "end"
    /\ sourceDone' = TRUE
    /\ lpc' = "ended"
    /\ UNCHANGED <<items, closed, producerVars, held, stored, tasks>>

Listener == TestDone \/ PopNothing \/ Pop \/ Store \/ ProposeTask \/ Exhausted

(***************************************************************************)
(* Specification                                                           *)
(***************************************************************************)
SourceInit ==
    /\ items = <<>> /\ closed = FALSE
    /\ file = 1 /\ part = 0 /\ pushed = <<>>
    /\ lpc = "test" /\ held = <<>>
    /\ stored = {} /\ tasks = <<>>
    /\ sourceDone = FALSE

SourceNext == Producer \/ Listener

SourceSpec == SourceInit /\ [][SourceNext]_sourceVars

(***************************************************************************)
(* Properties                                                              *)
(***************************************************************************)
SourceTypeOK ==
    /\ items \in Seq(FileChunk) /\ closed \in BOOLEAN
    /\ file \in 1..(Len(ChunksOf) + 1) /\ part \in Nat
    /\ pushed \in Seq(FileChunk)
    /\ lpc \in ListenerPCs
    /\ held \in Seq(FileChunk)
    /\ stored \subseteq FileChunk /\ tasks \in Seq(FileChunk)
    /\ sourceDone \in BOOLEAN

\* sourceDone is set only when every chunk that the producer has pushed, and will
\* ever push, has its task, in the order of the files: although Done, Pop and
\* Close are separate critical sections, no chunk is left in the queue.
NoChunkLeft == sourceDone => closed /\ tasks = pushed
=============================================================================
