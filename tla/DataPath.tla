------------------------------ MODULE DataPath ------------------------------
(***************************************************************************)
(* The way of the data, from the chunks of the source to the documents of  *)
(* the sink: what mapErr, reduceErr, groupByErr and sinkErr read and write *)
(* in the shared output directory, step by step, for a job of the stages   *)
(* Map, Reduce, GroupBy, Sink.                                             *)
(*                                                                         *)
(* An execution is cut where another client, or a crash, can tell: between *)
(* creating a file and having written all of it, between two files, and    *)
(* before a rename. Errors the code does not look at (of a scanner, a      *)
(* decoder, a Fprintf, a Close) are steps of their own that go on as if    *)
(* nothing had happened, with part of the records.                         *)
(*                                                                         *)
(* The scheduler is that of Coordinator, without its queue: a task is      *)
(* given out again when its client is silent for too long, reports are     *)
(* counted, and the phase moves on when the count is reached.              *)
(***************************************************************************)
EXTENDS ChunkQueue, FiniteSets

CONSTANTS
    Workers, Compacters,
    NReduce,
    maxRetries,
    Slow,       \* clients that may outlive taskTimeout and go on
    MaxFaults   \* bound: failures, crashes and lost messages of a behaviour

ASSUME DataPathAssumption ==
    /\ Workers \cap Compacters = {}
    /\ Slow \subseteq Workers \cup Compacters
    /\ NReduce \in Nat \ {0}
    /\ maxRetries \in Nat \ {0}
    /\ MaxFaults \in Nat

VARIABLES
    phase,
    phaseDone,  \* how many reports and give-ups this phase has counted
    gone,       \* ids of this phase that are no longer queued or in flight
    failed,     \* <<phase, id>> given up
    attempts,   \* how often a task of this phase was given out
    claimed,    \* buckets claimed for compaction
    exec,       \* what each client is doing
    files,      \* the output directory: path -> File
    reduction,  \* buckets with a MarkReduceDone record
    sunk,       \* bucket -> tasks whose records its documents hold
    sinkResult, \* buckets with a MarkSinkDone record
    faults,     \* faults so far
    mishaps     \* history: see Mishaps

jobVars  == <<phase, phaseDone, gone, failed, attempts, claimed, reduction>>
sinkVars == <<sunk, sinkResult>>
history  == <<faults, mishaps>>
vars     == <<sourceVars, jobVars, exec, files, sinkVars, history>>

Stages  == <<"MapTask", "ReduceTask", "GroupByTask", "SinkTask">>
Clients == Workers \cup Compacters
Buckets == 0..(NReduce - 1)
Stage   == Stages[phase + 1]
done    == phase >= Len(Stages)

MapTasks   == 0..(Len(tasks) - 1)
MutantPhaseTasks == MapTasks

PhaseTasks == IF phase = 0 THEN MapTasks ELSE Buckets
phaseTotal == IF phase = 0 THEN Len(tasks) ELSE NReduce

\* by: the last client to have created (and so truncated) the file; closed: it has
\* written and closed it; got: the map tasks whose records it has written in full.
File(w, closes, got) == [by |-> w, closed |-> closes, got |-> got]

\* f with the value v at x, which need not have been there.
Put(f, x, v) == [y \in {x} \cup DOMAIN f |-> IF y = x THEN v ELSE f[y]]

\* A client with nothing read: idle, or waiting for the coordinator's handler to return.
Waiting(where, p, t) ==
    [at |-> where, phase |-> p, task |-> t, try |-> 0, todo |-> {}, got |-> {}]

Idle == Waiting("idle", 0, 0)

\* Interrupted: a map or reduce execution stopped with its files half written.
\* Overtaken:   a map or reduce task was given out while a slow client was at it.
\* ShortRead, ShortSink: an error, or too long a line, ended the input of a reduce or
\*              GroupBy execution, or of a sink execution, unnoticed.
\* ShortWrite:  an error cut an output file short, unnoticed.
\* Recounted:   a success was counted that had no record.
\* Overlapped:  a phase was left early, or twice, or counted a report of another.
Mishaps == {"Interrupted", "Overtaken", "ShortRead", "ShortSink", "ShortWrite", "Recounted",
            "Overlapped"}

(***************************************************************************)
(* Paths                                                                   *)
(***************************************************************************)
MapFile(t, b)  == <<"map", t, b>>
ReduceFile(b)  == <<"reduce", b, b>>
GroupByFile(b) == <<"groupby", b, b>>

MutantTmpFile(b) == GroupByFile(b)

TmpFile(b) == <<"tmp", b, b>>

Exists(path) == path \in DOMAIN files

MutantCheckpoint(type, t) ==
    CASE type = "MapTask"     -> \E c \in MapTasks, b \in Buckets : Exists(MapFile(c, b))
      [] type = "ReduceTask"  -> Exists(ReduceFile(t))
      [] type = "GroupByTask" -> Exists(GroupByFile(t))
      [] OTHER                -> FALSE

\* The output that makes an execution return at once.
Checkpoint(type, t) ==
    CASE type = "MapTask"     -> \E b \in Buckets : Exists(MapFile(t, b))
      [] type = "ReduceTask"  -> Exists(ReduceFile(t))
      [] type = "GroupByTask" -> Exists(GroupByFile(t))
      [] OTHER                -> FALSE

Outputs(type, t) ==
    CASE type = "MapTask"     -> {MapFile(t, b) : b \in Buckets}
      [] type = "ReduceTask"  -> {ReduceFile(t)}
      [] type = "GroupByTask" -> {TmpFile(t)}
      [] OTHER                -> {}

\* What a reader may find in a file: one being written, or left so, ends anywhere.
Found(path) == IF files[path].closed THEN {files[path].got} ELSE SUBSET files[path].got

\* reduceErr globs its bucket's map files, and no match is no error; groupByErr and
\* sinkErr have one input each.
Input(type, t) ==
    CASE type = "MapTask" -> {{t}}
      [] type = "ReduceTask" ->
            {UNION {choice[c] : c \in MapTasks} : choice \in
                {f \in [MapTasks -> SUBSET MapTasks] : \A c \in MapTasks :
                    f[c] \in IF Exists(MapFile(c, t)) THEN Found(MapFile(c, t)) ELSE {{}}}}
      [] type = "GroupByTask" -> Found(ReduceFile(t))
      [] OTHER -> Found(GroupByFile(t))

InputMissing(type, t) == \/ type = "GroupByTask" /\ ~Exists(ReduceFile(t))
                         \/ type = "SinkTask" /\ ~Exists(GroupByFile(t))

(***************************************************************************)
(* The scheduler                                                           *)
(***************************************************************************)
At(w, where) == exec[w].at = where

Type(w) == Stages[exec[w].phase + 1]

\* w executes a task or has its report to make. At the other places it is idle, or
\* waits for the coordinator's handler to return.
Busy(w) == exec[w].at \notin {"idle", "advance", "late", "reduced"}

WorkingOn(t) == {v \in Clients : Busy(v) /\ exec[v].phase = phase /\ exec[v].task = t}

Overlapped == "Overlapped" \in mishaps

\* In the queue, or in flight with a client silent for so long that it is swept.
Queued(t) == t \notin gone /\ WorkingOn(t) \subseteq Slow

\* A compacter is given the GroupBy task of a bucket when it has claimed it, once;
\* a task back in the queue goes to whoever polls AskForTask.
Offered(w, t) ==
    CASE Stage = "GroupByTask" -> IF w \in Compacters THEN t \in reduction \ claimed
                                                      ELSE attempts[t] > 0 \/ Overlapped
      [] Stage = "SinkTask" -> TRUE
      [] OTHER -> w \in Workers

\* After an overlap a task may be queued several times over, in flight or not
\* (Coordinator has it in detail): any is given out, within the bound on attempts.
Dispatch(w, t) ==
    /\ ~done
    /\ At(w, "idle")
    /\ t \in PhaseTasks
    /\ Queued(t) \/ Overlapped
    /\ attempts[t] < maxRetries
    /\ Offered(w, t)
    /\ attempts' = [attempts EXCEPT ![t] = @ + 1]
    /\ claimed' = IF Stage = "GroupByTask" /\ w \in Compacters THEN claimed \cup {t} ELSE claimed
    /\ gone' = gone \ {t}
    /\ exec' = [exec EXCEPT ![w] = [Idle EXCEPT !.at = "start", !.phase = phase,
                                                !.task = t, !.try = attempts[t] + 1]]
    /\ mishaps' = mishaps \cup
          (IF WorkingOn(t) # {} /\ Stage \in {"MapTask", "ReduceTask"}
           THEN {"Overtaken"} ELSE {})
    /\ UNCHANGED <<sourceVars, phase, phaseDone, failed, reduction, files, sinkVars, faults>>

\* The sweeper, at the retry limit.
GiveUp(t) ==
    /\ ~done
    /\ t \in PhaseTasks
    /\ Queued(t)
    /\ attempts[t] = maxRetries
    /\ gone' = gone \cup {t}
    /\ phaseDone' = phaseDone + 1
    /\ failed' = failed \cup {<<phase, t>>}
    /\ UNCHANGED <<sourceVars, phase, attempts, claimed, reduction, exec, files, sinkVars,
                   history>>

\* AskForTask finds the count reached, unlocks, and is about to propose the transition.
\* That nothing is queued or in flight follows from an exact count; after a late
\* success a task in a handler's hands is neither, and the phase is left without it.
FindPhaseComplete(w) ==
    /\ ~done
    /\ w \in Workers /\ At(w, "idle")
    /\ phase = 0 => sourceDone
    /\ phaseDone = phaseTotal \/ Overlapped
    /\ exec' = [exec EXCEPT ![w] = Waiting("advance", phase, 0)]
    /\ UNCHANGED <<sourceVars, jobVars, files, sinkVars, history>>

\* CmdAdvancePhase looks at nothing again.
AdvancePhase(w) ==
    /\ At(w, "advance")
    /\ phase' = phase + 1
    /\ phaseDone' = 0 /\ gone' = {}
    /\ attempts' = [t \in Buckets |-> 0]
    /\ mishaps' = mishaps \cup (IF exec[w].phase = phase /\ PhaseTasks \subseteq gone
                                THEN {} ELSE {"Overlapped"})
    /\ exec' = [exec EXCEPT ![w] = Idle]
    /\ UNCHANGED <<sourceVars, failed, claimed, reduction, files, sinkVars, faults>>

\* The record in flight is the one of this dispatch; there may be none: taken by an
\* earlier report, or swept, which the newest client, if on time and at it, prevents.
HasRecord(w) == exec[w].task \notin gone /\ exec[w].try = attempts[exec[w].task]

NoRecord(t) ==
    \/ t \in gone
    \/ /\ attempts[t] < maxRetries
       /\ \A v \in WorkingOn(t) \ Slow : exec[v].try < attempts[t]

IgnoreReport(w) ==
    /\ exec[w].at \in {"success", "failed"}
    /\ exec[w].phase = phase =>
          \/ exec[w].task \notin gone /\ exec[w].try < attempts[exec[w].task]
          \/ At(w, "failed") /\ NoRecord(exec[w].task)
    /\ exec' = [exec EXCEPT ![w] = Idle]
    /\ UNCHANGED <<sourceVars, jobVars, files, sinkVars, history>>

CompleteTask(w) ==
    /\ At(w, "success")
    /\ exec[w].phase = phase
    /\ HasRecord(w)
    /\ gone' = gone \cup {exec[w].task}
    /\ phaseDone' = phaseDone + 1
    /\ exec' = [exec EXCEPT ![w] = IF Stage # "ReduceTask" THEN Idle
                                   ELSE Waiting("reduced", phase, exec[w].task)]
    /\ UNCHANGED <<sourceVars, phase, failed, attempts, claimed, reduction, files, sinkVars,
                   history>>

\* The insert, after the count; it may fail, with a warning.
MarkReduceDone(w) ==
    /\ At(w, "reduced")
    /\ reduction' \in {reduction, reduction \cup {exec[w].task}}
    /\ exec' = [exec EXCEPT ![w] = Idle]
    /\ UNCHANGED <<sourceVars, phase, phaseDone, gone, failed, attempts, claimed, files,
                   sinkVars, history>>

\* A success that finds no record passes too, and is about to propose its count.
CompleteLate(w) ==
    /\ At(w, "success")
    /\ exec[w].phase = phase
    /\ NoRecord(exec[w].task)
    /\ exec' = [exec EXCEPT ![w] = Waiting("late", phase, exec[w].task)]
    /\ UNCHANGED <<sourceVars, jobVars, files, sinkVars, history>>

\* CmdCompleteTask counts whatever it is given, and drops the record of a dispatch
\* made since, if there is one.
CountLate(w) ==
    /\ At(w, "late")
    /\ phaseDone' = phaseDone + 1
    /\ gone' \in {gone, gone \cup ({exec[w].task} \cap PhaseTasks)}
    /\ mishaps' = mishaps \cup {"Recounted"} \cup
          (IF exec[w].phase = phase THEN {} ELSE {"Overlapped"})
    /\ exec' = [exec EXCEPT ![w] = Idle]
    /\ UNCHANGED <<sourceVars, phase, failed, attempts, claimed, reduction, files, sinkVars,
                   faults>>

\* NoticeResult has evicted the record before CmdFailTask looks for it: the task is
\* neither queued nor counted.
FailTask(w) ==
    /\ At(w, "failed")
    /\ exec[w].phase = phase
    /\ HasRecord(w)
    /\ gone' = gone \cup {exec[w].task}
    /\ exec' = [exec EXCEPT ![w] = Idle]
    /\ UNCHANGED <<sourceVars, phase, phaseDone, failed, attempts, claimed, reduction, files,
                   sinkVars, history>>

(***************************************************************************)
(* An execution                                                            *)
(***************************************************************************)
GoTo(w, where) == exec' = [exec EXCEPT ![w].at = where]

\* What leaves a half-written file behind for the next execution to trust.
HalfWritten(w) ==
    /\ Type(w) \in {"MapTask", "ReduceTask"}
    /\ exec[w].at \in {"create", "write"}
    /\ exec[w].at = "create" => exec[w].todo # Outputs(Type(w), exec[w].task)

Interruption(w) == IF HalfWritten(w) THEN {"Interrupted"} ELSE {}

Fault(kinds) ==
    /\ faults < MaxFaults
    /\ faults' = faults + 1
    /\ mishaps' = mishaps \cup kinds

\* A type the client has no case for, or an output that is there: success at once.
SkipExecution(w) ==
    /\ At(w, "start")
    /\ \/ (w \in Workers) # (Type(w) \in {"MapTask", "ReduceTask"})
       \/ Checkpoint(Type(w), exec[w].task)
    /\ GoTo(w, "success")
    /\ UNCHANGED <<sourceVars, jobVars, files, sinkVars, history>>

\* The plugin does not load, the chunk is gone, or the input file is not there.
FailAtStart(w) ==
    /\ At(w, "start")
    /\ \/ Fault({})
       \/ InputMissing(Type(w), exec[w].task) /\ UNCHANGED history
    /\ GoTo(w, "failed")
    /\ UNCHANGED <<sourceVars, jobVars, files, sinkVars>>

MutantNextStep(type) == IF type = "SinkTask" THEN "mark" ELSE "create"

NextStep(type) == IF type = "SinkTask" THEN "upsert" ELSE "create"

ReadsInput(w) ==
    /\ At(w, "start")
    /\ (w \in Workers) = (Type(w) \in {"MapTask", "ReduceTask"})
    /\ ~Checkpoint(Type(w), exec[w].task)
    /\ ~InputMissing(Type(w), exec[w].task)

HasRead(w, got) == exec' = [exec EXCEPT ![w].at = NextStep(Type(w)), ![w].got = got,
                                        ![w].todo = Outputs(Type(w), exec[w].task)]

ReadInput(w) ==
    /\ ReadsInput(w)
    /\ \E got \in Input(Type(w), exec[w].task) : HasRead(w, got)
    /\ UNCHANGED <<sourceVars, jobVars, files, sinkVars, history>>

\* A decode error ends the file for reduceErr, and a Glob that fails has no match;
\* groupByErr and sinkErr do not ask the scanner why it has stopped: an error, or a
\* line above its limit. getChunk, which mapErr calls, returns the whole chunk or fails.
ReadShort(w) ==
    /\ ReadsInput(w)
    /\ Type(w) # "MapTask"
    /\ \E whole \in Input(Type(w), exec[w].task) : \E got \in SUBSET whole : HasRead(w, got)
    /\ Fault({IF Type(w) = "SinkTask" THEN "ShortSink" ELSE "ShortRead"})
    /\ UNCHANGED <<sourceVars, jobVars, files, sinkVars>>

\* os.Create: what the file held is gone. mapErr writes its buckets in any order.
CreateFile(w) ==
    /\ At(w, "create")
    /\ \E path \in exec[w].todo :
          /\ files' = Put(files, path, File(w, FALSE, exec[w].got))
          /\ exec' = [exec EXCEPT ![w].at = "write", ![w].todo = @ \ {path}]
    /\ UNCHANGED <<sourceVars, jobVars, sinkVars, history>>

\* The files the execution has created, of which it may have closed some.
Writing(w) == Outputs(Type(w), exec[w].task) \ exec[w].todo

\* The files when w is through with the one it is writing and has kept these records.
\* If another client has truncated it meanwhile, it is closed when that one is through,
\* and holds only what both have written.
Written(w, kept) ==
    [path \in DOMAIN files |->
        IF path \notin Writing(w) \/ (files[path].by = w /\ files[path].closed) THEN files[path]
        ELSE [files[path] EXCEPT !.got = @ \cap kept, !.closed = @ \/ files[path].by = w]]

AfterFile(w) == IF exec[w].todo # {} THEN "create"
                ELSE IF Type(w) = "GroupByTask" THEN "rename" ELSE "success"

WriteFile(w) ==
    /\ At(w, "write")
    /\ files' = Written(w, exec[w].got)
    /\ GoTo(w, AfterFile(w))
    /\ UNCHANGED <<sourceVars, jobVars, sinkVars, history>>

\* An error nobody looks at: reduceErr's of Fprintf, and everybody's of Close.
WriteShort(w) ==
    /\ At(w, "write")
    /\ \E kept \in SUBSET exec[w].got : files' = Written(w, kept)
    /\ GoTo(w, AfterFile(w))
    /\ Fault({"ShortWrite"})
    /\ UNCHANGED <<sourceVars, jobVars, sinkVars>>

Without(paths) == [path \in DOMAIN files \ paths |-> files[path]]

\* An error that is looked at: of Create, of Encode in mapErr, of Fprintf and Rename in
\* groupByErr, which then removes its temporary file.
WriteFails(w) ==
    /\ exec[w].at \in {"create", "write", "rename"}
    /\ At(w, "write") => Type(w) # "ReduceTask"
    /\ GoTo(w, "failed")
    /\ files' = IF Type(w) = "GroupByTask" /\ ~At(w, "create")
                THEN Without({TmpFile(exec[w].task)}) ELSE files
    /\ Fault(Interruption(w))
    /\ UNCHANGED <<sourceVars, jobVars, sinkVars>>

Rename(w) ==
    /\ At(w, "rename")
    /\ LET tmp == TmpFile(exec[w].task)
           out == GroupByFile(exec[w].task)
       IN  IF Exists(tmp)
           THEN /\ files' = Put(Without({tmp}), out, files[tmp])
                /\ GoTo(w, "success")
           ELSE /\ GoTo(w, "failed")
                /\ UNCHANGED files
    /\ UNCHANGED <<sourceVars, jobVars, sinkVars, history>>

\* One upsert per key, each overwriting: the documents are brought up to the file
\* by and by, and whoever stops half way leaves them like that.
UpsertKey(w) ==
    /\ At(w, "upsert")
    /\ \E t \in exec[w].got \ sunk[exec[w].task] :
          sunk' = [sunk EXCEPT ![exec[w].task] = @ \cup {t}]
    /\ UNCHANGED <<sourceVars, jobVars, exec, files, sinkResult, history>>

LastUpsert(w) ==
    /\ At(w, "upsert")
    /\ sunk' = [sunk EXCEPT ![exec[w].task] = @ \cup exec[w].got]
    /\ GoTo(w, "mark")
    /\ UNCHANGED <<sourceVars, jobVars, files, sinkResult, history>>

UpsertFails(w) ==
    /\ At(w, "upsert")
    /\ GoTo(w, "failed")
    /\ Fault({})
    /\ UNCHANGED <<sourceVars, jobVars, files, sinkVars>>

\* The insert may fail, with a warning.
MarkSinkDone(w) ==
    /\ At(w, "mark")
    /\ sinkResult' \in {sinkResult, sinkResult \cup {exec[w].task}}
    /\ GoTo(w, "success")
    /\ UNCHANGED <<sourceVars, jobVars, files, sunk, history>>

\* The client crashes and restarts, or its reply or report is lost.
Crash(w) ==
    /\ Busy(w)
    /\ exec' = [exec EXCEPT ![w] = Idle]
    /\ Fault(Interruption(w))
    /\ UNCHANGED <<sourceVars, jobVars, files, sinkVars>>

(***************************************************************************)
(* Specification                                                           *)
(***************************************************************************)
Init ==
    /\ SourceInit
    /\ phase = 0 /\ phaseDone = 0
    /\ gone = {} /\ failed = {} /\ claimed = {}
    /\ attempts = [t \in {} |-> 0]
    /\ exec = [w \in Clients |-> Idle]
    /\ files = [path \in {} |-> Idle]
    /\ reduction = {}
    /\ sunk = [b \in Buckets |-> {}] /\ sinkResult = {}
    /\ faults = 0 /\ mishaps = {}

\* A new map task has not been given out.
Source ==
    /\ SourceNext
    /\ attempts' = IF tasks' = tasks THEN attempts ELSE Put(attempts, Len(tasks), 0)
    /\ UNCHANGED <<phase, phaseDone, gone, failed, claimed, reduction, exec, files, sinkVars,
                   history>>

Schedule == \/ \E t \in PhaseTasks : GiveUp(t) \/ \E w \in Clients : Dispatch(w, t)
            \/ \E w \in Clients : FindPhaseComplete(w) \/ AdvancePhase(w)

Execute(w) == \/ SkipExecution(w) \/ FailAtStart(w) \/ ReadInput(w) \/ ReadShort(w)
              \/ CreateFile(w) \/ WriteFile(w) \/ WriteShort(w) \/ WriteFails(w) \/ Rename(w)
              \/ UpsertKey(w) \/ LastUpsert(w) \/ UpsertFails(w) \/ MarkSinkDone(w)

Report(w) == \/ IgnoreReport(w) \/ CompleteTask(w) \/ MarkReduceDone(w)
             \/ CompleteLate(w) \/ CountLate(w) \/ FailTask(w)

Next == \/ Source
        \/ Schedule
        \/ \E w \in Clients : Execute(w) \/ Report(w) \/ Crash(w)

Spec == Init /\ [][Next]_vars

\* The producer's and the listener's loops go on; nothing is assumed of clients.
FairSpec == Spec /\ WF_vars(Source /\ Producer) /\ WF_vars(Source /\ Listener)

(***************************************************************************)
(* Properties                                                              *)
(***************************************************************************)
\* Every variable is in the type its use gives it.
TypeOK ==
    /\ SourceTypeOK
    /\ phase \in Nat /\ phaseDone \in Nat
    /\ gone \subseteq PhaseTasks
    /\ DOMAIN attempts = PhaseTasks
    /\ \A t \in DOMAIN attempts : attempts[t] \in 0..maxRetries
    /\ \A w \in Clients : exec[w].got \subseteq MapTasks
    /\ \A path \in DOMAIN files : files[path].by \in Clients /\ files[path].got \subseteq MapTasks
    /\ claimed \subseteq Buckets /\ reduction \subseteq Buckets
    /\ DOMAIN sunk = Buckets /\ sinkResult \subseteq Buckets
    /\ faults \in 0..MaxFaults /\ mishaps \subseteq Mishaps

\* From one end to the other: without a mishap (see Mishaps) and with no map task given
\* up, what a bucket's compacted file holds, and the documents of a bucket with a
\* sink_result record, are the records of every chunk the source has yielded, however
\* often executions crash, fail, are repeated or lose their reports.
EndToEnd ==
    /\ mishaps = {}
    /\ \A f \in failed : f[1] # 0
    => /\ \A b \in Buckets : Exists(GroupByFile(b)) => files[GroupByFile(b)].got = MapTasks
       /\ \A b \in sinkResult : sunk[b] = MapTasks
       /\ phase > 0 => tasks = pushed

\* groupByErr writes to a temporary file and renames it, "so the checkpoint is safe
\* on retry": however executions crash, fail or overlap, a compacted file that is there
\* was closed by the one that renamed it, and nobody writes to it any more. This needs
\* the claim: two executions share the temporary name.
CompactedWhole ==
    \A b \in Buckets : Exists(GroupByFile(b)) => files[GroupByFile(b)].closed

\* A sink_result record is "auditable proof that the pipeline committed a bucket's
\* output": the bucket's documents hold what its compacted file holds, if no sink
\* execution has read less of it unnoticed, whatever miscounts and overlaps there were.
AuditedIsCommitted ==
    "ShortSink" \notin mishaps =>
        \A b \in sinkResult : /\ Exists(GroupByFile(b))
                              /\ sunk[b] = files[GroupByFile(b)].got

\* The source is read to its end, and the map phase does not wait for ever for it.
SourceDrained == <>sourceDone
=============================================================================
