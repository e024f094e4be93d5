--------------------------- MODULE DataPathProofs ---------------------------
(***************************************************************************)
(* Proofs about the way of the data. However executions crash, fail, read  *)
(* or write short, are miscounted or overtaken, a compacted file is never  *)
(* there while it is being written. As long as no sink execution reads     *)
(* less of it than is there, a bucket with a sink_result record holds what *)
(* its compacted file holds. And as long as no mishap has happened and no  *)
(* map task is given up, both hold the records of every chunk.             *)
(***************************************************************************)
EXTENDS SourceProofs, FiniteSetTheorems

Places == {"idle", "start", "create", "write", "rename", "upsert", "mark", "success", "failed",
           "advance", "late", "reduced"}

Paths == {"map", "reduce", "groupby", "tmp"} \X Nat \X Nat

Execution == [at : Places, phase : 0..3, task : Nat, try : Nat, todo : SUBSET Paths,
              got : SUBSET Nat]

FileRecord == [by : Clients, closed : BOOLEAN, got : SUBSET Nat]

\* Client w executes task t of phase p, or has still to report it.
On(w, p, t) == Busy(w) /\ exec[w].phase = p /\ exec[w].task = t

Writes(w) == exec[w].at \in {"create", "write"}

TasksOf(p) == IF p = 0 THEN MapTasks ELSE Buckets

OutputsOf(p, t) == Outputs(Stages[p + 1], t)

(***************************************************************************)
(* Types                                                                   *)
(***************************************************************************)
\* Who executes what: no phase to come, no task that is not there, a compacter in
\* the last two phases and alone there in writing a file.
WellPlaced(w) ==
    /\ Busy(w) => exec[w].phase <= phase /\ exec[w].task \in TasksOf(exec[w].phase)
    /\ Busy(w) /\ w \in Compacters => exec[w].phase >= 2
    /\ Writes(w) => /\ exec[w].phase <= 2
                    /\ exec[w].todo \subseteq OutputsOf(exec[w].phase, exec[w].task)
    /\ Writes(w) /\ exec[w].phase = 2 => w \in Compacters
    /\ At(w, "rename") => exec[w].phase = 2 /\ w \in Compacters
    /\ exec[w].at \in {"upsert", "mark"} => exec[w].phase = 3
    /\ At(w, "advance") => exec[w].phase <= phase /\ (exec[w].phase = 0 => sourceDone)
    /\ At(w, "reduced") => exec[w].task \in Buckets

DataTypes ==
    /\ TypeOK
    /\ exec \in [Clients -> Execution]
    /\ files \in [DOMAIN files -> FileRecord]
    /\ sunk \in [Buckets -> SUBSET Nat]
    /\ \A w \in Clients : WellPlaced(w)
    /\ phase > 0 => sourceDone

(***************************************************************************)
(* Stages and their outputs                                                *)
(***************************************************************************)
LEMMA StageNames ==
  /\ Stages[0 + 1] = "MapTask" /\ Stages[1 + 1] = "ReduceTask"
  /\ Stages[2 + 1] = "GroupByTask" /\ Stages[3 + 1] = "SinkTask" /\ Len(Stages) = 4
  BY DEF Stages

\* The files of one execution.
LEMMA OutputsByPhase ==
  ASSUME NEW t
  PROVE  /\ OutputsOf(0, t) = {MapFile(t, b) : b \in Buckets}
         /\ OutputsOf(1, t) = {ReduceFile(t)}
         /\ OutputsOf(2, t) = {TmpFile(t)}
         /\ OutputsOf(3, t) = {}
  BY StageNames DEF OutputsOf, Outputs

Kind == [p \in 0..2 |-> IF p = 0 THEN "map" ELSE IF p = 1 THEN "reduce" ELSE "tmp"]

\* A path tells its phase and its task.
LEMMA PathOfTask ==
  ASSUME NEW p \in 0..3, NEW t \in Nat, NEW path \in OutputsOf(p, t)
  PROVE  p \in 0..2 /\ path[1] = Kind[p] /\ path[2] = t /\ path \in Paths
  <1>1. CASE p = 0
    <2>1. PICK b \in Buckets : path = <<"map", t, b>>
      BY <1>1, OutputsByPhase DEF MapFile
    <2>2. b \in Nat
      BY DEF Buckets
    <2> QED
      BY <1>1, <2>1, <2>2 DEF Kind, Paths
  <1>2. CASE p = 1
    BY <1>2, OutputsByPhase DEF ReduceFile, Kind, Paths
  <1>3. CASE p = 2
    BY <1>3, OutputsByPhase DEF TmpFile, Kind, Paths
  <1>4. p # 3
    BY OutputsByPhase
  <1> QED
    BY <1>1, <1>2, <1>3, <1>4

\* Two tasks share no path, and none with a compacted file.
LEMMA OutputsDisjoint ==
  ASSUME NEW p \in 0..3, NEW t \in Nat, NEW path \in OutputsOf(p, t)
  PROVE  /\ \A q \in 0..3, s \in Nat : path \in OutputsOf(q, s) => q = p /\ s = t
         /\ \A b : path # GroupByFile(b)
  <1>1. ASSUME NEW q \in 0..3, NEW s \in Nat, path \in OutputsOf(q, s)
        PROVE  q = p /\ s = t
    <2>1. p \in 0..2 /\ q \in 0..2 /\ Kind[p] = Kind[q] /\ s = t
      BY <1>1, PathOfTask
    <2> QED
      BY <2>1 DEF Kind
  <1>2. ASSUME NEW b, path = GroupByFile(b) PROVE FALSE
    <2>1. path[1] = "groupby" /\ p \in 0..2 /\ path[1] = Kind[p]
      BY <1>2, PathOfTask DEF GroupByFile
    <2> QED
      BY <2>1 DEF Kind
  <1> QED
    BY <1>1, <1>2

LEMMA BucketFiles ==
  /\ \A b, c \in Nat : GroupByFile(b) = GroupByFile(c) => b = c
  /\ \A b \in Nat : TmpFile(b) \in Paths /\ GroupByFile(b) \in Paths
  /\ \A b \in Nat : TmpFile(b) \in OutputsOf(2, b) /\ ReduceFile(b) \in OutputsOf(1, b)
  /\ \A t \in Nat, b \in Buckets : MapFile(t, b) \in OutputsOf(0, t)
  BY OutputsByPhase DEF GroupByFile, TmpFile, ReduceFile, MapFile, Paths

\* What makes an execution return at once.
LEMMA CheckpointByPhase ==
  ASSUME NEW t
  PROVE  /\ \A p \in {0, 1} :
               Checkpoint(Stages[p + 1], t) <=> \E path \in OutputsOf(p, t) : Exists(path)
         /\ Checkpoint(Stages[2 + 1], t) <=> Exists(GroupByFile(t))
         /\ ~Checkpoint(Stages[3 + 1], t)
  BY StageNames, OutputsByPhase DEF Checkpoint

\* Whose stages they are.
LEMMA Pools ==
  ASSUME NEW p \in 0..3
  PROVE  Stages[p + 1] \in {"MapTask", "ReduceTask"} <=> p <= 1
  BY StageNames

LEMMA Putting ==
  ASSUME NEW f, NEW x, NEW v
  PROVE  /\ DOMAIN Put(f, x, v) = {x} \cup DOMAIN f
         /\ Put(f, x, v)[x] = v
         /\ \A y \in DOMAIN f : y # x => Put(f, x, v)[y] = f[y]
  BY DEF Put

(***************************************************************************)
(* What a step does to an execution                                        *)
(***************************************************************************)
Others(w) == \A v \in Clients \ {w} : exec'[v] = exec[v]

\* Only at and todo may differ.
SameJob(w) == /\ exec'[w].phase = exec[w].phase /\ exec'[w].task = exec[w].task
              /\ exec'[w].try = exec[w].try

LEMMA Going ==
  ASSUME exec \in [Clients -> Execution], NEW w \in Clients, NEW where \in Places, GoTo(w, where)
  PROVE  /\ exec' \in [Clients -> Execution] /\ Others(w) /\ SameJob(w)
         /\ exec'[w].at = where /\ exec'[w].todo = exec[w].todo /\ exec'[w].got = exec[w].got
  BY DEF GoTo, Execution, Others, SameJob

\* The client has no task, or waits for the handler that has its report.
LEMMA Resting ==
  ASSUME exec \in [Clients -> Execution], NEW w \in Clients,
         NEW where \in {"idle", "advance", "late", "reduced"}, NEW p \in 0..3, NEW t \in Nat,
         exec' = [exec EXCEPT ![w] = Waiting(where, p, t)]
  PROVE  /\ exec' \in [Clients -> Execution] /\ Others(w) /\ ~Busy(w)'
         /\ exec'[w].at = where /\ exec'[w].phase = p /\ exec'[w].task = t /\ exec'[w].got = {}
  BY DEF Waiting, Execution, Others, Places, Busy

\* A client given a task.
LEMMA Dispatching ==
  ASSUME exec \in [Clients -> Execution], phase \in Nat, NEW w \in Clients, NEW t \in Nat,
         attempts[t] \in Nat, Dispatch(w, t)
  PROVE  /\ exec' \in [Clients -> Execution] /\ Others(w)
         /\ exec'[w].at = "start" /\ exec'[w].phase = phase /\ exec'[w].task = t
         /\ exec'[w].got = {}
  <1> DEFINE r == [Idle EXCEPT !.at = "start", !.phase = phase, !.task = t,
                               !.try = attempts[t] + 1]
  <1>1. r \in Execution
    <2>1. attempts[t] + 1 \in Nat /\ phase \in 0..3
      BY StageNames DEF Dispatch, done
    <2>2. Idle \in Execution
      BY DEF Idle, Waiting, Execution, Places
    <2> QED
      BY <2>1, <2>2 DEF Execution, Places
  <1>2. r.at = "start" /\ r.phase = phase /\ r.task = t /\ r.got = {}
    BY DEF Idle, Waiting
  <1>3. exec' = [exec EXCEPT ![w] = r]
    BY DEF Dispatch
  <1> HIDE DEF r
  <1> QED
    BY <1>1, <1>2, <1>3 DEF Others

\* A file of an execution is created.
LEMMA Creating ==
  ASSUME exec \in [Clients -> Execution], NEW w \in Clients, NEW path,
         exec' = [exec EXCEPT ![w].at = "write", ![w].todo = @ \ {path}]
  PROVE  /\ exec' \in [Clients -> Execution] /\ Others(w) /\ SameJob(w)
         /\ exec'[w].at = "write" /\ exec'[w].todo = exec[w].todo \ {path}
         /\ exec'[w].got = exec[w].got
  BY DEF Execution, Others, SameJob, Places

\* An execution starts with its input.
LEMMA Reading ==
  ASSUME exec \in [Clients -> Execution], NEW w \in Clients, NEW where \in Places,
         NEW got \in SUBSET Nat, NEW todo \in SUBSET Paths,
         exec' = [exec EXCEPT ![w].at = where, ![w].got = got, ![w].todo = todo]
  PROVE  /\ exec' \in [Clients -> Execution] /\ Others(w) /\ SameJob(w)
         /\ exec'[w].at = where /\ exec'[w].todo = todo /\ exec'[w].got = got
  BY DEF Execution, Others, SameJob

\* Tasks do not go away, and phases only come.
LEMMA PlaceKept ==
  ASSUME phase \in Nat, phase' \in Nat, phase <= phase', MapTasks \subseteq MapTasks',
         sourceDone => sourceDone',
         NEW w \in Clients, exec[w] \in Execution, exec'[w] = exec[w], WellPlaced(w)
  PROVE  WellPlaced(w)'
  <1>1. exec[w].phase \in Int
    BY DEF Execution
  <1>2. exec[w].task \in TasksOf(exec[w].phase) => exec[w].task \in TasksOf(exec[w].phase)'
    BY DEF TasksOf, Buckets
  <1> QED
    BY <1>1, <1>2 DEF WellPlaced, Busy, Writes, At, OutputsOf, Outputs, MapFile, ReduceFile,
       TmpFile, Buckets, Stages

(***************************************************************************)
(* Each action keeps the types                                             *)
(***************************************************************************)
FilesTyped == /\ files \in [DOMAIN files -> FileRecord]
              /\ \A path \in DOMAIN files : files[path].got \subseteq MapTasks

DataInv == SourceInv /\ DataTypes

LEMMA BucketIds == Buckets \subseteq Nat /\ 0 \in Buckets
  BY DataPathAssumption DEF Buckets

LEMMA MapTaskIds == ASSUME SourceInv PROVE MapTasks \subseteq Nat
  BY DEF MapTasks

LEMMA FaultKinds ==
  /\ \A w : Interruption(w) \subseteq Mishaps /\ "ShortSink" \notin Interruption(w)
  /\ {} \subseteq Mishaps /\ {"ShortWrite"} \subseteq Mishaps
  /\ {"ShortSink"} \subseteq Mishaps /\ {"ShortRead"} \subseteq Mishaps
  BY DEF Interruption, Mishaps

\* A fault stays within its bound.
LEMMA FaultTypes ==
  ASSUME TypeOK, NEW kinds, kinds \subseteq Mishaps, Fault(kinds) \/ UNCHANGED history
  PROVE  faults' \in 0..MaxFaults /\ mishaps' \subseteq Mishaps
  <1>1. faults \in 0..MaxFaults /\ mishaps \subseteq Mishaps /\ MaxFaults \in Nat
    BY DataPathAssumption DEF TypeOK
  <1>2. CASE Fault(kinds)
    <2>1. faults < MaxFaults /\ faults' = faults + 1
      BY <1>2 DEF Fault
    <2>2. faults' \in 0..MaxFaults
      BY <1>1, <2>1
    <2>3. mishaps' \subseteq Mishaps
      BY <1>1, <1>2 DEF Fault
    <2> QED
      BY <2>2, <2>3
  <1>3. CASE UNCHANGED history
    BY <1>1, <1>3 DEF history
  <1> QED
    BY <1>2, <1>3

JobTyped == phaseDone \in Nat /\ gone \subseteq PhaseTasks /\ reduction \subseteq Buckets

\* A client's step, by what it changes.
LEMMA ClientTypes ==
  ASSUME DataTypes, NEW w \in Clients, SourceTypeOK',
         UNCHANGED <<sourceVars, phase, attempts, claimed>>,
         exec' \in [Clients -> Execution], Others(w), WellPlaced(w)', exec'[w].got \subseteq MapTasks,
         FilesTyped', JobTyped', sunk' \in [Buckets -> SUBSET Nat],
         sinkResult' \subseteq Buckets, faults' \in 0..MaxFaults, mishaps' \subseteq Mishaps
  PROVE  DataTypes'
  <1>1. /\ tasks' = tasks /\ sourceDone' = sourceDone /\ MapTasks' = MapTasks
        /\ PhaseTasks' = PhaseTasks
    BY DEF sourceVars, listenerVars, MapTasks, PhaseTasks
  <1>2. phase \in Nat
    BY DEF DataTypes, TypeOK
  <1>3. \A v \in Clients : WellPlaced(v)'
    <2>1. ASSUME NEW v \in Clients \ {w} PROVE WellPlaced(v)'
      BY <1>1, <1>2, PlaceKept DEF DataTypes, Others
    <2> QED
      BY <2>1
  <1>4. \A v \in Clients : exec'[v].got \subseteq MapTasks'
    BY <1>1 DEF DataTypes, TypeOK, Others
  <1>5. \A path \in DOMAIN files' : files'[path].by \in Clients /\ files'[path].got \subseteq MapTasks'
    BY DEF FilesTyped, FileRecord
  <1>6. TypeOK'
    BY <1>1, <1>4, <1>5 DEF DataTypes, TypeOK, JobTyped
  <1> QED
    BY <1>1, <1>3, <1>6 DEF DataTypes, FilesTyped

Rests(w) == \/ IgnoreReport(w) \/ CompleteTask(w) \/ MarkReduceDone(w) \/ CompleteLate(w)
            \/ CountLate(w) \/ FailTask(w) \/ Crash(w) \/ FindPhaseComplete(w)

\* Where its step leaves a client that has no execution to go on with.
LEMMA RestingPlace ==
  ASSUME DataTypes, NEW w \in Clients, Rests(w)
  PROVE  \E where \in {"idle", "advance", "late", "reduced"}, p \in 0..3, t \in Nat :
            /\ exec' = [exec EXCEPT ![w] = Waiting(where, p, t)]
            /\ where = "advance" => p = phase /\ (p = 0 => sourceDone)
            /\ where = "reduced" => At(w, "success") /\ Stage = "ReduceTask" /\ t = exec[w].task
            /\ where \in {"late", "reduced"} => /\ p = phase /\ exec[w].phase = phase
                                                /\ At(w, "success") /\ t = exec[w].task
  <1>1. exec[w].phase \in 0..3 /\ exec[w].task \in Nat /\ phase \in Nat
    BY DEF DataTypes, TypeOK, Execution
  <1>2. Idle = Waiting("idle", 0, 0) /\ 0 \in 0..3 /\ 0 \in Nat
    BY DEF Idle
  <1>3. CASE FindPhaseComplete(w)
    <2>1. phase \in 0..3
      BY <1>1, <1>3, StageNames DEF FindPhaseComplete, done
    <2> QED
      BY <1>2, <1>3, <2>1 DEF FindPhaseComplete
  <1>4. CASE CompleteLate(w)
    BY <1>1, <1>2, <1>4 DEF CompleteLate, At
  <1>5. CASE CompleteTask(w) /\ Stage = "ReduceTask"
    BY <1>1, <1>2, <1>5 DEF CompleteTask, At
  <1>6. CASE exec' = [exec EXCEPT ![w] = Idle]
    BY <1>2, <1>6
  <1> QED
    BY <1>3, <1>4, <1>5, <1>6
    DEF Rests, IgnoreReport, CompleteTask, MarkReduceDone, CountLate, FailTask, Crash

\* The client comes to rest: its report is through, or in a handler, or it crashed.
LEMMA RestTypes ==
  ASSUME DataInv, SourceTypeOK', NEW w \in Clients, Rests(w)
  PROVE  DataTypes' /\ ~Busy(w)' /\ Others(w)
  <1>1. DataTypes /\ TypeOK /\ exec \in [Clients -> Execution]
    BY DEF DataInv, DataTypes
  <1>2. UNCHANGED <<sourceVars, phase, attempts, claimed, files, sinkVars>>
    BY DEF Rests, IgnoreReport, CompleteTask, MarkReduceDone, CompleteLate, CountLate, FailTask,
           Crash, FindPhaseComplete, jobVars
  <1>3. PICK where \in {"idle", "advance", "late", "reduced"}, p \in 0..3, t \in Nat :
            /\ exec' = [exec EXCEPT ![w] = Waiting(where, p, t)]
            /\ where = "advance" => p = phase /\ (p = 0 => sourceDone)
            /\ where = "reduced" => At(w, "success") /\ Stage = "ReduceTask" /\ t = exec[w].task
            /\ where \in {"late", "reduced"} => /\ p = phase /\ exec[w].phase = phase
                                                /\ At(w, "success") /\ t = exec[w].task
    BY <1>1, RestingPlace
  <1>4. /\ exec' \in [Clients -> Execution] /\ Others(w) /\ ~Busy(w)'
        /\ exec'[w].at = where /\ exec'[w].phase = p /\ exec'[w].task = t /\ exec'[w].got = {}
    <2>1. exec' = [exec EXCEPT ![w] = Waiting(where, p, t)]
      BY <1>3
    <2>2. exec \in [Clients -> Execution]
      BY <1>1
    <2> QED
      BY <2>1, <2>2, Resting, Zenon
  <1>5. At(w, "success") \/ At(w, "failed") \/ At(w, "late") =>
           /\ Busy(w) => exec[w].task \in TasksOf(exec[w].phase)
           /\ ~At(w, "late") => Busy(w)
    BY <1>1 DEF DataTypes, WellPlaced, Busy, At
  <1>6. phase = 1 <=> Stage = "ReduceTask" /\ ~done
    <2>1. phase \in Nat
      BY <1>1 DEF TypeOK
    <2>2. ~done => phase \in {0, 1, 2, 3}
      BY <2>1, StageNames DEF done
    <2> QED
      BY <2>1, <2>2, StageNames DEF Stage, done
  <1>7. exec[w].phase = phase => ~done
    BY <1>1, StageNames DEF Execution, done, TypeOK
  <1>8. WellPlaced(w)'
    <2>1. where = "reduced" => t \in Buckets
      <3> SUFFICES ASSUME where = "reduced" PROVE t \in Buckets
        OBVIOUS
      <3>1. phase = 1 /\ exec[w].task \in TasksOf(1) /\ t = exec[w].task
        BY <1>3, <1>5, <1>6, <1>7 DEF Busy, At
      <3> QED
        BY <3>1 DEF TasksOf
    <2>2. phase \in Nat
      BY <1>1 DEF TypeOK
    <2>3. phase' = phase /\ sourceDone' = sourceDone /\ Buckets' = Buckets
      BY <1>2 DEF sourceVars, listenerVars, Buckets
    <2> QED
      BY <1>3, <1>4, <2>1, <2>2, <2>3 DEF WellPlaced, Busy, Writes, At
  <1>9. JobTyped'
    <2>1. PhaseTasks' = PhaseTasks /\ phaseDone \in Nat
      BY <1>1, <1>2 DEF PhaseTasks, MapTasks, sourceVars, listenerVars, TypeOK
    <2>2. CASE CompleteTask(w) \/ FailTask(w)
      <3>1. exec[w].task \in PhaseTasks
        BY <1>5, <2>2 DEF CompleteTask, FailTask, TasksOf, PhaseTasks, At
      <3> QED
        BY <1>1, <2>1, <2>2, <3>1 DEF CompleteTask, FailTask, TypeOK, JobTyped
    <2>3. CASE MarkReduceDone(w)
      <3>1. exec[w].task \in Buckets
        BY <1>1, <2>3 DEF DataTypes, WellPlaced, MarkReduceDone
      <3> QED
        BY <1>1, <2>1, <2>3, <3>1 DEF MarkReduceDone, TypeOK, JobTyped
    <2>4. CASE CountLate(w)
      BY <1>1, <2>1, <2>4 DEF CountLate, TypeOK, JobTyped
    <2>5. CASE IgnoreReport(w) \/ Crash(w) \/ CompleteLate(w) \/ FindPhaseComplete(w)
      BY <1>1, <2>1, <2>5 DEF IgnoreReport, Crash, CompleteLate, FindPhaseComplete, jobVars, TypeOK,
         JobTyped
    <2> QED
      BY <2>2, <2>3, <2>4, <2>5 DEF Rests
  <1>10. faults' \in 0..MaxFaults /\ mishaps' \subseteq Mishaps
    <2>1. CASE CountLate(w)
      BY <1>1, <2>1 DEF CountLate, TypeOK, Mishaps
    <2>2. CASE ~CountLate(w)
      <3>1. Fault(Interruption(w)) \/ UNCHANGED history
        BY <2>2 DEF Rests, IgnoreReport, CompleteTask, MarkReduceDone, CompleteLate, FailTask,
                    Crash, FindPhaseComplete
      <3>2. Interruption(w) \subseteq Mishaps
        BY FaultKinds
      <3> QED
        BY <1>1, <3>1, <3>2, FaultTypes
    <2> QED
      BY <2>1, <2>2
  <1>11. FilesTyped' /\ sunk' \in [Buckets -> SUBSET Nat] /\ sinkResult' \subseteq Buckets
    BY <1>1, <1>2 DEF DataTypes, TypeOK, FilesTyped, sinkVars, sourceVars, listenerVars, MapTasks
  <1> QED
    BY <1>1, <1>2, <1>4, <1>8, <1>9, <1>10, <1>11, ClientTypes

\* The client goes from one step of its execution to another, and writes no file.
LEMMA GoTypes ==
  ASSUME DataInv, SourceTypeOK', NEW w \in Clients,
         \/ SkipExecution(w) \/ FailAtStart(w) \/ LastUpsert(w) \/ UpsertFails(w) \/ MarkSinkDone(w)
  PROVE  DataTypes' /\ Others(w) /\ SameJob(w) /\ exec'[w].at \in {"success", "failed", "mark"}
  <1>1. DataTypes /\ TypeOK /\ exec \in [Clients -> Execution]
    BY DEF DataInv, DataTypes
  <1>2. /\ UNCHANGED <<sourceVars, jobVars, files>>
        /\ Busy(w) /\ exec[w].at \in {"start", "upsert", "mark"}
        /\ \E where \in {"success", "failed", "mark"} :
              GoTo(w, where) /\ (where = "mark" => At(w, "upsert"))
    BY DEF SkipExecution, FailAtStart, LastUpsert, UpsertFails, MarkSinkDone, Busy, At
  <1>3. PICK where \in {"success", "failed", "mark"} :
           GoTo(w, where) /\ (where = "mark" => At(w, "upsert"))
    BY <1>2
  <1>4. where \in Places
    BY DEF Places
  <1>5. /\ exec' \in [Clients -> Execution] /\ Others(w) /\ SameJob(w)
        /\ exec'[w].at = where /\ exec'[w].got = exec[w].got
    BY <1>1, <1>3, <1>4, Going
  <1>6. WellPlaced(w)'
    <2>1. phase' = phase /\ MapTasks' = MapTasks
      BY <1>2 DEF jobVars, sourceVars, listenerVars, MapTasks
    <2> QED
      BY <1>1, <1>2, <1>3, <1>5, <2>1 DEF DataTypes, WellPlaced, Busy, Writes, At, SameJob, TasksOf,
         Buckets
  <1>7. JobTyped' /\ exec'[w].got \subseteq MapTasks /\ FilesTyped'
    BY <1>1, <1>2, <1>5 DEF DataTypes, TypeOK, jobVars, FilesTyped, sourceVars, listenerVars, MapTasks,
       JobTyped, PhaseTasks
  <1>8. sunk' \in [Buckets -> SUBSET Nat] /\ sinkResult' \subseteq Buckets
    <2>1. At(w, "upsert") \/ At(w, "mark") => exec[w].task \in Buckets
      BY <1>1 DEF DataTypes, WellPlaced, Busy, At, TasksOf
    <2>2. exec[w].got \in SUBSET Nat
      BY <1>1 DEF Execution
    <2>3. CASE LastUpsert(w)
      BY <1>1, <2>1, <2>2, <2>3 DEF LastUpsert, DataTypes, TypeOK
    <2>4. CASE MarkSinkDone(w)
      BY <1>1, <2>1, <2>4 DEF MarkSinkDone, DataTypes, TypeOK
    <2>5. CASE SkipExecution(w) \/ FailAtStart(w) \/ UpsertFails(w)
      BY <1>1, <2>5 DEF SkipExecution, FailAtStart, UpsertFails, sinkVars, DataTypes, TypeOK
    <2> QED
      BY <2>3, <2>4, <2>5
  <1>9. faults' \in 0..MaxFaults /\ mishaps' \subseteq Mishaps
    <2>1. Fault({}) \/ UNCHANGED history
      BY DEF SkipExecution, FailAtStart, LastUpsert, UpsertFails, MarkSinkDone
    <2> QED
      BY <1>1, <2>1, FaultKinds, FaultTypes
  <1> QED
    BY <1>1, <1>2, <1>3, <1>5, <1>6, <1>7, <1>8, <1>9, ClientTypes DEF jobVars

\* What an execution reads are records of map tasks.
LEMMA InputTypes ==
  ASSUME TypeOK, NEW p \in 0..3, NEW t \in TasksOf(p),
         ~InputMissing(Stages[p + 1], t), NEW got \in Input(Stages[p + 1], t)
  PROVE  got \subseteq MapTasks
  <1>1. ASSUME NEW path, Exists(path), NEW g \in Found(path) PROVE g \subseteq MapTasks
    BY <1>1 DEF Exists, Found, TypeOK
  <1>2. CASE p = 0
    BY <1>2, StageNames DEF Input, TasksOf
  <1>3. CASE p = 1
    <2>1. PICK choice \in [MapTasks -> SUBSET MapTasks] : got = UNION {choice[c] : c \in MapTasks}
      BY <1>3, StageNames DEF Input
    <2> QED
      BY <2>1
  <1>4. CASE p = 2
    <2>1. Exists(ReduceFile(t)) /\ got \in Found(ReduceFile(t))
      BY <1>4, StageNames DEF Input, InputMissing
    <2> QED
      BY <2>1, <1>1
  <1>5. CASE p = 3
    <2>1. Exists(GroupByFile(t)) /\ got \in Found(GroupByFile(t))
      BY <1>5, StageNames DEF Input, InputMissing
    <2> QED
      BY <2>1, <1>1
  <1> QED
    BY <1>2, <1>3, <1>4, <1>5

LEMMA NextSteps ==
  ASSUME NEW p \in 0..3
  PROVE  NextStep(Stages[p + 1]) = IF p = 3 THEN "upsert" ELSE "create"
  BY StageNames DEF NextStep

LEMMA TaskTypes ==
  ASSUME DataInv, NEW w \in Clients
  PROVE  /\ exec[w] \in Execution /\ exec[w].phase \in 0..3 /\ exec[w].task \in Nat
         /\ exec[w].got \subseteq MapTasks /\ WellPlaced(w)
         /\ Busy(w) => exec[w].phase <= phase /\ exec[w].task \in TasksOf(exec[w].phase)
         /\ Busy(w) /\ exec[w].phase > 0 => exec[w].task \in Buckets
         /\ Busy(w) /\ exec[w].phase = 0 => exec[w].task \in MapTasks
         /\ Writing(w) = OutputsOf(exec[w].phase, exec[w].task) \ exec[w].todo
         /\ Type(w) = Stages[exec[w].phase + 1]
  <1>1. exec[w] \in Execution /\ exec[w].got \subseteq MapTasks /\ WellPlaced(w)
    BY DEF DataInv, DataTypes, TypeOK
  <1>2. exec[w].phase \in 0..3 /\ exec[w].task \in Nat
    BY <1>1 DEF Execution
  <1> QED
    BY <1>1, <1>2 DEF WellPlaced, TasksOf, Writing, OutputsOf, Type

LEMMA OutputsArePaths ==
  ASSUME NEW p \in 0..3, NEW t \in Nat
  PROVE  OutputsOf(p, t) \in SUBSET Paths
  BY PathOfTask

LEMMA ReadTypes ==
  ASSUME DataInv, SourceTypeOK', NEW w \in Clients, ReadInput(w) \/ ReadShort(w)
  PROVE  /\ DataTypes' /\ Others(w) /\ SameJob(w) /\ At(w, "start")
         /\ exec'[w].at = IF exec[w].phase = 3 THEN "upsert" ELSE "create"
         /\ exec'[w].todo = OutputsOf(exec[w].phase, exec[w].task)
         /\ ReadInput(w) => exec'[w].got \in Input(Stages[exec[w].phase + 1], exec[w].task)
         /\ \E whole \in Input(Stages[exec[w].phase + 1], exec[w].task) : exec'[w].got \subseteq whole
  <1>1. DataTypes /\ TypeOK /\ exec \in [Clients -> Execution] /\ At(w, "start") /\ ReadsInput(w)
    BY DEF DataInv, DataTypes, ReadInput, ReadShort, ReadsInput
  <1> DEFINE p == exec[w].phase
             t == exec[w].task
             where == IF p = 3 THEN "upsert" ELSE "create"
  <1>2. /\ p \in 0..3 /\ t \in Nat /\ Type(w) = Stages[p + 1] /\ WellPlaced(w)
        /\ p <= phase /\ t \in TasksOf(p)
    BY <1>1, TaskTypes DEF Busy, At
  <1>0. PICK whole \in Input(Stages[p + 1], t) :
            \E got \in SUBSET whole : HasRead(w, got) /\ (ReadInput(w) => got = whole)
    <2>1. CASE ReadInput(w)
      <3>1. PICK got \in Input(Stages[p + 1], t) : HasRead(w, got)
        BY <1>2, <2>1 DEF ReadInput
      <3> QED
        BY <3>1
    <2>2. CASE ~ReadInput(w)
      BY <1>2, <2>2 DEF ReadShort
    <2> QED
      BY <2>1, <2>2
  <1>3. PICK got \in SUBSET whole : HasRead(w, got) /\ (ReadInput(w) => got = whole)
    BY <1>0
  <1>4. got \subseteq MapTasks /\ got \in SUBSET Nat
    <2>1. ~InputMissing(Stages[p + 1], t)
      BY <1>1, <1>2 DEF ReadsInput
    <2>2. whole \subseteq MapTasks
      BY <1>1, <1>2, <2>1, InputTypes
    <2>3. got \subseteq MapTasks
      BY <2>2
    <2> QED
      BY <2>3, MapTaskIds DEF DataInv
  <1>5. /\ NextStep(Type(w)) = where /\ where \in Places
        /\ Outputs(Type(w), exec[w].task) = OutputsOf(p, t) /\ OutputsOf(p, t) \in SUBSET Paths
    BY <1>2, NextSteps, OutputsArePaths DEF OutputsOf, Places
  <1>6. /\ exec' \in [Clients -> Execution] /\ Others(w) /\ SameJob(w)
        /\ exec'[w].at = where /\ exec'[w].todo = OutputsOf(p, t) /\ exec'[w].got = got
    <2> DEFINE todo == OutputsOf(p, t)
    <2>1. exec' = [exec EXCEPT ![w].at = where, ![w].got = got, ![w].todo = todo]
      BY <1>3, <1>5 DEF HasRead
    <2>2. where \in Places /\ todo \in SUBSET Paths
      BY <1>5
    <2> HIDE DEF todo, where
    <2>3. /\ exec' \in [Clients -> Execution] /\ Others(w) /\ SameJob(w)
          /\ exec'[w].at = where /\ exec'[w].todo = todo /\ exec'[w].got = got
      BY <1>1, <1>4, <2>1, <2>2, Reading
    <2> QED
      BY <2>3 DEF todo
  <1>7. /\ UNCHANGED <<sourceVars, jobVars, files, sinkVars>>
        /\ (w \in Workers) <=> p <= 1
    BY <1>1, <1>2, Pools DEF ReadInput, ReadShort, ReadsInput
  <1>8. WellPlaced(w)'
    <2>1. phase' = phase /\ MapTasks' = MapTasks
      BY <1>7 DEF jobVars, sourceVars, listenerVars, MapTasks
    <2>2. w \in Compacters => p >= 2
      BY <1>2, <1>7, DataPathAssumption
    <2>3. p = 2 => w \in Compacters
      BY <1>7 DEF Clients
    <2> QED
      BY <1>2, <1>6, <2>1, <2>2, <2>3 DEF WellPlaced, Busy, Writes, At, SameJob, TasksOf, Buckets,
         OutputsOf, Outputs, MapFile, ReduceFile, TmpFile
  <1>9. /\ JobTyped' /\ sunk' \in [Buckets -> SUBSET Nat] /\ sinkResult' \subseteq Buckets
        /\ FilesTyped'
    BY <1>1, <1>7 DEF DataTypes, TypeOK, jobVars, sinkVars, FilesTyped, sourceVars,
       listenerVars, MapTasks, JobTyped, PhaseTasks
  <1>10. faults' \in 0..MaxFaults /\ mishaps' \subseteq Mishaps
    <2>1. CASE UNCHANGED history
      BY <1>1, <2>1 DEF TypeOK, history
    <2>2. CASE ~UNCHANGED history
      <3>1. PICK kind \in {"ShortSink", "ShortRead"} : Fault({kind})
        BY <2>2 DEF ReadInput, ReadShort
      <3>2. {kind} \subseteq Mishaps
        BY DEF Mishaps
      <3> QED
        BY <1>1, <3>1, <3>2, FaultTypes
    <2> QED
      BY <2>1, <2>2
  <1>11. exec'[w].got \subseteq MapTasks
    BY <1>4, <1>6
  <1>12. DataTypes'
    BY <1>1, <1>6, <1>7, <1>8, <1>9, <1>10, <1>11, ClientTypes DEF jobVars
  <1> QED
    BY <1>1, <1>3, <1>6, <1>12

LEMMA PutTyped ==
  ASSUME NEW f, f \in [DOMAIN f -> FileRecord], \A y \in DOMAIN f : f[y].got \subseteq MapTasks,
         NEW path, NEW r \in FileRecord, r.got \subseteq MapTasks,
         files' = Put(f, path, r), MapTasks' = MapTasks
  PROVE  FilesTyped'
  <1>1. /\ DOMAIN files' = {path} \cup DOMAIN f
        /\ \A y \in DOMAIN files' : files'[y] = IF y = path THEN r ELSE f[y]
    BY DEF Put
  <1>2. files' \in [DOMAIN files' -> FileRecord]
    <2>1. files' = [y \in {path} \cup DOMAIN f |-> IF y = path THEN r ELSE f[y]]
      BY DEF Put
    <2>2. \A y \in {path} \cup DOMAIN f : (IF y = path THEN r ELSE f[y]) \in FileRecord
      OBVIOUS
    <2> QED
      BY <1>1, <2>1, <2>2
  <1>3. \A y \in DOMAIN files' : files'[y].got \subseteq MapTasks'
    BY <1>1
  <1> QED
    BY <1>2, <1>3 DEF FilesTyped

LEMMA WithoutTyped ==
  ASSUME FilesTyped, NEW paths
  PROVE  /\ DOMAIN Without(paths) = DOMAIN files \ paths
         /\ \A y \in DOMAIN Without(paths) : Without(paths)[y] = files[y]
         /\ Without(paths) \in [DOMAIN Without(paths) -> FileRecord]
         /\ \A y \in DOMAIN Without(paths) : Without(paths)[y].got \subseteq MapTasks
  BY DEF Without, FilesTyped

LEMMA NewFile ==
  ASSUME NEW w \in Clients, NEW closes \in BOOLEAN, NEW got \in SUBSET Nat
  PROVE  /\ File(w, closes, got) \in FileRecord /\ File(w, closes, got).by = w
         /\ File(w, closes, got).closed = closes /\ File(w, closes, got).got = got
  BY DEF File, FileRecord

\* What a step that touches neither the jobs' nor the sink's variables leaves.
LEMMA RestKept ==
  ASSUME DataTypes, UNCHANGED <<sourceVars, jobVars>>
  PROVE  /\ JobTyped' /\ MapTasks' = MapTasks
         /\ UNCHANGED <<sourceVars, phase, attempts, claimed>>
         /\ UNCHANGED sinkVars => sunk' \in [Buckets -> SUBSET Nat] /\ sinkResult' \subseteq Buckets
  BY DEF DataTypes, TypeOK, jobVars, sinkVars, sourceVars, listenerVars, MapTasks, JobTyped,
         PhaseTasks

\* Where it is in its own job, with what is left to create of it.
LEMMA PlaceInJob ==
  ASSUME DataInv, NEW w \in Clients, Busy(w), UNCHANGED <<sourceVars, jobVars>>,
         exec' \in [Clients -> Execution], SameJob(w), exec'[w].todo \subseteq exec[w].todo,
         Writes(w)' => Writes(w),
         (At(w, "rename"))' => Writes(w) /\ exec[w].phase = 2,
         exec'[w].at \notin {"upsert", "mark", "advance", "reduced"}
  PROVE  WellPlaced(w)'
  <1>1. phase' = phase /\ MapTasks' = MapTasks
    BY DEF jobVars, sourceVars, listenerVars, MapTasks
  <1>2. WellPlaced(w)
    BY TaskTypes
  <1> QED
    BY <1>1, <1>2 DEF WellPlaced, Busy, Writes, At, SameJob, TasksOf, Buckets, OutputsOf,
       Outputs, MapFile, ReduceFile, TmpFile

LEMMA CreateTypes ==
  ASSUME DataInv, SourceTypeOK', NEW w \in Clients, CreateFile(w)
  PROVE  /\ DataTypes' /\ Others(w) /\ SameJob(w)
         /\ At(w, "create") /\ exec'[w].at = "write" /\ exec'[w].got = exec[w].got
         /\ \E path \in exec[w].todo :
               /\ exec'[w].todo = exec[w].todo \ {path}
               /\ files' = Put(files, path, File(w, FALSE, exec[w].got))
  <1>1. DataTypes /\ TypeOK /\ exec \in [Clients -> Execution] /\ At(w, "create") /\ FilesTyped
    BY DEF DataInv, DataTypes, CreateFile, FilesTyped, TypeOK
  <1>2. PICK path \in exec[w].todo :
           /\ files' = Put(files, path, File(w, FALSE, exec[w].got))
           /\ exec' = [exec EXCEPT ![w].at = "write", ![w].todo = @ \ {path}]
    BY DEF CreateFile
  <1>3. /\ exec' \in [Clients -> Execution] /\ Others(w) /\ SameJob(w)
        /\ exec'[w].at = "write" /\ exec'[w].todo = exec[w].todo \ {path}
        /\ exec'[w].got = exec[w].got
    BY <1>1, <1>2, Creating
  <1>4. UNCHANGED <<sourceVars, jobVars, sinkVars, history>>
    BY DEF CreateFile
  <1>5. exec[w].got \in SUBSET Nat /\ exec[w].got \subseteq MapTasks
    BY TaskTypes DEF Execution
  <1>6. FilesTyped'
    <2> DEFINE r == File(w, FALSE, exec[w].got)
    <2>1. MapTasks' = MapTasks
      BY <1>1, <1>4, RestKept
    <2>2. r \in FileRecord /\ r.got \subseteq MapTasks
      BY <1>5, NewFile
    <2>3. files' = Put(files, path, r)
      BY <1>2
    <2>4. files \in [DOMAIN files -> FileRecord] /\ \A y \in DOMAIN files : files[y].got \subseteq MapTasks
      BY <1>1 DEF FilesTyped
    <2> HIDE DEF r
    <2> QED
      BY <2>1, <2>2, <2>3, <2>4, PutTyped
  <1>7. WellPlaced(w)'
    BY <1>1, <1>3, <1>4, PlaceInJob DEF Busy, Writes, At
  <1>8. faults' \in 0..MaxFaults /\ mishaps' \subseteq Mishaps
    BY <1>1, <1>4 DEF TypeOK, history
  <1>9. DataTypes'
    BY <1>1, <1>3, <1>4, <1>5, <1>6, <1>7, <1>8, RestKept, ClientTypes
  <1> QED
    BY <1>1, <1>2, <1>3, <1>9

\* It closes the file it is writing, with these records, of all it should hold or of some.
WritesOut(w, kept) ==
    /\ At(w, "write")
    /\ files' = Written(w, kept)
    /\ GoTo(w, AfterFile(w))
    /\ UNCHANGED <<sourceVars, jobVars, sinkVars>>
    /\ UNCHANGED history \/ Fault({"ShortWrite"})

LEMMA WritesAll == ASSUME NEW w, WriteFile(w) PROVE WritesOut(w, exec[w].got)
  BY DEF WriteFile, WritesOut

LEMMA WritesSome ==
  ASSUME NEW w, WriteShort(w) PROVE \E kept \in SUBSET exec[w].got : WritesOut(w, kept)
  BY DEF WriteShort, WritesOut

\* Whatever is written, what another client is writing is not closed by it, and no file
\* gets a record it had not.
LEMMA WritingOut ==
  ASSUME DataInv, SourceTypeOK', NEW w \in Clients, NEW kept \in SUBSET exec[w].got,
         WritesOut(w, kept)
  PROVE  /\ DataTypes' /\ Others(w) /\ SameJob(w)
         /\ At(w, "write") /\ exec'[w].at = AfterFile(w)
         /\ AfterFile(w) = IF exec[w].todo # {} THEN "create"
                           ELSE IF exec[w].phase = 2 THEN "rename" ELSE "success"
         /\ exec'[w].got = exec[w].got /\ exec'[w].todo = exec[w].todo
         /\ DOMAIN files' = DOMAIN files
         /\ \A path \in DOMAIN files :
               /\ path \notin Writing(w) => files'[path] = files[path]
               /\ files'[path].by = files[path].by
               /\ files[path].closed => files'[path].closed
               /\ path \in Writing(w) /\ files[path].by = w => files'[path].closed
               /\ files[path].got \subseteq kept => files'[path].got = files[path].got
  <1>1. DataTypes /\ TypeOK /\ exec \in [Clients -> Execution] /\ At(w, "write") /\ FilesTyped
    BY DEF DataInv, DataTypes, WritesOut, FilesTyped, TypeOK
  <1>2. /\ exec[w].phase \in 0..3 /\ Type(w) = Stages[exec[w].phase + 1]
        /\ exec[w].got \in SUBSET Nat /\ exec[w].got \subseteq MapTasks
    BY TaskTypes DEF Execution
  <1>3. AfterFile(w) = IF exec[w].todo # {} THEN "create"
                       ELSE IF exec[w].phase = 2 THEN "rename" ELSE "success"
    BY <1>2, StageNames DEF AfterFile
  <1>4. GoTo(w, AfterFile(w)) /\ AfterFile(w) \in {"create", "rename", "success"}
    BY <1>3 DEF WritesOut
  <1>5. AfterFile(w) \in Places
    BY <1>4 DEF Places
  <1>6. /\ exec' \in [Clients -> Execution] /\ Others(w) /\ SameJob(w)
        /\ exec'[w].at = AfterFile(w) /\ exec'[w].todo = exec[w].todo
        /\ exec'[w].got = exec[w].got
    BY <1>1, <1>4, <1>5, Going
  <1>7. UNCHANGED <<sourceVars, jobVars, sinkVars>>
    BY DEF WritesOut
  <1> DEFINE new(path) ==
                IF path \notin Writing(w) \/ (files[path].by = w /\ files[path].closed)
                THEN files[path]
                ELSE [files[path] EXCEPT !.got = @ \cap kept,
                                         !.closed = @ \/ files[path].by = w]
  <1>8. files' = [path \in DOMAIN files |-> new(path)]
    BY DEF WritesOut, Written
  <1>9. ASSUME NEW path \in DOMAIN files
        PROVE  /\ new(path) \in FileRecord /\ new(path).got \subseteq MapTasks
               /\ path \notin Writing(w) => new(path) = files[path]
               /\ new(path).by = files[path].by
               /\ files[path].closed => new(path).closed
               /\ path \in Writing(w) /\ files[path].by = w => new(path).closed
               /\ files[path].got \subseteq kept => new(path).got = files[path].got
    <2>1. files[path] \in FileRecord /\ files[path].got \subseteq MapTasks
      BY <1>1, <1>9 DEF FilesTyped
    <2>2. CASE path \notin Writing(w) \/ (files[path].by = w /\ files[path].closed)
      BY <2>1, <2>2
    <2>3. CASE ~(path \notin Writing(w) \/ (files[path].by = w /\ files[path].closed))
      <3> DEFINE shut == files[path].closed \/ files[path].by = w
                 left == files[path].got \cap kept
                 r    == [files[path] EXCEPT !.got = left, !.closed = shut]
      <3>1. new(path) = r
        BY <2>3
      <3>2. shut \in BOOLEAN /\ left \in SUBSET Nat /\ left \subseteq files[path].got
        BY <2>1 DEF FileRecord
      <3>3. files[path].got \subseteq kept => left = files[path].got
        OBVIOUS
      <3>4. (files[path].closed => shut) /\ (files[path].by = w => shut)
        OBVIOUS
      <3> HIDE DEF shut, left
      <3>5. r \in FileRecord /\ r.got = left /\ r.by = files[path].by /\ r.closed = shut
        BY <2>1, <3>2 DEF FileRecord
      <3> QED
        BY <2>1, <2>3, <3>1, <3>2, <3>3, <3>4, <3>5
    <2> QED
      BY <2>2, <2>3
  <1>10. FilesTyped'
    <2>1. MapTasks' = MapTasks
      BY <1>1, <1>7, RestKept
    <2> HIDE DEF new
    <2> QED
      BY <1>8, <1>9, <2>1 DEF FilesTyped
  <1>11. WellPlaced(w)'
    <2>1. Busy(w) /\ Writes(w) /\ (exec'[w].at = "rename" => exec[w].phase = 2)
      BY <1>1, <1>3, <1>6 DEF Busy, Writes, At
    <2> QED
      BY <2>1, <1>1, <1>4, <1>6, <1>7, PlaceInJob DEF At
  <1>12. faults' \in 0..MaxFaults /\ mishaps' \subseteq Mishaps
    BY <1>1, FaultKinds, FaultTypes DEF WritesOut
  <1>13. DataTypes'
    BY <1>1, <1>2, <1>6, <1>7, <1>10, <1>11, <1>12, RestKept, ClientTypes
  <1>14. DOMAIN files' = DOMAIN files /\ \A path \in DOMAIN files : files'[path] = new(path)
    BY <1>8
  <1> HIDE DEF new
  <1> QED
    BY <1>1, <1>3, <1>6, <1>9, <1>13, <1>14

LEMMA WriteTypes ==
  ASSUME DataInv, SourceTypeOK', NEW w \in Clients, WriteFile(w) \/ WriteShort(w)
  PROVE  DataTypes' /\ Others(w) /\ SameJob(w) /\ At(w, "write")
  <1>1. exec[w].got \in SUBSET exec[w].got
    OBVIOUS
  <1> QED
    BY <1>1, WritesAll, WritesSome, WritingOut

LEMMA WriteFailsTypes ==
  ASSUME DataInv, SourceTypeOK', NEW w \in Clients, WriteFails(w)
  PROVE  /\ DataTypes' /\ Others(w) /\ SameJob(w)
         /\ exec[w].at \in {"create", "write", "rename"} /\ exec'[w].at = "failed"
         /\ exec[w].phase # 2 => files' = files
         /\ DOMAIN files' \subseteq DOMAIN files
         /\ \A path \in DOMAIN files : path # TmpFile(exec[w].task) => path \in DOMAIN files'
         /\ \A path \in DOMAIN files' : files'[path] = files[path]
  <1>1. DataTypes /\ TypeOK /\ exec \in [Clients -> Execution] /\ FilesTyped
        /\ exec[w].at \in {"create", "write", "rename"}
    BY DEF DataInv, DataTypes, WriteFails, FilesTyped, TypeOK
  <1>2. /\ exec[w].phase \in 0..3 /\ Type(w) = Stages[exec[w].phase + 1]
        /\ exec[w].got \subseteq MapTasks
    BY TaskTypes
  <1>3. Type(w) = "GroupByTask" <=> exec[w].phase = 2
    BY <1>2, StageNames
  <1>4. /\ exec' \in [Clients -> Execution] /\ Others(w) /\ SameJob(w)
        /\ exec'[w].at = "failed" /\ exec'[w].todo = exec[w].todo
        /\ exec'[w].got = exec[w].got
    <2>1. GoTo(w, "failed") /\ "failed" \in Places
      BY DEF WriteFails, Places
    <2> QED
      BY <1>1, <2>1, Going
  <1>5. UNCHANGED <<sourceVars, jobVars, sinkVars>> /\ Fault(Interruption(w))
    BY DEF WriteFails
  <1>6. files' = files \/ (exec[w].phase = 2 /\ files' = Without({TmpFile(exec[w].task)}))
    BY <1>3 DEF WriteFails
  <1>7. FilesTyped'
    <2>1. MapTasks' = MapTasks
      BY <1>1, <1>5, RestKept
    <2>2. CASE files' = files
      BY <1>1, <2>1, <2>2 DEF FilesTyped
    <2>3. CASE files' = Without({TmpFile(exec[w].task)})
      <3> DEFINE left == Without({TmpFile(exec[w].task)})
      <3>1. /\ left \in [DOMAIN left -> FileRecord]
            /\ \A y \in DOMAIN left : left[y].got \subseteq MapTasks
        BY <1>1, WithoutTyped
      <3> HIDE DEF left
      <3>2. files' = left
        BY <2>3 DEF left
      <3> QED
        BY <2>1, <3>1, <3>2 DEF FilesTyped
    <2> QED
      BY <1>6, <2>2, <2>3
  <1>8. WellPlaced(w)'
    <2>1. Busy(w)
      BY <1>1 DEF Busy
    <2> QED
      BY <1>1, <1>4, <1>5, <2>1, PlaceInJob DEF Writes, At
  <1>9. faults' \in 0..MaxFaults /\ mishaps' \subseteq Mishaps
    BY <1>1, <1>5, FaultKinds, FaultTypes
  <1>10. DataTypes'
    BY <1>1, <1>2, <1>4, <1>5, <1>7, <1>8, <1>9, RestKept, ClientTypes
  <1>11. /\ DOMAIN files' \subseteq DOMAIN files
         /\ \A path \in DOMAIN files : path # TmpFile(exec[w].task) => path \in DOMAIN files'
         /\ \A path \in DOMAIN files' : files'[path] = files[path]
    <2>1. CASE files' = files
      BY <2>1
    <2>2. CASE files' = Without({TmpFile(exec[w].task)})
      BY <2>2 DEF Without
    <2> QED
      BY <1>6, <2>1, <2>2
  <1> QED
    BY <1>1, <1>4, <1>6, <1>10, <1>11

LEMMA RenameTypes ==
  ASSUME DataInv, SourceTypeOK', NEW w \in Clients, Rename(w)
  PROVE  /\ DataTypes' /\ Others(w) /\ SameJob(w)
         /\ exec[w].phase = 2 /\ w \in Compacters /\ exec[w].task \in Buckets
         /\ At(w, "rename") /\ exec'[w].at \in {"success", "failed"}
         /\ files' # files =>
               /\ Exists(TmpFile(exec[w].task))
               /\ files' = Put(Without({TmpFile(exec[w].task)}), GroupByFile(exec[w].task),
                               files[TmpFile(exec[w].task)])
  <1> DEFINE tmp == TmpFile(exec[w].task)
             out == GroupByFile(exec[w].task)
  <1>1. DataTypes /\ TypeOK /\ exec \in [Clients -> Execution] /\ At(w, "rename") /\ FilesTyped
    BY DEF DataInv, DataTypes, Rename, FilesTyped, TypeOK
  <1>2. /\ exec[w].phase = 2 /\ w \in Compacters /\ exec[w].task \in Buckets
        /\ exec[w].got \subseteq MapTasks
    BY <1>1, TaskTypes DEF WellPlaced, At, Busy
  <1>3. \/ Exists(tmp) /\ files' = Put(Without({tmp}), out, files[tmp]) /\ GoTo(w, "success")
        \/ GoTo(w, "failed") /\ files' = files
    BY DEF Rename
  <1>4. UNCHANGED <<sourceVars, jobVars, sinkVars, history>>
    BY DEF Rename
  <1>5. /\ exec' \in [Clients -> Execution] /\ Others(w) /\ SameJob(w)
        /\ exec'[w].at \in {"success", "failed"} /\ exec'[w].todo = exec[w].todo
        /\ exec'[w].got = exec[w].got
    <2>1. PICK where \in {"success", "failed"} : GoTo(w, where)
      BY <1>3
    <2>2. where \in Places
      BY DEF Places
    <2> QED
      BY <1>1, <2>1, <2>2, Going
  <1>6. FilesTyped'
    <2>1. MapTasks' = MapTasks
      BY <1>1, <1>4, RestKept
    <2>2. CASE files' = files
      BY <1>1, <2>1, <2>2 DEF FilesTyped
    <2>3. CASE Exists(tmp) /\ files' = Put(Without({tmp}), out, files[tmp])
      <3> DEFINE left == Without({tmp})
                 r    == files[tmp]
      <3>1. r \in FileRecord /\ r.got \subseteq MapTasks
        BY <1>1, <2>3 DEF FilesTyped, Exists
      <3>2. /\ left \in [DOMAIN left -> FileRecord]
            /\ \A y \in DOMAIN left : left[y].got \subseteq MapTasks
        BY <1>1, WithoutTyped
      <3>3. files' = Put(left, out, r)
        BY <2>3
      <3> HIDE DEF tmp, out, left, r
      <3> QED
        BY <2>1, <3>1, <3>2, <3>3, PutTyped
    <2> QED
      BY <1>3, <2>2, <2>3
  <1>7. WellPlaced(w)'
    <2>1. Busy(w)
      BY <1>1 DEF Busy, At
    <2> QED
      BY <1>1, <1>4, <1>5, <2>1, PlaceInJob DEF Writes, At
  <1>8. faults' \in 0..MaxFaults /\ mishaps' \subseteq Mishaps
    BY <1>1, <1>4 DEF TypeOK, history
  <1>9. DataTypes'
    BY <1>1, <1>2, <1>4, <1>5, <1>6, <1>7, <1>8, RestKept, ClientTypes
  <1> QED
    BY <1>1, <1>2, <1>3, <1>5, <1>9

LEMMA UpsertTypes ==
  ASSUME DataInv, SourceTypeOK', NEW w \in Clients, UpsertKey(w)
  PROVE  DataTypes' /\ exec' = exec /\ files' = files /\ exec[w].task \in Buckets
  <1>1. DataTypes /\ TypeOK /\ exec \in [Clients -> Execution] /\ FilesTyped /\ At(w, "upsert")
    BY DEF DataInv, DataTypes, FilesTyped, TypeOK, UpsertKey
  <1>2. /\ exec[w].got \subseteq MapTasks /\ exec[w].got \in SUBSET Nat
        /\ exec[w].task \in Buckets /\ WellPlaced(w)
    BY <1>1, TaskTypes DEF WellPlaced, Busy, At, Execution
  <1>3. UNCHANGED <<sourceVars, jobVars, exec, files, sinkResult, history>>
    BY DEF UpsertKey
  <1>4. sunk' \in [Buckets -> SUBSET Nat]
    <2>1. PICK t \in exec[w].got :
             sunk' = [sunk EXCEPT ![exec[w].task] = @ \cup {t}]
      BY DEF UpsertKey
    <2> QED
      BY <1>1, <1>2, <2>1 DEF DataTypes
  <1>5. /\ JobTyped' /\ MapTasks' = MapTasks /\ sourceDone' = sourceDone
        /\ UNCHANGED <<sourceVars, phase, attempts, claimed>>
    BY <1>1, <1>3, RestKept DEF sourceVars, listenerVars
  <1>6. FilesTyped'
    BY <1>1, <1>3, <1>5 DEF FilesTyped
  <1>7. WellPlaced(w)'
    <2>1. phase \in Nat /\ phase' = phase /\ exec[w] \in Execution
      BY <1>1, <1>5, TaskTypes DEF TypeOK
    <2> QED
      BY <1>2, <1>3, <1>5, <2>1, PlaceKept
  <1>8. faults' \in 0..MaxFaults /\ mishaps' \subseteq Mishaps /\ sinkResult' \subseteq Buckets
    BY <1>1, <1>3 DEF TypeOK, history
  <1>9. Others(w) /\ exec' \in [Clients -> Execution] /\ exec'[w].got \subseteq MapTasks
    BY <1>1, <1>2, <1>3 DEF Others
  <1>10. DataTypes'
    BY <1>1, <1>4, <1>5, <1>6, <1>7, <1>8, <1>9, ClientTypes
  <1> QED
    BY <1>2, <1>3, <1>10

LEMMA PhaseTypes ==
  ASSUME DataInv
  PROVE  /\ phase \in Nat /\ phaseDone \in Nat /\ (done <=> phase >= 4)
         /\ MapTasks \subseteq Nat /\ Buckets \subseteq Nat /\ PhaseTasks \subseteq Nat
         /\ DOMAIN attempts = PhaseTasks
         /\ \A t \in PhaseTasks : attempts[t] \in 0..maxRetries
         /\ ~done => phase \in 0..3
         /\ phase \in 0..3 => ~done
         /\ PhaseTasks = TasksOf(phase)
         /\ (phase > 0 => PhaseTasks = Buckets) /\ (phase = 0 => PhaseTasks = MapTasks)
         /\ maxRetries \in Nat \ {0} /\ gone \subseteq PhaseTasks
  <1>1. phase \in Nat /\ phaseDone \in Nat /\ (done <=> phase >= 4) /\ gone \subseteq PhaseTasks
    BY StageNames DEF DataInv, DataTypes, TypeOK, done
  <1>2. MapTasks \subseteq Nat /\ Buckets \subseteq Nat /\ maxRetries \in Nat \ {0}
    BY MapTaskIds, BucketIds, DataPathAssumption DEF DataInv
  <1>3. (phase > 0 => PhaseTasks = Buckets) /\ (phase = 0 => PhaseTasks = MapTasks)
    BY <1>1 DEF PhaseTasks
  <1>4. DOMAIN attempts = PhaseTasks /\ \A t \in PhaseTasks : attempts[t] \in 0..maxRetries
    BY DEF DataInv, DataTypes, TypeOK
  <1>5. (~done => phase \in 0..3) /\ (phase \in 0..3 => ~done)
    BY <1>1
  <1>6. PhaseTasks = TasksOf(phase) /\ PhaseTasks \subseteq Nat
    BY <1>1, <1>2, <1>3 DEF TasksOf, PhaseTasks
  <1> QED
    BY <1>1, <1>2, <1>3, <1>4, <1>5, <1>6

LEMMA GiveUpTypes ==
  ASSUME DataInv, SourceTypeOK', NEW t \in PhaseTasks, GiveUp(t)
  PROVE  /\ DataTypes' /\ UNCHANGED <<exec, files, attempts, claimed, reduction, phase, sinkVars>>
         /\ UNCHANGED <<sourceVars, history>>
         /\ gone' = gone \cup {t} /\ phaseDone' = phaseDone + 1
         /\ failed' = failed \cup {<<phase, t>>}
  <1>1. DataTypes /\ TypeOK
    BY DEF DataInv, DataTypes
  <1>2. /\ UNCHANGED <<sourceVars, phase, attempts, claimed, reduction, exec, files, sinkVars,
                        history>>
        /\ gone' = gone \cup {t} /\ phaseDone' = phaseDone + 1
        /\ failed' = failed \cup {<<phase, t>>}
    BY DEF GiveUp
  <1>3. MapTasks' = MapTasks /\ PhaseTasks' = PhaseTasks /\ sourceDone' = sourceDone
    BY <1>2 DEF MapTasks, PhaseTasks, sourceVars, listenerVars
  <1>4. TypeOK'
    BY <1>1, <1>2, <1>3 DEF TypeOK, history, sinkVars
  <1>5. \A w \in Clients : WellPlaced(w)'
    <2> SUFFICES ASSUME NEW w \in Clients PROVE WellPlaced(w)'
      OBVIOUS
    <2>1. exec[w] \in Execution /\ WellPlaced(w) /\ exec'[w] = exec[w]
      BY <1>2, TaskTypes
    <2>2. phase \in Nat /\ phase' = phase
      BY <1>2, PhaseTypes
    <2> QED
      BY <1>3, <2>1, <2>2, PlaceKept
  <1>6. DataTypes'
    BY <1>1, <1>2, <1>3, <1>4, <1>5 DEF DataTypes, sinkVars
  <1> QED
    BY <1>2, <1>6

LEMMA DispatchTypes ==
  ASSUME DataInv, SourceTypeOK', NEW t \in PhaseTasks, NEW w \in Clients, Dispatch(w, t)
  PROVE  /\ DataTypes' /\ Others(w) /\ ~Busy(w) /\ phase \in 0..3
         /\ exec'[w].at = "start" /\ exec'[w].phase = phase /\ exec'[w].task = t
         /\ attempts' = [attempts EXCEPT ![t] = @ + 1] /\ attempts[t] \in Nat
         /\ UNCHANGED <<files, phase, phaseDone, reduction, failed, sinkVars, sourceVars, faults>>
         /\ claimed \subseteq claimed' /\ gone' = gone \ {t}
  <1>1. DataTypes /\ TypeOK /\ exec \in [Clients -> Execution]
    BY DEF DataInv, DataTypes
  <1>2. /\ UNCHANGED <<sourceVars, phase, phaseDone, failed, reduction, files, sinkVars, faults>>
        /\ claimed' \subseteq claimed \cup (IF Stage = "GroupByTask" THEN {t} ELSE {})
        /\ claimed \subseteq claimed' /\ gone' = gone \ {t}
        /\ attempts' = [attempts EXCEPT ![t] = @ + 1] /\ attempts[t] < maxRetries
        /\ ~Busy(w) /\ ~done
        /\ mishaps' \subseteq mishaps \cup {"Overtaken"}
        /\ Offered(w, t)
    BY DEF Dispatch, At, Busy
  <1>3. /\ phase \in 0..3 /\ PhaseTasks = TasksOf(phase) /\ DOMAIN attempts = PhaseTasks
        /\ attempts[t] \in 0..maxRetries /\ maxRetries \in Nat /\ t \in Nat
    BY <1>2, PhaseTypes
  <1>12. Stage = "GroupByTask" => t \in Buckets
    BY <1>3, StageNames DEF Stage, TasksOf
  <1>4. /\ exec' \in [Clients -> Execution] /\ Others(w)
        /\ exec'[w].at = "start" /\ exec'[w].phase = phase /\ exec'[w].task = t
        /\ exec'[w].got = {}
    <2>1. attempts[t] \in Nat
      BY <1>3
    <2> QED
      BY <1>1, <1>3, <2>1, Dispatching
  <1>5. /\ MapTasks' = MapTasks /\ PhaseTasks' = PhaseTasks
        /\ sourceDone' = sourceDone /\ Stage = Stages[phase + 1]
    BY <1>2 DEF MapTasks, PhaseTasks, sourceVars, listenerVars, Stage
  <1>6. attempts[t] + 1 \in 0..maxRetries
    BY <1>2, <1>3
  <1>7. /\ DOMAIN attempts' = PhaseTasks
        /\ \A s \in DOMAIN attempts' : attempts'[s] \in 0..maxRetries
    <2>1. \A s \in PhaseTasks : attempts[s] \in 0..maxRetries
      BY <1>2, PhaseTypes
    <2> QED
      BY <1>2, <1>3, <1>6, <2>1
  <1>8. TypeOK'
    <2>1. \A v \in Clients : exec'[v].got \subseteq MapTasks'
      BY <1>1, <1>4, <1>5 DEF Others, TypeOK
    <2>2. mishaps' \subseteq Mishaps
      BY <1>1, <1>2 DEF TypeOK, Mishaps
    <2>3. DOMAIN attempts' = PhaseTasks'
      BY <1>2, <1>5, <1>7
    <2>4. /\ phase' \in Nat /\ phaseDone' \in Nat /\ gone' \subseteq PhaseTasks'
          /\ reduction' \subseteq Buckets /\ DOMAIN sunk' = Buckets /\ sinkResult' \subseteq Buckets
          /\ claimed' \subseteq Buckets /\ faults' \in 0..MaxFaults
      BY <1>1, <1>2, <1>12, <1>5 DEF TypeOK, sinkVars
    <2>5. \A path \in DOMAIN files' :
             files'[path].by \in Clients /\ files'[path].got \subseteq MapTasks'
      BY <1>1, <1>2, <1>5 DEF TypeOK
    <2> QED
      BY <1>7, <2>1, <2>2, <2>3, <2>4, <2>5 DEF TypeOK
  <1>9. WellPlaced(w)'
    <2>1. w \in Compacters => phase >= 2
      <3>1. Stage \in {"MapTask", "ReduceTask"} => w \in Workers
        BY <1>2 DEF Offered
      <3> QED
        BY <1>3, <1>5, <3>1, Pools, DataPathAssumption
    <2>3. phase' = phase
      BY <1>2
    <2>2. t \in TasksOf(phase)'
      <3>1. Buckets' = Buckets
        BY DEF Buckets
      <3> QED
        BY <1>3, <1>5, <2>3, <3>1 DEF TasksOf
    <2> QED
      BY <1>3, <1>4, <2>1, <2>2, <2>3 DEF WellPlaced, Busy, Writes, At, TasksOf
  <1>10. \A v \in Clients : WellPlaced(v)'
    <2>1. ASSUME NEW v \in Clients \ {w} PROVE WellPlaced(v)'
      <3>1. exec[v] \in Execution /\ WellPlaced(v) /\ exec'[v] = exec[v]
        BY <1>4, TaskTypes DEF Others
      <3>2. phase \in Nat /\ phase' = phase
        BY <1>2, <1>3
      <3> QED
        BY <1>5, <3>1, <3>2, PlaceKept
    <2> QED
      BY <1>9, <2>1
  <1>11. DataTypes'
    BY <1>1, <1>2, <1>4, <1>5, <1>8, <1>10 DEF DataTypes, sinkVars
  <1> QED
    BY <1>2, <1>3, <1>4, <1>11

LEMMA AdvanceTypes ==
  ASSUME DataInv, SourceTypeOK', NEW w \in Clients, AdvancePhase(w)
  PROVE  /\ DataTypes' /\ phase' = phase + 1 /\ Others(w) /\ ~Busy(w)' /\ At(w, "advance")
         /\ gone' = {} /\ phaseDone' = 0
         /\ UNCHANGED <<sourceVars, failed, claimed, reduction, files, sinkVars, faults>>
         /\ mishaps' = mishaps \cup (IF exec[w].phase = phase /\ PhaseTasks \subseteq gone
                                     THEN {} ELSE {"Overlapped"})
  <1>1. DataTypes /\ TypeOK /\ exec \in [Clients -> Execution]
    BY DEF DataInv, DataTypes
  <1>2. /\ UNCHANGED <<sourceVars, failed, claimed, reduction, files, sinkVars, faults>>
        /\ phase' = phase + 1 /\ gone' = {} /\ phaseDone' = 0 /\ At(w, "advance")
        /\ attempts' = [t \in Buckets |-> 0]
        /\ mishaps' = mishaps \cup (IF exec[w].phase = phase /\ PhaseTasks \subseteq gone
                                    THEN {} ELSE {"Overlapped"})
        /\ exec' = [exec EXCEPT ![w] = Waiting("idle", 0, 0)]
    BY DEF AdvancePhase, Idle
  <1>3. phase \in Nat /\ maxRetries \in Nat /\ phase' > 0
    BY <1>2, PhaseTypes
  <1>4. MapTasks' = MapTasks /\ PhaseTasks' = Buckets /\ sourceDone' = sourceDone
    BY <1>2, <1>3 DEF MapTasks, PhaseTasks, sourceVars, listenerVars
  <1>5. /\ exec' \in [Clients -> Execution] /\ Others(w) /\ ~Busy(w)'
        /\ exec'[w].at = "idle" /\ exec'[w].got = {}
    <2>1. 0 \in 0..3 /\ 0 \in Nat
      OBVIOUS
    <2> QED
      BY <1>1, <1>2, <2>1, Resting, Zenon
  <1>6. TypeOK'
    <2>1. /\ DOMAIN attempts' = PhaseTasks'
          /\ \A t \in DOMAIN attempts' : attempts'[t] \in 0..maxRetries
      BY <1>2, <1>3, <1>4
    <2>2. \A v \in Clients : exec'[v].got \subseteq MapTasks'
      BY <1>1, <1>4, <1>5 DEF TypeOK, Others
    <2>3. /\ \A path \in DOMAIN files' :
                files'[path].by \in Clients /\ files'[path].got \subseteq MapTasks'
          /\ reduction' \subseteq Buckets /\ claimed' \subseteq Buckets
          /\ DOMAIN sunk' = Buckets /\ sinkResult' \subseteq Buckets
          /\ faults' \in 0..MaxFaults /\ mishaps' \subseteq Mishaps
      BY <1>1, <1>2, <1>4 DEF TypeOK, sinkVars, Mishaps
    <2> QED
      BY <1>2, <1>3, <2>1, <2>2, <2>3 DEF TypeOK
  <1>7. \A v \in Clients : WellPlaced(v)'
    <2>1. ASSUME NEW v \in Clients \ {w} PROVE WellPlaced(v)'
      <3>1. exec[v] \in Execution /\ WellPlaced(v) /\ exec'[v] = exec[v]
        BY <1>5, TaskTypes DEF Others
      <3>2. phase \in Nat /\ phase' \in Nat /\ phase <= phase'
        BY <1>2, <1>3
      <3> QED
        BY <1>4, <3>1, <3>2, PlaceKept
    <2>2. WellPlaced(w)'
      BY <1>5 DEF WellPlaced, Busy, Writes, At
    <2> QED
      BY <2>1, <2>2
  <1>8. sourceDone'
    <2>1. CASE phase > 0
      BY <1>1, <1>4, <2>1 DEF DataTypes
    <2>2. CASE phase = 0
      <3>1. exec[w].phase \in 0..3 /\ exec[w].phase <= phase /\ (exec[w].phase = 0 => sourceDone)
        BY <1>2, TaskTypes DEF WellPlaced
      <3> QED
        BY <1>4, <2>2, <3>1
    <2> QED
      BY <1>3, <2>1, <2>2
  <1>9. DataTypes'
    BY <1>1, <1>2, <1>5, <1>6, <1>7, <1>8 DEF DataTypes, sinkVars
  <1> QED
    BY <1>2, <1>5, <1>9

\* The source adds the next map task, or none; and none after it has ended.
LEMMA SourceGrows ==
  ASSUME SourceInv, SourceNext
  PROVE  /\ sourceDone => sourceDone'
         /\ \/ tasks' = tasks
            \/ ~sourceDone /\ MapTasks' = MapTasks \cup {Len(tasks)} /\ Len(tasks) \notin MapTasks
  <1>1. sourceDone => sourceDone'
    BY DEF SourceNext, Producer, Push, NextFile, StopWalk, Close, Listener, TestDone, PopNothing,
       Pop, Store, ProposeTask, Exhausted, listenerVars
  <1>2. CASE ProposeTask
    <2>1. ~sourceDone /\ Len(held) = 1 /\ tasks \in Seq(FileChunk) /\ held \in Seq(FileChunk)
      BY <1>2 DEF ProposeTask, SourceInv, SourceTypeOK, ListenerAt
    <2>2. Len(tasks') = Len(tasks) + 1 /\ Len(tasks) \in Nat
      <3>1. tasks' = tasks \o held /\ Len(tasks) \in Nat
        BY <1>2, <2>1, LenProperties DEF ProposeTask
      <3>2. Len(tasks') = Len(tasks) + Len(held)
        BY <2>1, <3>1, ConcatProperties
      <3> QED
        BY <2>1, <3>1, <3>2
    <2>3. MapTasks' = MapTasks \cup {Len(tasks)} /\ Len(tasks) \notin MapTasks
      BY <2>2 DEF MapTasks
    <2> QED
      BY <1>1, <2>1, <2>3
  <1>3. CASE ~ProposeTask
    BY <1>1, <1>3 DEF SourceNext, Producer, Push, NextFile, StopWalk, Close, Listener, TestDone,
       PopNothing, Pop, Store, Exhausted, listenerVars
  <1> QED
    BY <1>2, <1>3

LEMMA SourceStepTypes ==
  ASSUME DataInv, SourceTypeOK', Source
  PROVE  /\ DataTypes' /\ MapTasks \subseteq MapTasks'
         /\ phase > 0 => tasks' = tasks
         /\ tasks' = tasks => attempts' = attempts
         /\ sourceDone => sourceDone' /\ tasks' = tasks
         /\ UNCHANGED <<phase, phaseDone, gone, failed, claimed, reduction, exec, files, sinkVars, history>>
  <1>1. DataTypes /\ TypeOK /\ SourceInv
    BY DEF DataInv, DataTypes
  <1>2. /\ UNCHANGED <<phase, phaseDone, gone, failed, claimed, reduction, exec, files, sinkVars, history>>
        /\ attempts' = IF tasks' = tasks THEN attempts ELSE Put(attempts, Len(tasks), 0)
    BY DEF Source
  <1>3. /\ sourceDone => sourceDone'
        /\ \/ tasks' = tasks
           \/ ~sourceDone /\ MapTasks' = MapTasks \cup {Len(tasks)} /\ Len(tasks) \notin MapTasks
    BY <1>1, SourceGrows DEF Source
  <1>4. MapTasks \subseteq MapTasks'
    BY <1>3 DEF MapTasks
  <1>5. phase \in Nat /\ (phase > 0 => tasks' = tasks) /\ maxRetries \in Nat
    BY <1>1, <1>3, PhaseTypes DEF DataTypes
  <1>6. PhaseTasks \subseteq PhaseTasks'
    BY <1>2, <1>4 DEF PhaseTasks
  <1>7. /\ DOMAIN attempts' = PhaseTasks'
        /\ \A t \in DOMAIN attempts' : attempts'[t] \in 0..maxRetries
    <2>1. CASE tasks' = tasks
      <3>1. PhaseTasks' = PhaseTasks /\ attempts' = attempts
        BY <1>2, <2>1 DEF PhaseTasks, MapTasks
      <3> QED
        BY <1>1, <1>6, <3>1 DEF TypeOK
    <2>2. CASE tasks' # tasks
      <3>1. phase = 0 /\ PhaseTasks = MapTasks /\ PhaseTasks' = MapTasks'
        BY <1>2, <1>5, <2>2, PhaseTypes DEF PhaseTasks
      <3>2. attempts' = Put(attempts, Len(tasks), 0) /\ MapTasks' = MapTasks \cup {Len(tasks)}
        BY <1>2, <1>3, <2>2
      <3>3. /\ DOMAIN attempts' = {Len(tasks)} \cup DOMAIN attempts /\ attempts'[Len(tasks)] = 0
            /\ \A s \in DOMAIN attempts : s # Len(tasks) => attempts'[s] = attempts[s]
        <4> DEFINE new == Len(tasks)
        <4>1. attempts' = Put(attempts, new, 0)
          BY <3>2
        <4> HIDE DEF new
        <4>2. /\ DOMAIN attempts' = {new} \cup DOMAIN attempts /\ attempts'[new] = 0
              /\ \A s \in DOMAIN attempts : s # new => attempts'[s] = attempts[s]
          BY <4>1 DEF Put
        <4> QED
          BY <4>2 DEF new
      <3>4. DOMAIN attempts = MapTasks /\ \A s \in DOMAIN attempts : attempts[s] \in 0..maxRetries
        BY <1>1, <3>1 DEF TypeOK
      <3>5. DOMAIN attempts' = PhaseTasks'
        BY <3>1, <3>2, <3>3, <3>4
      <3>6. \A s \in DOMAIN attempts' : attempts'[s] \in 0..maxRetries
        BY <1>5, <3>3, <3>4
      <3> QED
        BY <1>6, <3>1, <3>5, <3>6
    <2> QED
      BY <2>1, <2>2
  <1>8. TypeOK'
    BY <1>1, <1>2, <1>4, <1>6, <1>7 DEF TypeOK, sinkVars, history
  <1>9. \A w \in Clients : WellPlaced(w)'
    <2> SUFFICES ASSUME NEW w \in Clients PROVE WellPlaced(w)'
      OBVIOUS
    <2>1. exec[w] \in Execution /\ WellPlaced(w) /\ exec'[w] = exec[w]
      BY <1>2, TaskTypes
    <2>2. phase \in Nat /\ phase' = phase
      BY <1>2, <1>5
    <2> QED
      BY <1>3, <1>4, <2>1, <2>2, PlaceKept
  <1> QED
    BY <1>1, <1>2, <1>3, <1>4, <1>5, <1>8, <1>9 DEF DataTypes, sinkVars

LEMMA DataInitInv == Init => DataInv
  <1> SUFFICES ASSUME Init PROVE DataInv
    OBVIOUS
  <1>1. SourceInv
    BY SourceInitInv DEF Init
  <1>2. MapTasks = {} /\ PhaseTasks = {}
    BY DEF Init, SourceInit, MapTasks, PhaseTasks
  <1>3. Idle \in Execution /\ Idle.at = "idle" /\ Idle.got = {}
    BY DEF Idle, Waiting, Execution, Places
  <1>4. /\ exec \in [Clients -> Execution]
        /\ \A w \in Clients : exec[w].at = "idle" /\ exec[w].got = {}
    BY <1>3 DEF Init
  <1>5. \A w \in Clients : WellPlaced(w)
    BY <1>4 DEF WellPlaced, Busy, Writes, At
  <1>6. files \in [DOMAIN files -> FileRecord] /\ DOMAIN files = {}
    BY DEF Init
  <1>7. sunk \in [Buckets -> SUBSET Nat]
    BY DEF Init
  <1>8. 0 \in 0..MaxFaults
    BY DataPathAssumption
  <1>9. TypeOK
    BY <1>1, <1>2, <1>4, <1>6, <1>8 DEF Init, TypeOK, SourceInv
  <1> QED
    BY <1>1, <1>4, <1>5, <1>6, <1>7, <1>9 DEF Init, DataInv, DataTypes

LEMMA DataStepInv == DataInv /\ [Next]_vars => DataInv'
  <1> SUFFICES ASSUME DataInv, [Next]_vars PROVE DataInv'
    OBVIOUS
  <1>1. SourceInv' /\ SourceTypeOK'
    BY StepMapsToSource, SourceStepInv DEF DataInv, SourceInv
  <1>2. CASE Source
    BY <1>1, <1>2, SourceStepTypes DEF DataInv
  <1>3. ASSUME NEW w \in Clients, FindPhaseComplete(w) \/ AdvancePhase(w) PROVE DataInv'
    BY <1>1, <1>3, AdvanceTypes, RestTypes DEF Rests, DataInv
  <1>4. ASSUME NEW t \in PhaseTasks, GiveUp(t) PROVE DataInv'
    BY <1>1, <1>4, GiveUpTypes DEF DataInv
  <1>5. ASSUME NEW t \in PhaseTasks, NEW w \in Clients, Dispatch(w, t) PROVE DataInv'
    BY <1>1, <1>5, DispatchTypes DEF DataInv
  <1>6. ASSUME NEW w \in Clients, Execute(w) PROVE DataInv'
    BY <1>1, <1>6, GoTypes, ReadTypes, CreateTypes, WriteTypes, WriteFailsTypes, RenameTypes,
       UpsertTypes DEF Execute, DataInv
  <1>7. ASSUME NEW w \in Clients, Report(w) \/ Crash(w) PROVE DataInv'
    BY <1>1, <1>7, RestTypes DEF Report, Rests, DataInv
  <1>8. CASE UNCHANGED vars
    <2>1. UNCHANGED <<sourceVars, jobVars, exec, files, sinkVars, history>>
      BY <1>8 DEF vars
    <2>2. /\ MapTasks' = MapTasks /\ PhaseTasks' = PhaseTasks
          /\ sourceDone' = sourceDone /\ phase' = phase /\ phase \in Nat
      BY <2>1, PhaseTypes DEF MapTasks, PhaseTasks, sourceVars, listenerVars, jobVars
    <2>3. TypeOK'
      BY <1>1, <2>1, <2>2 DEF DataInv, DataTypes, TypeOK, jobVars, sinkVars, history
    <2>4. \A w \in Clients : WellPlaced(w)'
      BY <2>1, <2>2, TaskTypes, PlaceKept
    <2> QED
      BY <1>1, <2>1, <2>2, <2>3, <2>4 DEF DataInv, DataTypes, sinkVars
  <1> QED
    BY <1>2, <1>3, <1>4, <1>5, <1>6, <1>7, <1>8 DEF Next, Schedule

\* Every variable stays in the type its use in coordinator.go, worker.go and
\* compacter.go gives it, for every number of clients, buckets, retries and faults.
THEOREM DataPathTyped == Spec => []TypeOK
  <1>1. DataInv => TypeOK
    BY DEF DataInv, DataTypes
  <1> QED
    BY <1>1, DataInitInv, DataStepInv, PTL DEF Spec

(***************************************************************************)
(* What a step does to a file                                              *)
(***************************************************************************)
\* The step leaves the file at path, or its absence, as it is.
Same(path) == /\ Exists(path)' <=> Exists(path)
              /\ Exists(path) => files'[path] = files[path]

LEMMA SameFiles == ASSUME files' = files, NEW path PROVE Same(path)
  BY DEF Same, Exists

\* An execution touches its own files only, until it renames.
LEMMA OwnFilesOnly ==
  ASSUME DataInv, SourceTypeOK', NEW w \in Clients,
         CreateFile(w) \/ WriteFile(w) \/ WriteShort(w) \/ WriteFails(w),
         NEW path, path \notin OutputsOf(exec[w].phase, exec[w].task)
  PROVE  Same(path)
  <1>1. CASE CreateFile(w)
    <2>1. PICK p \in exec[w].todo : files' = Put(files, p, File(w, FALSE, exec[w].got))
      BY <1>1, CreateTypes
    <2>2. exec[w].todo \subseteq OutputsOf(exec[w].phase, exec[w].task)
      BY <1>1, TaskTypes DEF WellPlaced, Writes, CreateFile, At
    <2>3. p # path
      BY <2>1, <2>2
    <2> QED
      BY <2>1, <2>3 DEF Same, Exists, Put
  <1>2. CASE WriteFile(w) \/ WriteShort(w)
    <2>1. path \notin Writing(w)
      BY TaskTypes
    <2>2. PICK kept \in SUBSET exec[w].got : WritesOut(w, kept)
      BY <1>2, WritesAll, WritesSome
    <2> QED
      BY <2>1, <2>2, WritingOut DEF Same, Exists
  <1>3. CASE WriteFails(w)
    <2>1. exec[w].phase = 2 => path # TmpFile(exec[w].task)
      BY OutputsByPhase
    <2>2. CASE exec[w].phase # 2
      BY <1>3, <2>2, WriteFailsTypes, SameFiles
    <2>3. CASE exec[w].phase = 2
      <3>1. /\ DOMAIN files' \subseteq DOMAIN files
            /\ path \in DOMAIN files => path \in DOMAIN files'
            /\ path \in DOMAIN files' => files'[path] = files[path]
        BY <1>3, <2>1, <2>3, WriteFailsTypes
      <3> QED
        BY <3>1 DEF Same, Exists
    <2> QED
      BY <2>2, <2>3
  <1> QED
    BY <1>1, <1>2, <1>3

\* A rename moves the temporary file of one bucket, and touches no other.
LEMMA RenameFiles ==
  ASSUME DataInv, SourceTypeOK', NEW w \in Clients, Rename(w)
  PROVE  /\ \A path : path # TmpFile(exec[w].task) /\ path # GroupByFile(exec[w].task) => Same(path)
         /\ \/ files' = files
            \/ /\ Exists(TmpFile(exec[w].task)) /\ GroupByFile(exec[w].task) \in DOMAIN files'
               /\ files'[GroupByFile(exec[w].task)] = files[TmpFile(exec[w].task)]
  <1> DEFINE tmp == TmpFile(exec[w].task)
             out == GroupByFile(exec[w].task)
  <1>1. CASE files' = files
    BY <1>1, SameFiles
  <1>2. CASE files' # files
    <2>1. Exists(tmp) /\ files' = Put(Without({tmp}), out, files[tmp])
      BY <1>2, RenameTypes
    <2> HIDE DEF tmp, out
    <2>2. /\ DOMAIN files' = {out} \cup (DOMAIN files \ {tmp}) /\ files'[out] = files[tmp]
          /\ \A y \in DOMAIN files \ {tmp} : y # out => files'[y] = files[y]
      BY <2>1 DEF Put, Without
    <2>3. \A path : path # tmp /\ path # out => Same(path)
      BY <2>2 DEF Same, Exists
    <2>4. Exists(tmp) /\ out \in DOMAIN files' /\ files'[out] = files[tmp]
      BY <2>1, <2>2
    <2> QED
      BY <2>3, <2>4 DEF tmp, out
  <1> QED
    BY <1>1, <1>2

\* Every other step leaves the files alone.
LEMMA NoFileTouched ==
  ASSUME [Next]_vars,
         \A w \in Clients :
            ~(CreateFile(w) \/ WriteFile(w) \/ WriteShort(w) \/ WriteFails(w) \/ Rename(w))
  PROVE  files' = files
  <1>1. CASE Source \/ Schedule \/ UNCHANGED vars
    BY <1>1 DEF Source, Schedule, FindPhaseComplete, AdvancePhase, GiveUp, Dispatch, vars
  <1>2. ASSUME NEW w \in Clients, Execute(w) \/ Report(w) \/ Crash(w) PROVE files' = files
    BY <1>2 DEF Execute, SkipExecution, FailAtStart, ReadInput, ReadShort, UpsertKey, LastUpsert,
       UpsertFails, MarkSinkDone, Report, IgnoreReport, CompleteTask, MarkReduceDone, CompleteLate,
       CountLate, FailTask, Crash
  <1> QED
    BY <1>1, <1>2 DEF Next

(***************************************************************************)
(* Compaction                                                              *)
(***************************************************************************)
Compacts(w, b) == w \in Compacters /\ On(w, 2, b)

\* The claim, as the scheduler honours it: a bucket has one compacter at most, and
\* none before its GroupBy task is claimed.
OneCompacter ==
    /\ \A b \in Buckets : \A v, w \in Compacters : Compacts(v, b) /\ Compacts(w, b) => v = w
    /\ \A b \in Buckets \ claimed : \A w \in Compacters : ~Compacts(w, b)

TmpOf(w, b) == Exists(TmpFile(b)) /\ files[TmpFile(b)].by = w

\* How far a compacter is with its bucket: the temporary file is its own, closed
\* when it comes to rename it, and the compacted file is not there before.
CompactOf(w, b) ==
    Compacts(w, b) =>
        /\ exec[w].at \in {"create", "write", "rename"} => ~Exists(GroupByFile(b))
        /\ At(w, "create") => exec[w].todo = {TmpFile(b)}
        /\ At(w, "write") => exec[w].todo = {} /\ TmpOf(w, b)
        /\ At(w, "rename") => TmpOf(w, b) /\ files[TmpFile(b)].closed

CompactInv == \A w \in Compacters, b \in Buckets : CompactOf(w, b)

CompactionInv == DataInv /\ OneCompacter /\ CompactInv /\ CompactedWhole

\* Nobody is given a task.
KeepsJobs == \A v \in Clients : Busy(v)' => Busy(v) /\ SameJob(v)

LEMMA JobsKept ==
  ASSUME DataInv, SourceTypeOK', [Next]_vars,
         \A w \in Clients, t \in PhaseTasks : ~Dispatch(w, t)
  PROVE  KeepsJobs
  <1>1. ASSUME exec' = exec PROVE KeepsJobs
    BY <1>1 DEF KeepsJobs, Busy, SameJob
  <1>2. ASSUME NEW w \in Clients, Others(w), ~Busy(w)' \/ (Busy(w) /\ SameJob(w))
        PROVE  KeepsJobs
    BY <1>2 DEF KeepsJobs, Busy, SameJob, Others
  <1>3. CASE Source
    BY <1>1, <1>3, SourceStepTypes
  <1>4. CASE Schedule
    <2>1. ASSUME NEW w \in Clients, FindPhaseComplete(w) \/ AdvancePhase(w) PROVE KeepsJobs
      <3>1. Others(w) /\ ~Busy(w)'
        BY <2>1, RestTypes, AdvanceTypes DEF Rests
      <3> QED
        BY <1>2, <3>1
    <2>2. ASSUME NEW t \in PhaseTasks, GiveUp(t) PROVE KeepsJobs
      BY <1>1, <2>2, GiveUpTypes
    <2> QED
      BY <1>4, <2>1, <2>2 DEF Schedule
  <1>5. CASE UNCHANGED vars
    BY <1>1, <1>5 DEF vars
  <1>6. ASSUME NEW w \in Clients, Execute(w) PROVE KeepsJobs
    <2>1. Busy(w)
      BY <1>6 DEF Execute, SkipExecution, FailAtStart, ReadInput, ReadShort, ReadsInput, CreateFile,
         WriteFile, WriteShort, WriteFails, Rename, UpsertKey, LastUpsert, UpsertFails, MarkSinkDone,
         Busy, At
    <2>2. CASE UpsertKey(w)
      BY <1>1, <2>2, UpsertTypes
    <2>3. CASE ~UpsertKey(w)
      <3>1. Others(w) /\ SameJob(w)
        BY <1>6, <2>3, GoTypes, ReadTypes, CreateTypes, WriteTypes, WriteFailsTypes, RenameTypes
           DEF Execute
      <3> QED
        BY <1>2, <2>1, <3>1
    <2> QED
      BY <2>2, <2>3
  <1>7. ASSUME NEW w \in Clients, Report(w) \/ Crash(w) PROVE KeepsJobs
    <2>1. Others(w) /\ ~Busy(w)'
      BY <1>7, RestTypes DEF Report, Rests
    <2> QED
      BY <1>2, <2>1
  <1> QED
    BY <1>3, <1>4, <1>5, <1>6, <1>7 DEF Next

\* No step but this one claims a bucket.
LEMMA ClaimsKept ==
  ASSUME [Next]_vars, \A w \in Clients, t \in PhaseTasks : ~Dispatch(w, t)
  PROVE  claimed' = claimed
  <1>1. ASSUME NEW w \in Clients, Execute(w) \/ Report(w) \/ Crash(w)
        PROVE  claimed' = claimed
    BY <1>1 DEF Execute, SkipExecution, FailAtStart, ReadInput, ReadShort, CreateFile, WriteFile,
         WriteShort, WriteFails, Rename, UpsertKey, LastUpsert, UpsertFails, MarkSinkDone, Report,
         IgnoreReport, CompleteTask, MarkReduceDone, CompleteLate, CountLate, FailTask, Crash, jobVars
  <1> QED
    BY <1>1 DEF Next, Source, Schedule, GiveUp, FindPhaseComplete, AdvancePhase, vars, jobVars

LEMMA OneCompacterStep ==
  ASSUME DataInv, SourceTypeOK', OneCompacter, [Next]_vars
  PROVE  OneCompacter'
  <1>0. Buckets' = Buckets
    BY DEF Buckets
  <1>1. CASE \A w \in Clients, t \in PhaseTasks : ~Dispatch(w, t)
    <2>1. KeepsJobs /\ claimed' = claimed
      BY <1>1, JobsKept, ClaimsKept
    <2>2. \A v \in Compacters, b \in Buckets : Compacts(v, b)' => Compacts(v, b)
      BY <2>1 DEF KeepsJobs, Compacts, On, SameJob, Clients
    <2> QED
      BY <1>0, <2>1, <2>2 DEF OneCompacter
  <1>2. ASSUME NEW w \in Clients, NEW t \in PhaseTasks, Dispatch(w, t)
        PROVE  OneCompacter'
    <2>1. /\ Others(w) /\ exec'[w].phase = phase /\ exec'[w].task = t /\ phase \in 0..3
          /\ claimed \subseteq claimed'
      BY <1>2, DispatchTypes
    <2>2. \A v \in Compacters, b \in Buckets : v # w /\ Compacts(v, b)' => Compacts(v, b)
      BY <2>1 DEF Others, Compacts, On, Busy, Clients
    <2>3. ASSUME NEW b \in Buckets, Compacts(w, b)'
          PROVE  w \in Compacters /\ b \notin claimed /\ b \in claimed'
      <3>1. phase = 2 /\ b = t /\ w \in Compacters
        BY <2>1, <2>3 DEF Compacts, On
      <3>2. Stage = "GroupByTask"
        BY <3>1, StageNames DEF Stage
      <3> QED
        BY <1>2, <3>1, <3>2 DEF Dispatch, Offered
    <2> QED
      BY <1>0, <2>1, <2>2, <2>3 DEF OneCompacter
  <1> QED
    BY <1>1, <1>2

LEMMA CompactKept ==
  ASSUME NEW v \in Compacters, NEW b \in Buckets, exec'[v] = exec[v],
         Same(TmpFile(b)), Same(GroupByFile(b)), CompactOf(v, b)
  PROVE  CompactOf(v, b)'
  BY DEF CompactOf, Compacts, On, Busy, At, TmpOf, Same, Exists, TmpFile, GroupByFile

\* A client that is not at its files any more has nothing to show for it.
LEMMA CompactOver ==
  ASSUME NEW w \in Compacters, NEW b \in Buckets,
         exec'[w].at \notin {"create", "write", "rename"}
  PROVE  CompactOf(w, b)'
  BY DEF CompactOf, At

\* What the step of another client on its own files leaves of the bucket.
LEMMA OthersBucket ==
  ASSUME DataInv, SourceTypeOK', OneCompacter, NEW w \in Clients,
         CreateFile(w) \/ WriteFile(w) \/ WriteShort(w) \/ WriteFails(w) \/ Rename(w),
         NEW v \in Compacters, v # w, NEW b \in Buckets, Compacts(v, b)
  PROVE  Same(TmpFile(b)) /\ Same(GroupByFile(b))
  <1> DEFINE p == exec[w].phase
             t == exec[w].task
  <1>1. /\ p \in 0..3 /\ t \in Nat /\ b \in Nat /\ WellPlaced(w)
        /\ Busy(w)
    BY TaskTypes, BucketIds DEF CreateFile, WriteFile, WriteShort, WriteFails, Rename, Busy, At
  <1>2. ~(w \in Compacters /\ p = 2 /\ t = b)
    BY <1>1 DEF OneCompacter, Compacts, On
  <1>3. CASE CreateFile(w) \/ WriteFile(w) \/ WriteShort(w) \/ WriteFails(w)
    <2>1. Writes(w) \/ At(w, "rename")
      BY <1>3 DEF CreateFile, WriteFile, WriteShort, WriteFails, Writes, At
    <2>2. p = 2 => w \in Compacters
      BY <1>1, <2>1 DEF WellPlaced
    <2>3. TmpFile(b) \notin OutputsOf(p, t)
      <3>1. TmpFile(b) \in OutputsOf(2, b)
        BY <1>1, BucketFiles
      <3> QED
        BY <1>1, <1>2, <2>2, <3>1, OutputsDisjoint
    <2>4. GroupByFile(b) \notin OutputsOf(p, t)
      BY <1>1, OutputsDisjoint
    <2> QED
      BY <1>3, <2>3, <2>4, OwnFilesOnly
  <1>4. CASE Rename(w)
    <2>1. t # b
      BY <1>2, <1>4, RenameTypes
    <2>2. TmpFile(b) # TmpFile(t) /\ GroupByFile(b) # GroupByFile(t)
      BY <1>1, <2>1 DEF TmpFile, GroupByFile
    <2>3. TmpFile(b) # GroupByFile(t) /\ GroupByFile(b) # TmpFile(t)
      BY DEF TmpFile, GroupByFile
    <2> QED
      BY <1>4, <2>2, <2>3, RenameFiles
  <1> QED
    BY <1>3, <1>4

\* The files of a client's own bucket, as it creates and writes its temporary one.
LEMMA OwnBucket ==
  ASSUME DataInv, SourceTypeOK', NEW w \in Compacters, NEW b \in Buckets,
         ReadInput(w) \/ ReadShort(w) \/ CreateFile(w) \/ WriteFile(w) \/ WriteShort(w),
         CompactOf(w, b)
  PROVE  CompactOf(w, b)'
  <1> SUFFICES ASSUME Compacts(w, b)' PROVE CompactOf(w, b)'
    BY DEF CompactOf
  <1>0. w \in Clients /\ b \in Nat
    BY BucketIds DEF Clients
  <1>1. SameJob(w) /\ Busy(w)
    BY <1>0, ReadTypes, CreateTypes, WriteTypes DEF Busy, At
  <1>2. Compacts(w, b) /\ exec[w].phase = 2 /\ exec[w].task = b
    BY <1>1 DEF Compacts, On, SameJob
  <1>3. /\ OutputsOf(exec[w].phase, exec[w].task) = {TmpFile(b)}
        /\ GroupByFile(b) \notin OutputsOf(exec[w].phase, exec[w].task)
    BY <1>2, OutputsByPhase DEF TmpFile, GroupByFile
  <1>4. CASE ReadInput(w) \/ ReadShort(w)
    <2>1. ~Exists(GroupByFile(b))
      <3>1. ~Checkpoint(Type(w), exec[w].task)
        BY <1>4 DEF ReadInput, ReadShort, ReadsInput
      <3>2. Type(w) = Stages[2 + 1] /\ exec[w].task = b
        BY <1>0, <1>2, TaskTypes
      <3> QED
        BY <3>1, <3>2, CheckpointByPhase
    <2>2. exec'[w].at = "create" /\ exec'[w].todo = {TmpFile(b)} /\ files' = files
      <3>1. files' = files
        BY <1>4 DEF ReadInput, ReadShort
      <3> QED
        BY <1>0, <1>2, <1>3, <1>4, <3>1, ReadTypes
    <2> QED
      BY <2>1, <2>2 DEF CompactOf, At, Exists, TmpFile, GroupByFile
  <1>5. CASE CreateFile(w)
    <2>1. /\ exec[w].at = "create" /\ exec'[w].at = "write"
      BY <1>0, <1>5, CreateTypes DEF At
    <2>2. exec[w].todo = {TmpFile(b)} /\ ~Exists(GroupByFile(b))
      BY <1>2, <2>1 DEF CompactOf, At
    <2>3. exec'[w].todo = {} /\ files' = Put(files, TmpFile(b), File(w, FALSE, exec[w].got))
      BY <1>0, <1>5, <2>2, CreateTypes
    <2>4. /\ TmpFile(b) \in DOMAIN files'
          /\ files'[TmpFile(b)] = File(w, FALSE, exec[w].got)
      BY <2>3 DEF Put
    <2>5. Same(GroupByFile(b))
      BY <1>0, <1>3, <1>5, OwnFilesOnly
    <2>6. files'[TmpFile(b)].by = w
      BY <2>4 DEF File
    <2> QED
      BY <2>1, <2>2, <2>3, <2>4, <2>5, <2>6 DEF CompactOf, At, TmpOf, Exists, Same, TmpFile, GroupByFile
  <1>6. CASE WriteFile(w) \/ WriteShort(w)
    <2>0. PICK kept \in SUBSET exec[w].got : WritesOut(w, kept)
      BY <1>6, WritesAll, WritesSome
    <2>1. /\ exec[w].at = "write" /\ exec'[w].at = AfterFile(w)
          /\ AfterFile(w) = IF exec[w].todo # {} THEN "create"
                            ELSE IF exec[w].phase = 2 THEN "rename" ELSE "success"
      BY <1>0, <2>0, WritingOut DEF At
    <2>2. exec[w].todo = {} /\ TmpOf(w, b) /\ ~Exists(GroupByFile(b))
      BY <1>2, <2>1 DEF CompactOf, At
    <2>3. exec'[w].at = "rename"
      BY <1>2, <2>1, <2>2
    <2>4. TmpFile(b) \in Writing(w)
      BY <1>0, <1>3, <2>2, TaskTypes
    <2>5. /\ TmpFile(b) \in DOMAIN files' /\ files'[TmpFile(b)].by = w
          /\ files'[TmpFile(b)].closed
      BY <1>0, <2>0, <2>2, <2>4, WritingOut DEF TmpOf, Exists
    <2>6. Same(GroupByFile(b))
      BY <1>0, <1>3, <1>6, OwnFilesOnly
    <2> QED
      BY <2>2, <2>3, <2>5, <2>6 DEF CompactOf, At, TmpOf, Exists, Same, TmpFile, GroupByFile
  <1> QED
    BY <1>4, <1>5, <1>6

LEMMA CompactStep ==
  ASSUME DataInv, SourceTypeOK', OneCompacter, CompactInv, [Next]_vars
  PROVE  CompactInv'
  <1> SUFFICES ASSUME NEW v \in Compacters, NEW b \in Buckets' PROVE CompactOf(v, b)'
    BY DEF CompactInv
  <1>0. b \in Buckets /\ v \in Clients /\ CompactOf(v, b)
    BY DEF Buckets, CompactInv, Clients
  <1>1. ASSUME files' = files, exec'[v] = exec[v] PROVE CompactOf(v, b)'
    BY <1>0, <1>1, SameFiles, CompactKept
  <1>2. CASE Source \/ UNCHANGED vars
    BY <1>1, <1>2 DEF Source, vars
  <1>3. CASE \E t \in PhaseTasks : GiveUp(t)
    BY <1>1, <1>3 DEF GiveUp
  <1>4. ASSUME NEW t \in PhaseTasks, NEW w \in Clients, Dispatch(w, t) PROVE CompactOf(v, b)'
    <2>1. files' = files /\ Others(w) /\ exec'[w].at = "start"
      BY <1>4, DispatchTypes
    <2>2. CASE v = w
      BY <1>0, <2>1, <2>2, CompactOver
    <2>3. CASE v # w
      BY <1>0, <1>1, <2>1, <2>3 DEF Others
    <2> QED
      BY <2>2, <2>3
  <1>5. ASSUME NEW w \in Clients,
               \/ Rests(w) \/ AdvancePhase(w)
               \/ SkipExecution(w) \/ FailAtStart(w) \/ LastUpsert(w) \/ UpsertFails(w)
               \/ MarkSinkDone(w)
        PROVE  CompactOf(v, b)'
    <2>1. Others(w) /\ exec'[w].at \notin {"create", "write", "rename"}
      BY <1>5, RestTypes, AdvanceTypes, GoTypes DEF Busy
    <2>2. files' = files
      BY <1>5 DEF Rests, IgnoreReport, CompleteTask, MarkReduceDone, CompleteLate, CountLate, FailTask,
         Crash, FindPhaseComplete, AdvancePhase, SkipExecution, FailAtStart, LastUpsert, UpsertFails,
         MarkSinkDone
    <2>3. CASE v = w
      BY <1>0, <2>1, <2>3, CompactOver
    <2>4. CASE v # w
      BY <1>0, <1>1, <2>1, <2>2, <2>4 DEF Others
    <2> QED
      BY <2>3, <2>4
  <1>6. ASSUME NEW w \in Clients, UpsertKey(w) PROVE CompactOf(v, b)'
    BY <1>1, <1>6, UpsertTypes
  <1>7. ASSUME NEW w \in Clients, ReadInput(w) \/ ReadShort(w) PROVE CompactOf(v, b)'
    <2>1. files' = files /\ Others(w)
      BY <1>7, ReadTypes DEF ReadInput, ReadShort
    <2>2. CASE v = w
      BY <1>0, <1>7, <2>2, OwnBucket
    <2>3. CASE v # w
      BY <1>0, <1>1, <2>1, <2>3 DEF Others
    <2> QED
      BY <2>2, <2>3
  <1>8. ASSUME NEW w \in Clients,
               CreateFile(w) \/ WriteFile(w) \/ WriteShort(w) \/ WriteFails(w) \/ Rename(w)
        PROVE  CompactOf(v, b)'
    <2>1. Others(w)
      BY <1>8, CreateTypes, WriteTypes, WriteFailsTypes, RenameTypes
    <2>2. CASE v # w
      <3>1. exec'[v] = exec[v]
        BY <1>0, <2>1, <2>2 DEF Others
      <3>2. CASE Compacts(v, b)
        BY <1>0, <1>8, <2>2, <3>1, <3>2, OthersBucket, CompactKept
      <3>3. CASE ~Compacts(v, b)
        BY <3>1, <3>3 DEF CompactOf, Compacts, On, Busy
      <3> QED
        BY <3>2, <3>3
    <2>3. CASE v = w /\ (CreateFile(w) \/ WriteFile(w) \/ WriteShort(w))
      BY <1>0, <2>3, OwnBucket
    <2>4. CASE v = w /\ (WriteFails(w) \/ Rename(w))
      <3>1. exec'[w].at \in {"success", "failed"}
        BY <2>4, WriteFailsTypes, RenameTypes
      <3> QED
        BY <1>0, <2>4, <3>1, CompactOver
    <2> QED
      BY <1>8, <2>2, <2>3, <2>4
  <1> QED
    BY <1>2, <1>3, <1>4, <1>5, <1>6, <1>7, <1>8 DEF Next, Schedule, Execute, Report, Rests

\* A compacted file comes about by a rename, when there is none, and stays as it is.
LEMMA CompactedOnce ==
  ASSUME DataInv, SourceTypeOK', CompactInv, [Next]_vars, NEW b \in Buckets
  PROVE  \/ Same(GroupByFile(b))
         \/ \E w \in Clients :
               /\ Rename(w) /\ exec[w].task = b /\ exec[w].phase = 2 /\ w \in Compacters
               /\ ~Exists(GroupByFile(b)) /\ GroupByFile(b) \in DOMAIN files'
               /\ Exists(TmpFile(b)) /\ files'[GroupByFile(b)] = files[TmpFile(b)]
               /\ files[TmpFile(b)].closed
  <1>1. ASSUME NEW w \in Clients, CreateFile(w) \/ WriteFile(w) \/ WriteShort(w) \/ WriteFails(w)
        PROVE  Same(GroupByFile(b))
    <2>1. GroupByFile(b) \notin OutputsOf(exec[w].phase, exec[w].task)
      BY TaskTypes, OutputsDisjoint
    <2> QED
      BY <1>1, <2>1, OwnFilesOnly
  <1>2. ASSUME NEW w \in Clients, Rename(w), ~Same(GroupByFile(b))
        PROVE  /\ exec[w].task = b /\ exec[w].phase = 2 /\ w \in Compacters
               /\ ~Exists(GroupByFile(b)) /\ GroupByFile(b) \in DOMAIN files'
               /\ Exists(TmpFile(b)) /\ files'[GroupByFile(b)] = files[TmpFile(b)]
               /\ files[TmpFile(b)].closed
    <2>1. exec[w].phase = 2 /\ w \in Compacters /\ At(w, "rename") /\ exec[w].task \in Buckets
      BY <1>2, RenameTypes
    <2>2. GroupByFile(b) # TmpFile(exec[w].task)
      BY DEF TmpFile, GroupByFile
    <2>3. GroupByFile(b) = GroupByFile(exec[w].task)
      BY <1>2, <2>2, RenameFiles
    <2>4. exec[w].task = b
      BY <2>1, <2>3, BucketFiles, BucketIds
    <2>5. Compacts(w, b)
      BY <2>1, <2>4 DEF Compacts, On, Busy, At
    <2>6. ~Exists(GroupByFile(b)) /\ files[TmpFile(b)].closed
      BY <2>1, <2>5 DEF CompactInv, CompactOf, At
    <2>7. /\ Exists(TmpFile(b)) /\ GroupByFile(b) \in DOMAIN files'
          /\ files'[GroupByFile(b)] = files[TmpFile(b)]
      BY <1>2, <2>4, RenameFiles, SameFiles
    <2> QED
      BY <2>1, <2>4, <2>6, <2>7
  <1>3. CASE \A w \in Clients :
               ~(CreateFile(w) \/ WriteFile(w) \/ WriteShort(w) \/ WriteFails(w) \/ Rename(w))
    BY <1>3, NoFileTouched, SameFiles
  <1> QED
    BY <1>1, <1>2, <1>3

LEMMA CompactionInitInv == Init => CompactionInv
  <1> SUFFICES ASSUME Init PROVE CompactionInv
    OBVIOUS
  <1>1. DataInv
    BY DataInitInv
  <1>2. \A w \in Clients : ~Busy(w) /\ exec[w].at = "idle"
    BY DEF Init, Idle, Waiting, Busy
  <1>3. OneCompacter
    BY <1>2 DEF OneCompacter, Compacts, On, Clients
  <1>4. CompactInv
    BY <1>2 DEF CompactInv, CompactOf, At, Clients
  <1>5. CompactedWhole
    BY DEF Init, CompactedWhole, Exists
  <1> QED
    BY <1>1, <1>3, <1>4, <1>5 DEF CompactionInv

LEMMA CompactionStepInv == CompactionInv /\ [Next]_vars => CompactionInv'
  <1> SUFFICES ASSUME CompactionInv, [Next]_vars PROVE CompactionInv'
    OBVIOUS
  <1>1. DataInv /\ OneCompacter /\ CompactInv /\ CompactedWhole
    BY DEF CompactionInv
  <1>2. DataInv' /\ SourceTypeOK'
    BY <1>1, DataStepInv DEF DataInv, SourceInv
  <1>3. OneCompacter' /\ CompactInv'
    BY <1>1, <1>2, OneCompacterStep, CompactStep
  <1>4. CompactedWhole'
    <2> SUFFICES ASSUME NEW b \in Buckets', Exists(GroupByFile(b))' PROVE files'[GroupByFile(b)].closed
      BY DEF CompactedWhole, GroupByFile
    <2>1. b \in Buckets
      BY DEF Buckets
    <2>2. CASE Same(GroupByFile(b))
      BY <1>1, <2>1, <2>2 DEF Same, CompactedWhole
    <2>3. CASE ~Same(GroupByFile(b))
      BY <1>1, <1>2, <2>1, <2>3, CompactedOnce
    <2> QED
      BY <2>2, <2>3
  <1> QED
    BY <1>2, <1>3, <1>4 DEF CompactionInv

\* However executions crash, fail or overlap, the compacted file of a bucket is never
\* there while somebody writes it (compacter.go groupByErr), since only the one
\* compacter that has claimed the bucket writes its temporary file.
THEOREM CompactedFilesAreWhole == Spec => []CompactedWhole
  <1>1. CompactionInv => CompactedWhole
    BY DEF CompactionInv
  <1> QED
    BY <1>1, CompactionInitInv, CompactionStepInv, PTL DEF Spec

(***************************************************************************)
(* The sink                                                                *)
(***************************************************************************)
Sinks(w, b) == exec[w].at \in {"upsert", "mark"} /\ exec[w].task = b

\* The documents hold nothing that the compacted file does not hold.
SunkOf(b) == /\ ~Exists(GroupByFile(b)) => sunk[b] = {}
             /\ Exists(GroupByFile(b)) => sunk[b] \subseteq files[GroupByFile(b)].got

\* Nobody has read a compacted file short.
AllRead == "ShortSink" \notin mishaps

\* A client of the sink has read of the compacted file, and then all of it, and has
\* written it all when it comes to say so.
SinkOf(w, b) ==
    Sinks(w, b) =>
        /\ Exists(GroupByFile(b)) /\ exec[w].got \subseteq files[GroupByFile(b)].got
        /\ AllRead => /\ exec[w].got = files[GroupByFile(b)].got
                      /\ At(w, "mark") => sunk[b] = files[GroupByFile(b)].got

AuditOf(b) == AllRead /\ b \in sinkResult => /\ Exists(GroupByFile(b))
                                             /\ sunk[b] = files[GroupByFile(b)].got

SinkInv == /\ \A b \in Buckets : SunkOf(b) /\ AuditOf(b)
           /\ \A w \in Clients, b \in Buckets : SinkOf(w, b)

\* Mishaps are not forgotten, and nothing given up or marked is taken back.
LEMMA MishapsStay ==
  ASSUME [Next]_vars
  PROVE  /\ mishaps \subseteq mishaps' /\ failed \subseteq failed'
         /\ failed' # failed => \E t \in PhaseTasks : GiveUp(t)
         /\ reduction \subseteq reduction'
  <1>1. CASE Source \/ UNCHANGED vars
    BY <1>1 DEF Source, vars, history, jobVars
  <1>2. ASSUME NEW t \in PhaseTasks, GiveUp(t) \/ \E w \in Clients : Dispatch(w, t)
        PROVE  /\ mishaps \subseteq mishaps' /\ failed \subseteq failed'
               /\ failed' # failed => GiveUp(t)
               /\ reduction \subseteq reduction'
    BY <1>2 DEF GiveUp, Dispatch, history
  <1>3. ASSUME NEW w \in Clients, Execute(w)
        PROVE  mishaps \subseteq mishaps' /\ failed' = failed /\ reduction' = reduction
    BY <1>3 DEF Execute, SkipExecution, FailAtStart, ReadInput, ReadShort, CreateFile, WriteFile,
       WriteShort, WriteFails, Rename, UpsertKey, LastUpsert, UpsertFails, MarkSinkDone, jobVars,
       history, Fault
  <1>4. ASSUME NEW w \in Clients, Report(w) \/ Crash(w) \/ FindPhaseComplete(w) \/ AdvancePhase(w)
        PROVE  mishaps \subseteq mishaps' /\ failed' = failed /\ reduction \subseteq reduction'
    BY <1>4 DEF Report, IgnoreReport, CompleteTask, MarkReduceDone, CompleteLate, CountLate, FailTask,
       Crash, FindPhaseComplete, AdvancePhase, jobVars, history, Fault
  <1> QED
    BY <1>1, <1>2, <1>3, <1>4 DEF Next, Schedule

\* What was compacted and what was sunk of it only grows, the one before the other.
BucketGrows(b) ==
    \/ ~Exists(GroupByFile(b)) /\ sunk[b] = {} /\ sunk'[b] = {}
    \/ /\ Exists(GroupByFile(b)) /\ Same(GroupByFile(b))
       /\ sunk[b] \subseteq sunk'[b] /\ sunk'[b] \subseteq files[GroupByFile(b)].got

LEMMA SunkKept ==
  ASSUME [Next]_vars, \A w \in Clients : ~(UpsertKey(w) \/ LastUpsert(w))
  PROVE  sunk' = sunk
  <1>1. CASE Source \/ Schedule \/ UNCHANGED vars
    BY <1>1 DEF Source, Schedule, FindPhaseComplete, AdvancePhase, GiveUp, Dispatch, vars, sinkVars
  <1>2. ASSUME NEW w \in Clients, Execute(w) \/ Report(w) \/ Crash(w) PROVE sunk' = sunk
    BY <1>2 DEF Execute, SkipExecution, FailAtStart, ReadInput, ReadShort, CreateFile, WriteFile,
       WriteShort, WriteFails, Rename, UpsertFails, MarkSinkDone, Report, IgnoreReport, CompleteTask,
       MarkReduceDone, CompleteLate, CountLate, FailTask, Crash, sinkVars
  <1> QED
    BY <1>1, <1>2 DEF Next

LEMMA BucketStep ==
  ASSUME CompactionInv, SourceTypeOK', SinkInv, [Next]_vars, NEW b \in Buckets
  PROVE  BucketGrows(b)
  <1>1. DataInv /\ CompactInv /\ SunkOf(b) /\ sunk \in [Buckets -> SUBSET Nat]
    BY DEF CompactionInv, SinkInv, DataInv, DataTypes
  <1>2. CASE sunk'[b] = sunk[b]
    BY <1>1, <1>2, CompactedOnce DEF SunkOf, BucketGrows
  <1>3. ASSUME NEW w \in Clients, UpsertKey(w) \/ LastUpsert(w), sunk'[b] # sunk[b]
        PROVE  BucketGrows(b)
    <2>1. /\ files' = files /\ At(w, "upsert")
          /\ \E S : /\ sunk' = [sunk EXCEPT ![exec[w].task] = S]
                    /\ S \subseteq sunk[exec[w].task] \cup exec[w].got
                    /\ sunk[exec[w].task] \subseteq S
      BY <1>3 DEF UpsertKey, LastUpsert
    <2>2. PICK S : /\ sunk' = [sunk EXCEPT ![exec[w].task] = S]
                   /\ S \subseteq sunk[exec[w].task] \cup exec[w].got
                   /\ sunk[exec[w].task] \subseteq S
      BY <2>1
    <2>3. exec[w].task = b /\ sunk'[b] = S
      BY <1>1, <1>3, <2>2
    <2>4. Exists(GroupByFile(b)) /\ exec[w].got \subseteq files[GroupByFile(b)].got
      BY <2>1, <2>3 DEF SinkInv, SinkOf, Sinks, At
    <2>5. sunk[b] \subseteq files[GroupByFile(b)].got
      BY <1>1, <2>4 DEF SunkOf
    <2> QED
      BY <2>1, <2>2, <2>3, <2>4, <2>5, SameFiles DEF BucketGrows
  <1> QED
    BY <1>2, <1>3, SunkKept

LEMMA SinkStep ==
  ASSUME CompactionInv, SourceTypeOK', SinkInv, [Next]_vars
  PROVE  SinkInv'
  <1>0. DataInv /\ CompactedWhole /\ Buckets' = Buckets /\ (AllRead' => AllRead)
    BY MishapsStay DEF CompactionInv, Buckets, AllRead
  <1>1. \A b \in Buckets : BucketGrows(b) /\ SunkOf(b) /\ AuditOf(b)
    BY BucketStep DEF SinkInv
  <1>2. ASSUME NEW b \in Buckets PROVE SunkOf(b)'
    <2>1. BucketGrows(b)
      BY <1>1
    <2>2. CASE ~Exists(GroupByFile(b)) /\ sunk'[b] = {}
      BY <2>2 DEF SunkOf
    <2>3. CASE Exists(GroupByFile(b))
      BY <2>1, <2>3 DEF BucketGrows, SunkOf, Same, Exists, GroupByFile
    <2> QED
      BY <2>1, <2>2, <2>3 DEF BucketGrows
  <1>3. ASSUME NEW w \in Clients, NEW b \in Buckets, SinkOf(w, b), exec'[w] = exec[w]
        PROVE  SinkOf(w, b)'
    <2> SUFFICES ASSUME Sinks(w, b)' PROVE SinkOf(w, b)'
      BY DEF SinkOf
    <2>1. Sinks(w, b)
      BY <1>3 DEF Sinks
    <2>2. /\ Exists(GroupByFile(b)) /\ exec[w].got \subseteq files[GroupByFile(b)].got
          /\ AllRead => /\ exec[w].got = files[GroupByFile(b)].got
                        /\ At(w, "mark") => sunk[b] = files[GroupByFile(b)].got
      BY <1>3, <2>1 DEF SinkOf
    <2>3. /\ Same(GroupByFile(b)) /\ sunk[b] \subseteq sunk'[b]
          /\ sunk'[b] \subseteq files[GroupByFile(b)].got
      BY <1>1, <2>2 DEF BucketGrows
    <2>4. Exists(GroupByFile(b))' /\ files'[GroupByFile(b)] = files[GroupByFile(b)]
      BY <2>2, <2>3 DEF Same
    <2>5. AllRead' /\ (At(w, "mark"))' => sunk'[b] = files[GroupByFile(b)].got
      BY <1>0, <1>3, <2>2, <2>3 DEF At
    <2> QED
      BY <1>0, <1>3, <2>2, <2>4, <2>5 DEF SinkOf, GroupByFile
  <1>4. ASSUME NEW w \in Clients, NEW b \in Buckets, exec'[w].at \notin {"upsert", "mark"}
        PROVE  SinkOf(w, b)'
    BY <1>4 DEF SinkOf, Sinks
  <1>5. ASSUME NEW w \in Clients, ReadInput(w) \/ ReadShort(w), NEW b \in Buckets
        PROVE  SinkOf(w, b)'
    <2> SUFFICES ASSUME Sinks(w, b)' PROVE SinkOf(w, b)'
      BY DEF SinkOf
    <2>1. /\ exec'[w].at = IF exec[w].phase = 3 THEN "upsert" ELSE "create"
          /\ SameJob(w) /\ files' = files /\ ReadsInput(w)
      BY <1>0, <1>5, ReadTypes DEF ReadInput, ReadShort
    <2>2. exec[w].phase = 3 /\ exec[w].task = b /\ ~(At(w, "mark"))'
      BY <2>1 DEF Sinks, SameJob, At
    <2>3. Type(w) = "SinkTask" /\ Stages[exec[w].phase + 1] = "SinkTask"
      BY <2>2, StageNames DEF Type
    <2>4. Exists(GroupByFile(b))
      BY <2>1, <2>2, <2>3 DEF ReadsInput, InputMissing
    <2>5. Input("SinkTask", b) = {files[GroupByFile(b)].got}
      BY <1>0, <2>4 DEF CompactedWhole, Found, Input
    <2>6. /\ \E whole \in Input("SinkTask", b) : exec'[w].got \subseteq whole
          /\ ReadInput(w) => exec'[w].got \in Input("SinkTask", b)
      BY <1>0, <1>5, <2>2, <2>3, ReadTypes
    <2>7. AllRead' => ReadInput(w)
      BY <1>5, <2>3 DEF ReadShort, Fault, AllRead
    <2> QED
      BY <2>1, <2>2, <2>4, <2>5, <2>6, <2>7 DEF SinkOf, Exists, GroupByFile
  <1>6. ASSUME NEW w \in Clients, LastUpsert(w), NEW b \in Buckets PROVE SinkOf(w, b)'
    <2> SUFFICES ASSUME Sinks(w, b)' PROVE SinkOf(w, b)'
      BY DEF SinkOf
    <2>1. SameJob(w) /\ exec'[w].got = exec[w].got /\ At(w, "upsert") /\ files' = files
      <3>1. "mark" \in Places
        BY DEF Places
      <3> QED
        BY <1>0, <1>6, <3>1, Going DEF DataInv, DataTypes, LastUpsert
    <2>2. exec[w].task = b /\ Sinks(w, b)
      BY <2>1 DEF Sinks, SameJob, At
    <2>3. /\ Exists(GroupByFile(b)) /\ exec[w].got \subseteq files[GroupByFile(b)].got
          /\ AllRead => exec[w].got = files[GroupByFile(b)].got
          /\ sunk[b] \subseteq files[GroupByFile(b)].got
      BY <1>1, <2>2 DEF SinkInv, SinkOf, SunkOf
    <2>4. sunk'[b] = sunk[b] \cup exec[w].got
      BY <1>0, <1>6, <2>2 DEF LastUpsert, DataInv, DataTypes
    <2>5. AllRead' => sunk'[b] = files[GroupByFile(b)].got
      BY <1>0, <2>3, <2>4
    <2> QED
      BY <1>0, <2>1, <2>3, <2>5 DEF SinkOf, Exists, GroupByFile
  <1>7. ASSUME NEW v \in Clients, NEW b \in Buckets PROVE SinkOf(v, b)'
    <2>0. SinkOf(v, b)
      BY DEF SinkInv
    <2>1. CASE Source \/ Schedule \/ UNCHANGED vars
      <3>1. \/ exec' = exec
            \/ \E w \in Clients : Others(w) /\ exec'[w].at \notin {"upsert", "mark"}
        BY <1>0, <2>1, DispatchTypes, AdvanceTypes, RestTypes
           DEF Source, Schedule, GiveUp, vars, Rests, Busy
      <3> QED
        BY <1>3, <1>4, <2>0, <3>1 DEF Others
    <2>2. ASSUME NEW w \in Clients, Execute(w) \/ Report(w) \/ Crash(w) PROVE SinkOf(v, b)'
      <3>1. CASE UpsertKey(w)
        BY <1>0, <1>3, <2>0, <3>1, UpsertTypes
      <3>2. CASE ~UpsertKey(w)
        <4>1. Others(w)
          BY <1>0, <2>2, <3>2, GoTypes, ReadTypes, CreateTypes, WriteTypes, WriteFailsTypes,
             RenameTypes, RestTypes DEF Execute, Report, Rests
        <4>2. CASE v # w
          BY <1>3, <2>0, <4>1, <4>2 DEF Others
        <4>3. CASE v = w /\ (ReadInput(w) \/ ReadShort(w) \/ LastUpsert(w))
          BY <1>5, <1>6, <4>3
        <4>4. CASE v = w /\ ~ReadInput(w) /\ ~ReadShort(w) /\ ~LastUpsert(w)
          <5>1. exec'[w].at \notin {"upsert", "mark"}
            <6>1. CASE Report(w) \/ Crash(w)
              BY <1>0, <6>1, RestTypes DEF Report, Rests, Busy
            <6>2. CASE CreateFile(w) \/ WriteFails(w) \/ Rename(w)
              BY <1>0, <6>2, CreateTypes, WriteFailsTypes, RenameTypes
            <6>4. CASE WriteFile(w) \/ WriteShort(w)
              <7>1. PICK kept \in SUBSET exec[w].got : WritesOut(w, kept)
                BY <6>4, WritesAll, WritesSome
              <7> QED
                BY <1>0, <7>1, WritingOut
            <6>3. CASE SkipExecution(w) \/ FailAtStart(w) \/ UpsertFails(w) \/ MarkSinkDone(w)
              <7>1. \E where \in {"success", "failed"} : GoTo(w, where)
                BY <6>3 DEF SkipExecution, FailAtStart, UpsertFails, MarkSinkDone
              <7>2. PICK where \in {"success", "failed"} : GoTo(w, where)
                BY <7>1
              <7>3. where \in Places
                BY DEF Places
              <7> QED
                BY <1>0, <7>2, <7>3, Going DEF DataInv, DataTypes
            <6> QED
              BY <2>2, <3>2, <4>4, <6>1, <6>2, <6>3, <6>4 DEF Execute
          <5> QED
            BY <1>4, <4>4, <5>1
        <4> QED
          BY <4>2, <4>3, <4>4
      <3> QED
        BY <3>1, <3>2
    <2> QED
      BY <2>1, <2>2 DEF Next
  <1>8. ASSUME NEW b \in Buckets PROVE AuditOf(b)'
    <2> SUFFICES ASSUME b \in sinkResult', AllRead' PROVE AuditOf(b)'
      BY DEF AuditOf
    <2>1. Exists(GroupByFile(b)) /\ sunk[b] = files[GroupByFile(b)].got
      <3>1. CASE b \in sinkResult
        BY <1>0, <1>1, <3>1 DEF AuditOf
      <3>2. CASE b \notin sinkResult
        <4>1. PICK w \in Clients : MarkSinkDone(w)
          <5>1. CASE Source \/ Schedule \/ UNCHANGED vars
            BY <3>2, <5>1
            DEF Source, Schedule, FindPhaseComplete, AdvancePhase, GiveUp, Dispatch, vars, sinkVars
          <5>2. ASSUME NEW w \in Clients, Execute(w) \/ Report(w) \/ Crash(w) PROVE MarkSinkDone(w)
            BY <3>2, <5>2 DEF Execute, SkipExecution, FailAtStart, ReadInput, ReadShort, CreateFile,
               WriteFile, WriteShort, WriteFails, Rename, UpsertKey, LastUpsert, UpsertFails, Report,
               IgnoreReport, CompleteTask, MarkReduceDone, CompleteLate, CountLate, FailTask, Crash,
               sinkVars
          <5> QED
            BY <5>1, <5>2 DEF Next
        <4>2. exec[w].task = b /\ At(w, "mark")
          BY <3>2, <4>1 DEF MarkSinkDone
        <4> QED
          BY <1>0, <4>2 DEF SinkInv, SinkOf, Sinks, At
      <3> QED
        BY <3>1, <3>2
    <2>2. /\ Same(GroupByFile(b)) /\ sunk[b] \subseteq sunk'[b]
          /\ sunk'[b] \subseteq files[GroupByFile(b)].got
      BY <1>1, <2>1 DEF BucketGrows
    <2> QED
      BY <2>1, <2>2 DEF AuditOf, Same, Exists, GroupByFile
  <1> QED
    BY <1>0, <1>2, <1>7, <1>8 DEF SinkInv

LEMMA SinkInitInv == Init => SinkInv
  <1> SUFFICES ASSUME Init PROVE SinkInv
    OBVIOUS
  <1>1. \A w \in Clients : exec[w].at = "idle"
    BY DEF Init, Idle, Waiting
  <1>2. \A b \in Buckets : ~Exists(GroupByFile(b)) /\ sunk[b] = {} /\ b \notin sinkResult
    BY DEF Init, Exists
  <1> QED
    BY <1>1, <1>2 DEF SinkInv, SunkOf, AuditOf, SinkOf, Sinks

\* As long as no sinkErr (compacter.go) has read less of a compacted file than is in it,
\* a bucket with a sink_result record has in its documents what that file holds: no
\* later execution takes anything away and no late client brings in anything else,
\* whatever is miscounted, given out twice or left half written before.
THEOREM AuditedBucketsAreCommitted == Spec => []AuditedIsCommitted
  <1>1. Init => CompactionInv /\ SinkInv
    BY CompactionInitInv, SinkInitInv
  <1>2. (CompactionInv /\ SinkInv) /\ [Next]_vars => (CompactionInv /\ SinkInv)'
    <2> SUFFICES ASSUME CompactionInv, SinkInv, [Next]_vars PROVE CompactionInv' /\ SinkInv'
      OBVIOUS
    <2>1. CompactionInv' /\ SourceTypeOK'
      BY CompactionStepInv DEF CompactionInv, DataInv, SourceInv
    <2> QED
      BY <2>1, SinkStep
  <1>3. CompactionInv /\ SinkInv => AuditedIsCommitted
    <2> SUFFICES ASSUME CompactionInv, SinkInv PROVE AuditedIsCommitted
      OBVIOUS
    <2>1. sinkResult \subseteq Buckets
      BY DEF CompactionInv, DataInv, DataTypes, TypeOK
    <2> QED
      BY <2>1 DEF SinkInv, AuditOf, AuditedIsCommitted, AllRead
  <1> QED
    BY <1>1, <1>2, <1>3, PTL DEF Spec

(***************************************************************************)
(* From one end to the other                                               *)
(***************************************************************************)
\* Without a mishap so far, and with no map task given up.
Clean == mishaps = {} /\ \A f \in failed : f[1] # 0

\* What a file of this job is to hold.
Full(p, t) == IF p = 0 THEN {t} ELSE MapTasks

Absent(p, t) == \A path \in OutputsOf(p, t) : ~Exists(path)

Complete(p, t) ==
    \A path \in OutputsOf(p, t) :
        Exists(path) /\ files[path].closed /\ files[path].got = Full(p, t)

Untouched(p, t) == \A w \in Clients : ~On(w, p, t)

\* Half way through its files a client knows them all: those to come are not there,
\* those it has created are its own.
WritingOf(w, p, t) ==
    /\ exec[w].got = Full(p, t)
    /\ \A path \in OutputsOf(p, t) :
          IF path \in exec[w].todo
          THEN ~Exists(path)
          ELSE /\ Exists(path) /\ files[path].by = w /\ files[path].got = Full(p, t)
               /\ At(w, "create") => files[path].closed

PartOf(w, p, t) == /\ Writes(w) => WritingOf(w, p, t)
                   /\ At(w, "success") => Complete(p, t)

\* A map or reduce task has one client at most, and all of its files or none unless
\* that client is writing them.
JobInv(p, t) ==
    /\ \A v, w \in Clients : On(v, p, t) /\ On(w, p, t) => v = w
    /\ Absent(p, t) \/ Complete(p, t) \/ \E w \in Clients : On(w, p, t) /\ Writes(w)
    /\ \A w \in Clients : On(w, p, t) => PartOf(w, p, t)

JobsInv == \A p \in {0, 1}, t \in Nat : JobInv(p, t)

\* All of it is there, and nobody is at it.
Settled(p, t) == Complete(p, t) /\ Untouched(p, t)

\* As many map tasks are settled, and will not be given out again, as the phase has
\* counted; a client that has found the count reached has them all.
Counted == \E F \in SUBSET gone : /\ IsFiniteSet(F) /\ Cardinality(F) = phaseDone
                                  /\ \A t \in F : Settled(0, t)

AllMapped == \A t \in MapTasks : t \in gone /\ Settled(0, t)

\* The bucket has a MarkReduceDone record, or is about to have one.
Reduced(b) == b \in reduction \/ \E w \in Clients : At(w, "reduced") /\ exec[w].task = b

MapCounted ==
    phase = 0 => /\ \A b \in Buckets : ~Reduced(b)
                 /\ \A t \in Nat : Absent(1, t)
                 /\ Counted
                 /\ \A w \in Clients : At(w, "advance") => AllMapped

MapOver == phase > 0 => /\ \A t \in MapTasks : Complete(0, t)
                        /\ \A t \in Nat : Untouched(0, t)

ReduceCounted ==
    \A b \in Buckets : Reduced(b) => Settled(1, b) /\ (phase = 1 => b \in gone)

\* What is counted is there, and nobody comes back to it.
FinishedInv == MapCounted /\ MapOver /\ ReduceCounted

\* A compacter has read a reduced file, and all of it.
CompactsAll(w, b) ==
    Compacts(w, b) =>
        /\ b \in reduction
        /\ exec[w].at \in {"create", "write", "rename"} => exec[w].got = MapTasks
        /\ exec[w].at \in {"write", "rename"} => files[TmpFile(b)].got = MapTasks

CompactedOf(b) ==
    Exists(GroupByFile(b)) => phase >= 2 /\ files[GroupByFile(b)].got = MapTasks

BucketsInv == /\ \A w \in Compacters, b \in Buckets : CompactsAll(w, b)
              /\ \A b \in Buckets : CompactedOf(b)

CleanInv == Clean => JobsInv /\ FinishedInv /\ BucketsInv

\* A fault that makes no mishap happens before the first file or after the last.
LEMMA CleanFault ==
  ASSUME DataInv, NEW w \in Clients, Fault(Interruption(w)), mishaps' = {}, Writes(w), exec[w].phase <= 1
  PROVE  At(w, "create") /\ exec[w].todo = OutputsOf(exec[w].phase, exec[w].task)
  <1>1. Type(w) = Stages[exec[w].phase + 1] /\ exec[w].phase \in 0..3
    BY TaskTypes
  <1>2. Type(w) \in {"MapTask", "ReduceTask"}
    BY <1>1, Pools
  <1>3. ~HalfWritten(w)
    BY DEF Fault, Interruption
  <1> QED
    BY <1>1, <1>2, <1>3 DEF HalfWritten, Writes, At, OutputsOf

LEMMA OutputsConstant ==
  ASSUME NEW p, NEW t
  PROVE  OutputsOf(p, t)' = OutputsOf(p, t)
  BY DEF OutputsOf, Outputs, MapFile, ReduceFile, TmpFile, Buckets, Stages

AllSame(p, t) == /\ \A path \in OutputsOf(p, t) : Same(path)
                 /\ Full(p, t)' = Full(p, t)

LEMMA FilesKept ==
  ASSUME NEW p, NEW t, AllSame(p, t)
  PROVE  /\ Absent(p, t) <=> Absent(p, t)'
         /\ Complete(p, t) <=> Complete(p, t)'
  <1>1. OutputsOf(p, t)' = OutputsOf(p, t) /\ Full(p, t)' = Full(p, t)
    BY OutputsConstant DEF AllSame
  <1>2. \A path \in OutputsOf(p, t) : /\ (path \in DOMAIN files') <=> (path \in DOMAIN files)
                                      /\ path \in DOMAIN files => files'[path] = files[path]
    BY DEF AllSame, Same, Exists
  <1> QED
    BY <1>1, <1>2 DEF Absent, Complete, Exists

LEMMA WritingKept ==
  ASSUME NEW p, NEW t, AllSame(p, t), NEW w, exec'[w] = exec[w]
  PROVE  PartOf(w, p, t) => PartOf(w, p, t)'
  <1>1. OutputsOf(p, t)' = OutputsOf(p, t) /\ Full(p, t)' = Full(p, t)
    BY OutputsConstant DEF AllSame
  <1>2. \A path \in OutputsOf(p, t) : /\ (path \in DOMAIN files') <=> (path \in DOMAIN files)
                                      /\ path \in DOMAIN files => files'[path] = files[path]
    BY DEF AllSame, Same, Exists
  <1>3. WritingOf(w, p, t) => WritingOf(w, p, t)'
    BY <1>1, <1>2 DEF WritingOf, Exists, At
  <1>4. Complete(p, t) => Complete(p, t)'
    BY FilesKept
  <1> QED
    BY <1>3, <1>4 DEF PartOf, Writes, At

\* Nobody comes to the job, and no one leaves it in the middle.
LEMMA JobFrame ==
  ASSUME NEW p, NEW t, JobInv(p, t), AllSame(p, t),
         \A v \in Clients : On(v, p, t)' => exec'[v] = exec[v],
         \A v \in Clients : On(v, p, t) /\ Writes(v) => exec'[v] = exec[v]
  PROVE  JobInv(p, t)'
  <1>1. \A v \in Clients : exec'[v] = exec[v] => /\ On(v, p, t)' <=> On(v, p, t)
                                                 /\ Writes(v)' <=> Writes(v)
    BY DEF On, Busy, Writes
  <1>2. \A v, w \in Clients : On(v, p, t)' /\ On(w, p, t)' => v = w
    BY <1>1 DEF JobInv
  <1>3. Absent(p, t)' \/ Complete(p, t)' \/ \E w \in Clients : On(w, p, t)' /\ Writes(w)'
    BY <1>1, FilesKept DEF JobInv
  <1>4. \A w \in Clients : On(w, p, t)' => PartOf(w, p, t)'
    BY <1>1, WritingKept DEF JobInv
  <1> QED
    BY <1>2, <1>3, <1>4 DEF JobInv

\* The one client of the job takes a step, or takes the job.
LEMMA JobAlone ==
  ASSUME NEW p, NEW t, NEW w \in Clients, Others(w),
         \A v \in Clients : On(v, p, t) => v = w,
         Absent(p, t)' \/ Complete(p, t)' \/ (On(w, p, t)' /\ Writes(w)'),
         On(w, p, t)' => PartOf(w, p, t)'
  PROVE  JobInv(p, t)'
  <1>1. \A v \in Clients : On(v, p, t)' => v = w
    BY DEF Others, On, Busy
  <1> QED
    BY <1>1 DEF JobInv

\* Only clients of the job touch its files.
LEMMA FileFrame ==
  ASSUME DataInv, SourceTypeOK', NEW p \in {0, 1}, NEW t \in Nat, NEW w \in Clients,
         CreateFile(w) \/ WriteFile(w) \/ WriteShort(w) \/ WriteFails(w) \/ Rename(w),
         ~On(w, p, t),
         NEW path \in OutputsOf(p, t)
  PROVE  Same(path)
  <1>1. CASE CreateFile(w) \/ WriteFile(w) \/ WriteShort(w) \/ WriteFails(w)
    <2>1. /\ exec[w].phase \in 0..3 /\ exec[w].task \in Nat
      BY TaskTypes
    <2>2. Busy(w)
      BY <1>1 DEF CreateFile, WriteFile, WriteShort, WriteFails, Busy, At
    <2>3. path \notin OutputsOf(exec[w].phase, exec[w].task)
      BY <2>1, <2>2, OutputsDisjoint DEF On
    <2> QED
      BY <1>1, <2>3, OwnFilesOnly
  <1>2. CASE Rename(w)
    <2>1. exec[w].task \in Buckets /\ exec[w].task \in Nat
      BY <1>2, RenameTypes, BucketIds
    <2>2. TmpFile(exec[w].task) \in OutputsOf(2, exec[w].task)
      BY <2>1, BucketFiles
    <2>3. path # TmpFile(exec[w].task) /\ path # GroupByFile(exec[w].task)
      BY <2>1, <2>2, OutputsDisjoint
    <2> QED
      BY <1>2, <2>3, RenameFiles
  <1> QED
    BY <1>1, <1>2

LEMMA QuietFrame ==
  ASSUME files' = files, NEW p \in {0, 1}, NEW t \in Nat, p = 1 => MapTasks' = MapTasks
  PROVE  AllSame(p, t)
  BY SameFiles DEF AllSame, Full

LEMMA UntouchedFiles ==
  ASSUME DataInv, SourceTypeOK', [Next]_vars, NEW p \in {0, 1}, NEW t \in Nat, Untouched(p, t),
         NEW path \in OutputsOf(p, t)
  PROVE  Same(path)
  BY FileFrame, NoFileTouched, SameFiles DEF Untouched

\* A client's step goes from its task to the same task or to none.
LEMMA ClientStep ==
  ASSUME DataInv, SourceTypeOK', NEW w \in Clients, Execute(w) \/ Report(w) \/ Crash(w)
  PROVE  /\ Others(w) \/ exec' = exec
         /\ ~Busy(w)' \/ (Busy(w) /\ SameJob(w))
         /\ MapTasks' = MapTasks
         /\ \/ files' = files
            \/ CreateFile(w) \/ WriteFile(w) \/ WriteShort(w) \/ WriteFails(w) \/ Rename(w)
  <1>1. Execute(w) => Busy(w)
    BY DEF Execute, SkipExecution, FailAtStart, ReadInput, ReadShort, ReadsInput, CreateFile,
       WriteFile, WriteShort, WriteFails, Rename, UpsertKey, LastUpsert, UpsertFails, MarkSinkDone,
       Busy, At
  <1>2. tasks' = tasks
    BY DEF Execute, SkipExecution, FailAtStart, ReadInput, ReadShort, CreateFile, WriteFile,
       WriteShort, WriteFails, Rename, UpsertKey, LastUpsert, UpsertFails, MarkSinkDone, Report,
       IgnoreReport, CompleteTask, MarkReduceDone, CompleteLate, CountLate, FailTask, Crash,
       sourceVars, listenerVars
  <1>3. \/ files' = files
        \/ CreateFile(w) \/ WriteFile(w) \/ WriteShort(w) \/ WriteFails(w) \/ Rename(w)
    BY DEF Execute, SkipExecution, FailAtStart, ReadInput, ReadShort, UpsertKey, LastUpsert,
       UpsertFails, MarkSinkDone, Report, IgnoreReport, CompleteTask, MarkReduceDone, CompleteLate,
       CountLate, FailTask, Crash
  <1>4. CASE UpsertKey(w)
    <2>1. Busy(w)
      BY <1>4 DEF UpsertKey, Busy, At
    <2> QED
      BY <1>2, <1>3, <1>4, <2>1, UpsertTypes DEF SameJob, MapTasks
  <1>5. CASE Execute(w) /\ ~UpsertKey(w)
    <2>1. Others(w) /\ SameJob(w)
      BY <1>5, GoTypes, ReadTypes, CreateTypes, WriteTypes, WriteFailsTypes, RenameTypes
         DEF Execute
    <2> QED
      BY <1>1, <1>2, <1>3, <1>5, <2>1 DEF MapTasks
  <1>6. CASE Report(w) \/ Crash(w)
    <2>1. Others(w) /\ ~Busy(w)'
      BY <1>6, RestTypes DEF Report, Rests
    <2> QED
      BY <1>2, <1>3, <2>1 DEF MapTasks
  <1> QED
    BY <1>4, <1>5, <1>6

\* A client at another task leaves this one alone.
LEMMA OtherJob ==
  ASSUME DataInv, SourceTypeOK', NEW p \in {0, 1}, NEW t \in Nat, NEW w \in Clients,
         Execute(w) \/ Report(w) \/ Crash(w), ~On(w, p, t), JobInv(p, t)
  PROVE  JobInv(p, t)'
  <1>1. AllSame(p, t)
    <2>1. MapTasks' = MapTasks
      BY ClientStep
    <2>2. CASE files' = files
      BY <2>1, <2>2, QuietFrame
    <2>3. CASE CreateFile(w) \/ WriteFile(w) \/ WriteShort(w) \/ WriteFails(w) \/ Rename(w)
      BY <2>1, <2>3, FileFrame DEF AllSame, Full
    <2> QED
      BY <2>2, <2>3, ClientStep
  <1>2. ~On(w, p, t)'
    BY ClientStep DEF On, SameJob
  <1>3. \A v \in Clients : On(v, p, t)' => exec'[v] = exec[v]
    BY <1>2, ClientStep DEF Others
  <1>4. \A v \in Clients : On(v, p, t) /\ Writes(v) => exec'[v] = exec[v]
    BY ClientStep DEF Others
  <1> QED
    BY <1>1, <1>3, <1>4, JobFrame

\* The input of a map or reduce task is all there is to read.
LEMMA FullInput ==
  ASSUME DataInv, FinishedInv, NEW w \in Clients, Busy(w), exec[w].phase \in {0, 1},
         NEW got \in Input(Stages[exec[w].phase + 1], exec[w].task)
  PROVE  got = Full(exec[w].phase, exec[w].task)
  <1>1. CASE exec[w].phase = 0
    BY <1>1, StageNames DEF Input, Full
  <1>2. CASE exec[w].phase = 1
    <2>1. phase > 0 /\ exec[w].task \in Buckets
      BY <1>2, TaskTypes, PhaseTypes
    <2> DEFINE b == exec[w].task
    <2>2. PICK f \in [MapTasks -> SUBSET MapTasks] :
             /\ \A c \in MapTasks :
                   f[c] \in IF Exists(MapFile(c, b)) THEN Found(MapFile(c, b)) ELSE {{}}
             /\ got = UNION {f[c] : c \in MapTasks}
      BY <1>2, StageNames DEF Input
    <2>3. \A c \in MapTasks : f[c] = {c}
      <3> SUFFICES ASSUME NEW c \in MapTasks PROVE f[c] = {c}
        OBVIOUS
      <3>1. c \in Nat
        BY MapTaskIds DEF DataInv
      <3>2. MapFile(c, b) \in OutputsOf(0, c)
        BY <2>1, <3>1, BucketFiles
      <3>3. Exists(MapFile(c, b)) /\ files[MapFile(c, b)].closed /\ files[MapFile(c, b)].got = {c}
        BY <2>1, <3>2 DEF FinishedInv, MapOver, Complete, Full
      <3>4. f[c] \in {{c}}
        BY <2>2, <3>3 DEF Found
      <3> QED
        BY <3>4
    <2>4. got = MapTasks
      BY <2>2, <2>3
    <2> QED
      BY <1>2, <2>4 DEF Full
  <1> QED
    BY <1>1, <1>2

LEMMA OneOutput ==
  ASSUME NEW p \in {0, 1}, NEW t
  PROVE  \E path : path \in OutputsOf(p, t)
  BY OutputsByPhase, BucketIds

\* What a client knows of its own task.
LEMMA Alone ==
  ASSUME DataInv, NEW p \in {0, 1}, NEW t \in Nat, NEW w \in Clients, On(w, p, t), JobInv(p, t)
  PROVE  /\ exec[w].phase = p /\ exec[w].task = t /\ Type(w) = Stages[p + 1] /\ w \notin Compacters
         /\ \A v \in Clients : On(v, p, t) => v = w
         /\ Writes(w) => WritingOf(w, p, t) /\ exec[w].todo \subseteq OutputsOf(p, t)
         /\ Writing(w) = OutputsOf(p, t) \ exec[w].todo
         /\ ~Writes(w) => Absent(p, t) \/ Complete(p, t)
         /\ exec[w].at \in {"start", "create", "write", "success", "failed"}
  <1>1. exec[w].phase = p /\ exec[w].task = t /\ Busy(w)
    BY DEF On
  <1>2. WellPlaced(w) /\ exec[w] \in Execution /\ Type(w) = Stages[p + 1]
        /\ Writing(w) = OutputsOf(p, t) \ exec[w].todo
    BY <1>1, TaskTypes
  <1>3. w \notin Compacters /\ exec[w].at \notin {"rename", "upsert", "mark"}
    BY <1>1, <1>2 DEF WellPlaced, At
  <1>4. exec[w].at \in Places /\ exec[w].at \notin {"idle", "advance", "late", "reduced"}
    BY <1>1, <1>2 DEF Execution, Busy
  <1>5. exec[w].at \in {"start", "create", "write", "success", "failed"}
    BY <1>3, <1>4 DEF Places
  <1>6. Writes(w) => WritingOf(w, p, t) /\ exec[w].todo \subseteq OutputsOf(p, t)
    BY <1>1, <1>2 DEF JobInv, PartOf, WellPlaced
  <1> QED
    BY <1>1, <1>2, <1>3, <1>5, <1>6 DEF JobInv

\* The client leaves the task, or reports: it has written all of it, or nothing.
LEMMA JobLeft ==
  ASSUME DataInv, SourceTypeOK', NEW p \in {0, 1}, NEW t \in Nat, NEW w \in Clients,
         On(w, p, t), JobInv(p, t), mishaps' = {},
         Report(w) \/ Crash(w) \/ FailAtStart(w) \/ WriteFails(w)
  PROVE  JobInv(p, t)'
  <1>1. /\ exec[w].phase = p /\ exec[w].task = t
        /\ \A v \in Clients : On(v, p, t) => v = w
        /\ Writes(w) => WritingOf(w, p, t)
        /\ ~Writes(w) => Absent(p, t) \/ Complete(p, t)
    BY Alone
  <1>2. Others(w) /\ (~Busy(w)' \/ exec'[w].at = "failed")
    <2>1. CASE Report(w) \/ Crash(w)
      BY <2>1, RestTypes DEF Report, Rests
    <2>2. CASE WriteFails(w)
      BY <2>2, WriteFailsTypes
    <2>3. CASE FailAtStart(w)
      <3>1. "failed" \in Places
        BY DEF Places
      <3> QED
        BY <2>3, <3>1, Going DEF FailAtStart, DataInv, DataTypes
    <2> QED
      BY <2>1, <2>2, <2>3
  <1>3. files' = files
    <2>1. CASE WriteFails(w)
      <3>1. exec[w].phase # 2
        BY <1>1
      <3> QED
        BY <2>1, <3>1, WriteFailsTypes
    <2>2. CASE ~WriteFails(w)
      BY <2>2 DEF Report, IgnoreReport, CompleteTask, MarkReduceDone, CompleteLate, CountLate,
         FailTask, Crash, FailAtStart
    <2> QED
      BY <2>1, <2>2
  <1>4. MapTasks' = MapTasks
    BY ClientStep DEF Execute
  <1>5. Absent(p, t) \/ Complete(p, t)
    <2>1. CASE ~Writes(w)
      BY <1>1, <2>1
    <2>2. CASE Writes(w)
      <3>1. Fault(Interruption(w))
        BY <2>2 DEF Report, IgnoreReport, CompleteTask, MarkReduceDone, CompleteLate, CountLate,
           FailTask, Crash, FailAtStart, WriteFails, Writes, At
      <3>2. exec[w].phase <= 1
        BY <1>1
      <3>3. exec[w].todo = OutputsOf(p, t)
        BY <1>1, <2>2, <3>1, <3>2, CleanFault
      <3> QED
        BY <1>1, <2>2, <3>3 DEF WritingOf, Absent
    <2> QED
      BY <2>1, <2>2
  <1>6. AllSame(p, t)
    BY <1>3, <1>4, QuietFrame
  <1>7. Absent(p, t)' \/ Complete(p, t)'
    BY <1>5, <1>6, FilesKept
  <1>8. On(w, p, t)' => PartOf(w, p, t)'
    BY <1>2 DEF On, PartOf, Writes, At
  <1> QED
    BY <1>1, <1>2, <1>7, <1>8, JobAlone

\* An output that is there is all there.
LEMMA JobSkipped ==
  ASSUME DataInv, SourceTypeOK', NEW p \in {0, 1}, NEW t \in Nat, NEW w \in Clients,
         On(w, p, t), JobInv(p, t), SkipExecution(w)
  PROVE  JobInv(p, t)'
  <1>1. /\ exec[w].phase = p /\ exec[w].task = t /\ Type(w) = Stages[p + 1] /\ w \notin Compacters
        /\ \A v \in Clients : On(v, p, t) => v = w
        /\ ~Writes(w) => Absent(p, t) \/ Complete(p, t)
    BY Alone
  <1>2. /\ files' = files /\ At(w, "start") /\ ~Writes(w)
        /\ \/ (w \in Workers) # (Type(w) \in {"MapTask", "ReduceTask"})
           \/ Checkpoint(Type(w), exec[w].task)
    BY DEF SkipExecution, At, Writes
  <1>3. \E path \in OutputsOf(p, t) : Exists(path)
    <2>1. w \in Workers /\ Type(w) \in {"MapTask", "ReduceTask"}
      BY <1>1, Pools DEF Clients
    <2> QED
      BY <1>1, <1>2, <2>1, CheckpointByPhase
  <1>4. Complete(p, t)
    BY <1>1, <1>2, <1>3 DEF Absent
  <1>5. Others(w) /\ exec'[w].at = "success"
    <2>1. "success" \in Places
      BY DEF Places
    <2> QED
      BY <2>1, Going DEF SkipExecution, DataInv, DataTypes
  <1>6. AllSame(p, t)
    <2>1. MapTasks' = MapTasks
      BY ClientStep DEF Execute
    <2> QED
      BY <1>2, <2>1, QuietFrame
  <1>7. Complete(p, t)' /\ PartOf(w, p, t)'
    BY <1>4, <1>5, <1>6, FilesKept DEF PartOf, Writes
  <1> QED
    BY <1>1, <1>5, <1>7, JobAlone

LEMMA JobRead ==
  ASSUME DataInv, SourceTypeOK', FinishedInv, NEW p \in {0, 1}, NEW t \in Nat, NEW w \in Clients,
         On(w, p, t), JobInv(p, t), ReadInput(w)
  PROVE  JobInv(p, t)'
  <1>1. /\ exec[w].phase = p /\ exec[w].task = t /\ Type(w) = Stages[p + 1] /\ Busy(w)
        /\ \A v \in Clients : On(v, p, t) => v = w
    BY Alone DEF On
  <1>2. /\ Others(w) /\ SameJob(w)
        /\ exec'[w].at = "create" /\ exec'[w].todo = OutputsOf(p, t)
        /\ exec'[w].got \in Input(Stages[p + 1], t)
    BY <1>1, ReadTypes
  <1>3. exec'[w].got = Full(p, t)
    BY <1>1, <1>2, FullInput
  <1>4. files' = files /\ ~Checkpoint(Stages[p + 1], t)
    BY <1>1 DEF ReadInput, ReadsInput
  <1>5. \A path \in OutputsOf(p, t) : ~Exists(path)
    BY <1>4, CheckpointByPhase
  <1>6. OutputsOf(p, t)' = OutputsOf(p, t) /\ Full(p, t)' = Full(p, t)
    <2>1. MapTasks' = MapTasks
      BY ClientStep DEF Execute
    <2> QED
      BY <2>1, OutputsConstant DEF Full
  <1>7. WritingOf(w, p, t)' /\ Writes(w)'
    BY <1>2, <1>3, <1>4, <1>5, <1>6 DEF WritingOf, Writes, Exists
  <1>8. On(w, p, t)'
    BY <1>1, <1>2 DEF On, Busy, SameJob
  <1>9. PartOf(w, p, t)'
    BY <1>2, <1>7 DEF PartOf, At
  <1> QED
    BY <1>1, <1>2, <1>7, <1>8, <1>9, JobAlone

LEMMA JobCreate ==
  ASSUME DataInv, SourceTypeOK', NEW p \in {0, 1}, NEW t \in Nat, NEW w \in Clients,
         On(w, p, t), JobInv(p, t), CreateFile(w)
  PROVE  JobInv(p, t)'
  <1>1. /\ exec[w].phase = p /\ exec[w].task = t /\ Busy(w)
        /\ \A v \in Clients : On(v, p, t) => v = w
    BY Alone DEF On
  <1>2. /\ Others(w) /\ SameJob(w)
        /\ At(w, "create") /\ exec'[w].at = "write" /\ exec'[w].got = exec[w].got
        /\ \E path \in exec[w].todo :
               /\ exec'[w].todo = exec[w].todo \ {path}
               /\ files' = Put(files, path, File(w, FALSE, exec[w].got))
    BY CreateTypes
  <1>3. PICK new \in exec[w].todo :
               /\ exec'[w].todo = exec[w].todo \ {new}
               /\ files' = Put(files, new, File(w, FALSE, exec[w].got))
    BY <1>2
  <1>4. WritingOf(w, p, t)
    BY <1>2, Alone DEF Writes, At
  <1>5. OutputsOf(p, t)' = OutputsOf(p, t) /\ Full(p, t)' = Full(p, t)
    <2>1. MapTasks' = MapTasks
      BY ClientStep DEF Execute
    <2> QED
      BY <2>1, OutputsConstant DEF Full
  <1>6. /\ DOMAIN files' = {new} \cup DOMAIN files
        /\ files'[new].by = w /\ files'[new].got = exec[w].got
        /\ \A path \in DOMAIN files : path # new => files'[path] = files[path]
    <2> DEFINE r == File(w, FALSE, exec[w].got)
    <2>1. r.by = w /\ r.got = exec[w].got
      BY DEF File
    <2>2. files' = Put(files, new, r)
      BY <1>3
    <2> HIDE DEF r
    <2>3. files'[new] = r
      BY <2>2 DEF Put
    <2> QED
      BY <2>1, <2>2, <2>3 DEF Put
  <1>7. ASSUME NEW path \in OutputsOf(p, t)
        PROVE  IF path \in exec'[w].todo
               THEN path \notin DOMAIN files'
               ELSE path \in DOMAIN files' /\ files'[path].by = w /\ files'[path].got = Full(p, t)
    <2>1. IF path \in exec[w].todo THEN path \notin DOMAIN files
          ELSE path \in DOMAIN files /\ files[path].by = w /\ files[path].got = Full(p, t)
      BY <1>4 DEF WritingOf, Exists
    <2>2. exec[w].got = Full(p, t)
      BY <1>4 DEF WritingOf
    <2>3. CASE path = new
      BY <1>3, <1>6, <2>2, <2>3
    <2>4. CASE path # new
      BY <1>3, <1>6, <2>1, <2>4
    <2> QED
      BY <2>3, <2>4
  <1>8. WritingOf(w, p, t)' /\ Writes(w)'
    <2>1. exec'[w].got = Full(p, t)
      BY <1>2, <1>4 DEF WritingOf
    <2> QED
      BY <1>2, <1>5, <1>7, <2>1 DEF WritingOf, Writes, Exists, At
  <1>9. On(w, p, t)' /\ PartOf(w, p, t)'
    BY <1>1, <1>2, <1>8 DEF On, Busy, SameJob, PartOf, At
  <1> QED
    BY <1>1, <1>2, <1>8, <1>9, JobAlone

LEMMA JobWrite ==
  ASSUME DataInv, SourceTypeOK', NEW p \in {0, 1}, NEW t \in Nat, NEW w \in Clients,
         On(w, p, t), JobInv(p, t), WriteFile(w)
  PROVE  JobInv(p, t)'
  <1>1. /\ exec[w].phase = p /\ exec[w].task = t /\ Busy(w)
        /\ \A v \in Clients : On(v, p, t) => v = w
        /\ Writing(w) = OutputsOf(p, t) \ exec[w].todo
    BY Alone DEF On
  <1>2. /\ Others(w) /\ SameJob(w) /\ At(w, "write")
        /\ exec'[w].at = IF exec[w].todo # {} THEN "create" ELSE "success"
        /\ exec'[w].got = exec[w].got /\ exec'[w].todo = exec[w].todo
        /\ DOMAIN files' = DOMAIN files
        /\ \A path \in DOMAIN files :
               /\ path \notin Writing(w) => files'[path] = files[path]
               /\ files'[path].by = files[path].by
               /\ path \in Writing(w) /\ files[path].by = w => files'[path].closed
               /\ files[path].got \subseteq exec[w].got => files'[path].got = files[path].got
    <2>1. exec[w].got \in SUBSET exec[w].got /\ WritesOut(w, exec[w].got)
      BY WritesAll
    <2> QED
      BY <1>1, <2>1, WritingOut
  <1>3. WritingOf(w, p, t) /\ exec[w].todo \subseteq OutputsOf(p, t)
    BY <1>2, Alone DEF Writes, At
  <1>4. OutputsOf(p, t)' = OutputsOf(p, t) /\ Full(p, t)' = Full(p, t)
    <2>1. MapTasks' = MapTasks
      BY ClientStep DEF Execute
    <2> QED
      BY <2>1, OutputsConstant DEF Full
  <1>5. ASSUME NEW path \in OutputsOf(p, t)
        PROVE  IF path \in exec[w].todo
               THEN path \notin DOMAIN files'
               ELSE /\ path \in DOMAIN files' /\ files'[path].by = w /\ files'[path].closed
                    /\ files'[path].got = Full(p, t)
    <2>1. IF path \in exec[w].todo THEN path \notin DOMAIN files
          ELSE path \in DOMAIN files /\ files[path].by = w /\ files[path].got = Full(p, t)
      BY <1>3 DEF WritingOf, Exists
    <2>2. exec[w].got = Full(p, t)
      BY <1>3 DEF WritingOf
    <2>3. CASE path \in exec[w].todo
      BY <1>2, <2>1, <2>3
    <2>4. CASE path \notin exec[w].todo
      <3>1. path \in Writing(w) /\ files[path].got \subseteq exec[w].got
        BY <1>1, <2>1, <2>2, <2>4
      <3> QED
        BY <1>2, <2>1, <2>4, <3>1
    <2> QED
      BY <2>3, <2>4
  <1>6. On(w, p, t)'
    BY <1>1, <1>2 DEF On, Busy, SameJob
  <1>7. CASE exec[w].todo # {}
    <2>1. exec'[w].at = "create" /\ exec'[w].got = Full(p, t)
      BY <1>2, <1>3, <1>7 DEF WritingOf
    <2>2. WritingOf(w, p, t)' /\ Writes(w)'
      BY <1>2, <1>4, <1>5, <2>1 DEF WritingOf, Writes, Exists
    <2>3. PartOf(w, p, t)'
      BY <2>1, <2>2 DEF PartOf, At
    <2> QED
      BY <1>1, <1>2, <1>6, <2>2, <2>3, JobAlone
  <1>8. CASE exec[w].todo = {}
    <2>1. exec'[w].at = "success"
      BY <1>2, <1>8
    <2>2. Complete(p, t)'
      BY <1>4, <1>5, <1>8 DEF Complete, Exists
    <2>3. PartOf(w, p, t)'
      BY <2>1, <2>2 DEF PartOf, Writes
    <2> QED
      BY <1>1, <1>2, <2>2, <2>3, JobAlone
  <1> QED
    BY <1>7, <1>8

LEMMA OwnJob ==
  ASSUME DataInv, SourceTypeOK', FinishedInv, mishaps' = {},
         NEW p \in {0, 1}, NEW t \in Nat, NEW w \in Clients, On(w, p, t), JobInv(p, t),
         Execute(w) \/ Report(w) \/ Crash(w)
  PROVE  JobInv(p, t)'
  <1>1. exec[w].at \in {"start", "create", "write", "success", "failed"}
    BY Alone
  <1>2. ~(Rename(w) \/ UpsertKey(w) \/ LastUpsert(w) \/ UpsertFails(w) \/ MarkSinkDone(w))
    BY <1>1 DEF Rename, UpsertKey, LastUpsert, UpsertFails, MarkSinkDone, At
  <1>3. ~(ReadShort(w) \/ WriteShort(w))
    BY DEF ReadShort, WriteShort, Fault
  <1> QED
    BY <1>2, <1>3, JobLeft, JobSkipped, JobRead, JobCreate, JobWrite DEF Execute

\* A task given out to a client: nobody else was at it.
LEMMA GivenJob ==
  ASSUME DataInv, SourceTypeOK', mishaps' = {},
         NEW p \in {0, 1}, NEW t \in Nat, JobInv(p, t),
         NEW s \in PhaseTasks, NEW w \in Clients, Dispatch(w, s)
  PROVE  JobInv(p, t)'
  <1>1. /\ Others(w) /\ ~Busy(w) /\ phase \in 0..3
        /\ exec'[w].at = "start" /\ exec'[w].phase = phase /\ exec'[w].task = s
        /\ files' = files /\ UNCHANGED sourceVars
    BY DispatchTypes
  <1>2. MapTasks' = MapTasks
    BY <1>1 DEF sourceVars, listenerVars, MapTasks
  <1>3. AllSame(p, t)
    BY <1>1, <1>2, QuietFrame
  <1>4. CASE phase = p /\ s = t
    <2>1. Stage \in {"MapTask", "ReduceTask"}
      BY <1>4, StageNames DEF Stage
    <2>2. WorkingOn(t) = {}
      BY <1>4, <2>1 DEF Dispatch
    <2>3. \A v \in Clients : ~On(v, p, t)
      BY <1>4, <2>2 DEF WorkingOn, On, Busy, At
    <2>4. Absent(p, t)' \/ Complete(p, t)'
      BY <1>3, <2>3, FilesKept DEF JobInv
    <2>5. PartOf(w, p, t)'
      BY <1>1 DEF PartOf, Writes, At
    <2> QED
      BY <1>1, <2>3, <2>4, <2>5, JobAlone
  <1>5. CASE ~(phase = p /\ s = t)
    <2>1. ~On(w, p, t) /\ ~On(w, p, t)'
      BY <1>1, <1>5 DEF On
    <2>2. /\ \A v \in Clients : On(v, p, t)' => exec'[v] = exec[v]
          /\ \A v \in Clients : On(v, p, t) /\ Writes(v) => exec'[v] = exec[v]
      BY <1>1, <2>1 DEF Others
    <2> QED
      BY <1>3, <2>2, JobFrame
  <1> QED
    BY <1>4, <1>5

\* A new map task: there is no reduction yet.
LEMMA JobAtSource ==
  ASSUME DataInv, SourceTypeOK', FinishedInv, NEW p \in {0, 1}, NEW t \in Nat, JobInv(p, t), Source
  PROVE  JobInv(p, t)'
  <1>1. files' = files /\ exec' = exec /\ phase' = phase /\ (phase > 0 => MapTasks' = MapTasks)
    BY SourceStepTypes DEF MapTasks
  <1>2. CASE p = 1 => MapTasks' = MapTasks
    BY <1>1, <1>2, QuietFrame, JobFrame
  <1>3. CASE p = 1 /\ phase = 0
    <2>1. Absent(p, t)'
      BY <1>1, <1>3, OutputsConstant DEF FinishedInv, MapCounted, Absent, Exists
    <2>2. \A v \in Clients : ~On(v, p, t)'
      <3> SUFFICES ASSUME NEW v \in Clients, On(v, p, t)' PROVE FALSE
        OBVIOUS
      <3>1. On(v, p, t)
        BY <1>1 DEF On, Busy
      <3>2. exec[v].phase <= phase /\ exec[v].phase = 1
        BY <1>3, <3>1, TaskTypes DEF On
      <3> QED
        BY <1>3, <3>2
    <2> QED
      BY <2>1, <2>2 DEF JobInv
  <1>4. phase = 0 \/ phase > 0
    BY PhaseTypes
  <1> QED
    BY <1>1, <1>2, <1>3, <1>4

LEMMA JobsStep ==
  ASSUME DataInv, SourceTypeOK', FinishedInv, JobsInv, mishaps' = {}, [Next]_vars
  PROVE  JobsInv'
  <1> SUFFICES ASSUME NEW p \in {0, 1}, NEW t \in Nat PROVE JobInv(p, t)'
    BY DEF JobsInv
  <1>0. JobInv(p, t)
    BY DEF JobsInv
  <1>1. CASE Source
    BY <1>0, <1>1, JobAtSource
  <1>2. CASE (\E s \in PhaseTasks : GiveUp(s)) \/ UNCHANGED vars
    <2>1. UNCHANGED <<exec, files, sourceVars>>
      BY <1>2 DEF GiveUp, vars
    <2>2. MapTasks' = MapTasks
      BY <2>1 DEF sourceVars, listenerVars, MapTasks
    <2> QED
      BY <1>0, <2>1, <2>2, QuietFrame, JobFrame
  <1>5. ASSUME NEW w \in Clients, FindPhaseComplete(w) \/ AdvancePhase(w) PROVE JobInv(p, t)'
    <2>1. Others(w) /\ ~Busy(w)' /\ ~Busy(w)
      BY <1>5, RestTypes, AdvanceTypes DEF Rests, FindPhaseComplete, AdvancePhase, Busy, At
    <2>2. files' = files /\ MapTasks' = MapTasks
      BY <1>5 DEF FindPhaseComplete, AdvancePhase, sourceVars, listenerVars, MapTasks
    <2>3. /\ \A v \in Clients : On(v, p, t)' => exec'[v] = exec[v]
          /\ \A v \in Clients : On(v, p, t) /\ Writes(v) => exec'[v] = exec[v]
      BY <2>1 DEF On, Others
    <2> QED
      BY <1>0, <2>2, <2>3, QuietFrame, JobFrame
  <1>3. ASSUME NEW s \in PhaseTasks, NEW w \in Clients, Dispatch(w, s) PROVE JobInv(p, t)'
    BY <1>0, <1>3, GivenJob
  <1>4. ASSUME NEW w \in Clients, Execute(w) \/ Report(w) \/ Crash(w) PROVE JobInv(p, t)'
    BY <1>0, <1>4, OwnJob, OtherJob
  <1> QED
    BY <1>1, <1>2, <1>3, <1>4, <1>5 DEF Next, Schedule

(***************************************************************************)
(* What is counted                                                         *)
(***************************************************************************)
\* The map tasks are all there once the map phase is over.
LEMMA MapTasksFixed ==
  ASSUME DataInv, SourceTypeOK', [Next]_vars, phase > 0
  PROVE  MapTasks' = MapTasks
  <1>1. CASE Source
    BY <1>1, SourceStepTypes DEF MapTasks
  <1>2. CASE Schedule \/ UNCHANGED vars
    BY <1>2 DEF Schedule, FindPhaseComplete, AdvancePhase, GiveUp, Dispatch, vars, sourceVars,
       listenerVars, MapTasks
  <1> QED
    BY <1>1, <1>2, ClientStep DEF Next

\* The phase moves by a transition, and by one.
LEMMA PhaseMoves ==
  ASSUME DataInv, SourceTypeOK', [Next]_vars
  PROVE  \/ phase' = phase
         \/ \E w \in Clients : AdvancePhase(w) /\ phase' = phase + 1
  <1>1. CASE Source \/ UNCHANGED vars
    BY <1>1 DEF Source, vars, jobVars
  <1>2. CASE Schedule
    BY <1>2, AdvanceTypes DEF Schedule, GiveUp, Dispatch, FindPhaseComplete, jobVars
  <1>3. ASSUME NEW w \in Clients, Execute(w) \/ Report(w) \/ Crash(w) PROVE phase' = phase
    BY <1>3 DEF Execute, SkipExecution, FailAtStart, ReadInput, ReadShort, CreateFile, WriteFile,
       WriteShort, WriteFails, Rename, UpsertKey, LastUpsert, UpsertFails, MarkSinkDone, jobVars,
       Report, IgnoreReport, CompleteTask, MarkReduceDone, CompleteLate, CountLate, FailTask, Crash
  <1> QED
    BY <1>1, <1>2, <1>3 DEF Next

\* Nothing but a report that has its record, or the sweeper, moves the count.
LEMMA CountMoves ==
  ASSUME [Next]_vars, mishaps' = {}, \A w \in Clients : ~AdvancePhase(w)
  PROVE  \/ phaseDone' = phaseDone
         \/ \E t \in PhaseTasks : GiveUp(t)
         \/ \E w \in Clients : CompleteTask(w)
  <1>1. CASE Source \/ Schedule \/ UNCHANGED vars
    BY <1>1 DEF Source, Schedule, Dispatch, FindPhaseComplete, vars, jobVars
  <1>2. ASSUME NEW w \in Clients, Execute(w) \/ Report(w) \/ Crash(w), ~CompleteTask(w)
        PROVE  phaseDone' = phaseDone
    <2>1. ~CountLate(w)
      BY DEF CountLate
    <2> QED
      BY <1>2, <2>1 DEF Execute, SkipExecution, FailAtStart, ReadInput, ReadShort, CreateFile,
         WriteFile, WriteShort, WriteFails, Rename, UpsertKey, LastUpsert, UpsertFails, MarkSinkDone,
         jobVars, Report, IgnoreReport, MarkReduceDone, CompleteLate, FailTask, Crash
  <1> QED
    BY <1>1, <1>2 DEF Next

\* A task that is neither queued nor in flight stays so, within its phase.
LEMMA GoneStays ==
  ASSUME DataInv, SourceTypeOK', [Next]_vars, mishaps' = {}, NEW t \in gone
  PROVE  /\ \A w \in Clients : ~Dispatch(w, t)
         /\ phase' = phase => t \in gone'
  <1>1. ~Overlapped
    BY MishapsStay DEF Overlapped
  <1>2. \A w \in Clients : \A s : Dispatch(w, s) => s # t
    BY <1>1 DEF Dispatch, Queued
  <1>3. ASSUME phase' = phase PROVE t \in gone'
    <2>1. CASE Source \/ UNCHANGED vars
      BY <2>1 DEF Source, vars, jobVars
    <2>2. CASE Schedule
      <3>1. phase + 1 # phase
        BY PhaseTypes
      <3> QED
        BY <1>2, <1>3, <2>2, <3>1 DEF Schedule, GiveUp, Dispatch, FindPhaseComplete, AdvancePhase,
           jobVars
    <2>3. ASSUME NEW w \in Clients, Execute(w) \/ Report(w) \/ Crash(w) PROVE t \in gone'
      BY <2>3 DEF Execute, SkipExecution, FailAtStart, ReadInput, ReadShort, CreateFile, WriteFile,
         WriteShort, WriteFails, Rename, UpsertKey, LastUpsert, UpsertFails, MarkSinkDone, jobVars,
         Report, IgnoreReport, CompleteTask, MarkReduceDone, CompleteLate, CountLate, FailTask, Crash
    <2> QED
      BY <2>1, <2>2, <2>3 DEF Next
  <1> QED
    BY <1>2, <1>3

\* Who comes to wait for a handler of the coordinator, and by which step.
LEMMA ComesToWait ==
  ASSUME DataInv, SourceTypeOK', [Next]_vars, NEW w \in Clients, exec'[w] # exec[w]
  PROVE  /\ exec'[w].at = "advance" => FindPhaseComplete(w)
         /\ exec'[w].at = "reduced" =>
               CompleteTask(w) /\ Stage = "ReduceTask" /\ exec'[w].task = exec[w].task
  <1>0. exec \in [Clients -> Execution]
    BY DEF DataInv, DataTypes
  <1>1. \A v \in Clients : Others(v) => v = w
    BY DEF Others
  <1>2. ASSUME NEW v \in Clients, NEW where \in {"idle", "advance", "late", "reduced"},
               NEW p \in 0..3, NEW t \in Nat, exec' = [exec EXCEPT ![v] = Waiting(where, p, t)]
        PROVE  v = w /\ exec'[w].at = where /\ exec'[w].task = t
    <2>0. exec' = [exec EXCEPT ![v] = Waiting(where, p, t)]
      BY <1>2
    <2>1. Others(v) /\ exec'[v] = Waiting(where, p, t)
      BY <1>0, <2>0 DEF Others
    <2>2. Waiting(where, p, t).at = where /\ Waiting(where, p, t).task = t
      BY DEF Waiting
    <2> QED
      BY <1>1, <2>1, <2>2
  <1>3. ASSUME NEW v \in Clients, exec' = [exec EXCEPT ![v] = Idle]
        PROVE  exec'[w].at = "idle"
    <2>1. 0 \in 0..3 /\ 0 \in Nat
      OBVIOUS
    <2> QED
      BY <1>2, <1>3, <2>1 DEF Idle
  <1>4. CASE Source \/ UNCHANGED vars
    BY <1>4 DEF Source, vars
  <1>5. CASE Schedule
    <2>1. ASSUME NEW v \in Clients, FindPhaseComplete(v)
          PROVE  exec'[w].at = "advance" /\ v = w
      <3>1. phase \in 0..3 /\ 0 \in Nat
        BY <2>1, PhaseTypes DEF FindPhaseComplete
      <3>2. exec' = [exec EXCEPT ![v] = Waiting("advance", phase, 0)]
        BY <2>1 DEF FindPhaseComplete
      <3> QED
        BY <1>2, <3>1, <3>2
    <2>2. ASSUME NEW v \in Clients, AdvancePhase(v) PROVE exec'[w].at = "idle"
      BY <1>3, <2>2 DEF AdvancePhase
    <2>3. ASSUME NEW t \in PhaseTasks, NEW v \in Clients, Dispatch(v, t)
          PROVE  exec'[w].at = "start"
      BY <1>1, <2>3, DispatchTypes
    <2>4. ASSUME NEW t \in PhaseTasks, GiveUp(t) PROVE FALSE
      BY <2>4, GiveUpTypes
    <2> QED
      BY <1>5, <2>1, <2>2, <2>3, <2>4 DEF Schedule
  <1>6. ASSUME NEW v \in Clients, Execute(v)
        PROVE  exec'[w].at \notin {"advance", "reduced"}
    <2>1. CASE WriteFile(v) \/ WriteShort(v)
      <3>1. PICK kept \in SUBSET exec[v].got : WritesOut(v, kept)
        BY <2>1, WritesAll, WritesSome
      <3>2. Others(v) /\ exec'[v].at \in {"create", "rename", "success"}
        BY <3>1, WritingOut
      <3> QED
        BY <1>1, <3>2
    <2>2. CASE UpsertKey(v)
      BY <2>2, UpsertTypes
    <2>3. CASE ~(WriteFile(v) \/ WriteShort(v) \/ UpsertKey(v))
      <3>1. Others(v) /\ exec'[v].at \notin {"advance", "reduced"}
        BY <1>6, <2>3, GoTypes, ReadTypes, CreateTypes, WriteFailsTypes, RenameTypes DEF Execute
      <3> QED
        BY <1>1, <3>1
    <2> QED
      BY <2>1, <2>2, <2>3
  <1>7. ASSUME NEW v \in Clients, Report(v) \/ Crash(v)
        PROVE  /\ exec'[w].at # "advance"
               /\ exec'[w].at = "reduced" =>
                     v = w /\ CompleteTask(w) /\ Stage = "ReduceTask" /\ exec'[w].task = exec[w].task
    <2>1. exec[v].task \in Nat /\ exec[v].phase \in 0..3
      BY TaskTypes
    <2>2. CASE exec' = [exec EXCEPT ![v] = Idle]
      BY <1>3, <2>2
    <2>3. CASE CompleteLate(v)
      <3>1. exec' = [exec EXCEPT ![v] = Waiting("late", phase, exec[v].task)] /\ phase \in 0..3
        BY <2>1, <2>3 DEF CompleteLate
      <3> QED
        BY <1>2, <2>1, <3>1
    <2>4. CASE CompleteTask(v) /\ Stage = "ReduceTask"
      <3>1. exec' = [exec EXCEPT ![v] = Waiting("reduced", phase, exec[v].task)] /\ phase \in 0..3
        BY <2>1, <2>4 DEF CompleteTask
      <3>2. v = w /\ exec'[w].at = "reduced" /\ exec'[w].task = exec[v].task
        BY <1>2, <2>1, <3>1
      <3> QED
        BY <2>4, <3>2
    <2> QED
      BY <1>7, <2>2, <2>3, <2>4 DEF Report, IgnoreReport, CompleteTask, MarkReduceDone, CountLate,
         FailTask, Crash
  <1> QED
    BY <1>4, <1>5, <1>6, <1>7 DEF Next

\* A bucket is reduced by a counted report in the reduce phase.
LEMMA ReducedMoves ==
  ASSUME DataInv, SourceTypeOK', [Next]_vars, NEW b \in Buckets, Reduced(b)', ~Reduced(b)
  PROVE  \E w \in Clients : CompleteTask(w) /\ exec[w].task = b /\ phase = 1
  <1>1. ASSUME b \in reduction' PROVE FALSE
    <2>1. \E w \in Clients : MarkReduceDone(w) /\ exec[w].task = b
      <3>1. b \notin reduction
        BY DEF Reduced
      <3>2. CASE Source \/ Schedule \/ UNCHANGED vars
        BY <1>1, <3>1, <3>2 DEF Source, Schedule, GiveUp, Dispatch, FindPhaseComplete, AdvancePhase,
           vars, jobVars
      <3>3. ASSUME NEW w \in Clients, Execute(w) \/ Report(w) \/ Crash(w)
            PROVE  MarkReduceDone(w) /\ exec[w].task = b
        BY <1>1, <3>1, <3>3 DEF Execute, SkipExecution, FailAtStart, ReadInput, ReadShort,
           CreateFile, WriteFile, WriteShort, WriteFails, Rename, UpsertKey, LastUpsert, UpsertFails,
           MarkSinkDone, jobVars, Report, IgnoreReport, CompleteTask, MarkReduceDone, CompleteLate,
           CountLate, FailTask, Crash
      <3> QED
        BY <3>2, <3>3 DEF Next
    <2> QED
      BY <2>1 DEF MarkReduceDone, Reduced
  <1>2. PICK w \in Clients : exec'[w].at = "reduced" /\ exec'[w].task = b
    BY <1>1 DEF Reduced, At
  <1>3. exec'[w] # exec[w]
    BY <1>2 DEF Reduced, At
  <1>4. CompleteTask(w) /\ Stage = "ReduceTask" /\ exec[w].task = b
    BY <1>2, <1>3, ComesToWait
  <1>5. phase = 1
    <2>1. phase \in 0..3
      BY <1>4, TaskTypes DEF CompleteTask
    <2> QED
      BY <1>4, <2>1, StageNames DEF Stage
  <1> QED
    BY <1>4, <1>5

\* A success is counted once its files are there and its client is gone.
LEMMA Completing ==
  ASSUME DataInv, SourceTypeOK', JobsInv, NEW w \in Clients, CompleteTask(w),
         NEW p \in {0, 1}, phase = p
  PROVE  \E t \in PhaseTasks :
            /\ t = exec[w].task /\ t \notin gone
            /\ gone' = gone \cup {t} /\ phaseDone' = phaseDone + 1 /\ Settled(p, t)'
  <1> DEFINE t == exec[w].task
  <1>1. exec[w].phase = p /\ At(w, "success") /\ Busy(w) /\ On(w, p, t)
    BY DEF CompleteTask, At, Busy, On
  <1>2. t \in PhaseTasks /\ t \in Nat
    BY <1>1, TaskTypes, PhaseTypes
  <1>3. JobInv(p, t)
    BY <1>2 DEF JobsInv
  <1>4. Complete(p, t) /\ \A v \in Clients : On(v, p, t) => v = w
    BY <1>1, <1>3 DEF JobInv, PartOf
  <1>5. Others(w) /\ ~Busy(w)' /\ files' = files
    BY RestTypes DEF CompleteTask, Rests
  <1>6. MapTasks' = MapTasks
    BY ClientStep DEF Report
  <1>7. \A s : Complete(p, s) => Complete(p, s)'
    BY <1>5, <1>6, OutputsConstant DEF Complete, Exists, Full
  <1>8. \A s : (\A v \in Clients : On(v, p, s) => v = w) => Untouched(p, s)'
    BY <1>5 DEF Others, Untouched, On, Busy
  <1>9. t \notin gone /\ gone' = gone \cup {t} /\ phaseDone' = phaseDone + 1
    BY DEF CompleteTask, HasRecord
  <1>10. PICK s : s = t
    OBVIOUS
  <1>11. Settled(p, s)'
    BY <1>4, <1>7, <1>8, <1>10 DEF Settled
  <1> QED
    BY <1>2, <1>9, <1>10, <1>11

\* What is settled stays so as long as it is not given out again.
LEMMA StaysSettled ==
  ASSUME DataInv, SourceTypeOK', [Next]_vars, NEW p \in {0, 1}, NEW t \in Nat,
         Settled(p, t), p = 1 => phase > 0,
         \A w \in Clients : t \in PhaseTasks /\ Dispatch(w, t) => phase # p
  PROVE  Settled(p, t)'
  <1>1. phase > 0 => MapTasks' = MapTasks
    BY MapTasksFixed
  <1>2. Complete(p, t) /\ Untouched(p, t)
    BY DEF Settled
  <1>3. AllSame(p, t)
    BY <1>1, <1>2, UntouchedFiles DEF AllSame, Full
  <1>4. Untouched(p, t)'
    <2> SUFFICES ASSUME NEW v \in Clients, On(v, p, t)' PROVE FALSE
      BY DEF Untouched
    <2>1. CASE \A w \in Clients, s \in PhaseTasks : ~Dispatch(w, s)
      <3>1. On(v, p, t)
        BY <2>1, JobsKept DEF KeepsJobs, On, SameJob, Busy
      <3> QED
        BY <1>2, <3>1 DEF Untouched
    <2>2. ASSUME NEW w \in Clients, NEW s \in PhaseTasks, Dispatch(w, s) PROVE FALSE
      <3>1. Others(w) /\ exec'[w].phase = phase /\ exec'[w].task = s
        BY <2>2, DispatchTypes
      <3>2. v = w
        BY <1>2, <3>1 DEF Others, On, Busy, Untouched
      <3>3. phase = p /\ s = t
        BY <3>1, <3>2 DEF On
      <3> QED
        BY <2>2, <3>3
    <2> QED
      BY <2>1, <2>2
  <1> QED
    BY <1>2, <1>3, <1>4, FilesKept DEF Settled

\* In the map phase, without a mishap, what has been counted is settled.
LEMMA CountedStep ==
  ASSUME DataInv, SourceTypeOK', [Next]_vars, mishaps' = {}, \A f \in failed' : f[1] # 0,
         JobsInv, Counted, phase = 0, phase' = 0
  PROVE  Counted'
  <1>1. PICK F \in SUBSET gone : /\ IsFiniteSet(F) /\ Cardinality(F) = phaseDone
                                 /\ \A t \in F : Settled(0, t)
    BY DEF Counted
  <1>2. \A t \in F : t \in gone' /\ Settled(0, t)'
    <2> SUFFICES ASSUME NEW t \in F PROVE t \in gone' /\ Settled(0, t)'
      OBVIOUS
    <2>1. t \in gone /\ t \in Nat /\ Settled(0, t)
      BY <1>1, PhaseTypes
    <2> QED
      BY <2>1, GoneStays, StaysSettled
  <1>3. \A w \in Clients : ~AdvancePhase(w)
    BY AdvanceTypes
  <1>4. \A t \in PhaseTasks : ~GiveUp(t)
    <2> SUFFICES ASSUME NEW t \in PhaseTasks, GiveUp(t) PROVE FALSE
      OBVIOUS
    <2>1. <<0, t>> \in failed' /\ <<0, t>>[1] = 0
      BY DEF GiveUp
    <2> QED
      BY <2>1
  <1>5. CASE phaseDone' = phaseDone
    BY <1>1, <1>2, <1>5 DEF Counted
  <1>6. ASSUME NEW w \in Clients, CompleteTask(w) PROVE Counted'
    <2>1. PICK t \in PhaseTasks : /\ t \notin gone /\ gone' = gone \cup {t}
                                  /\ phaseDone' = phaseDone + 1 /\ Settled(0, t)'
      BY <1>6, Completing
    <2>2. IsFiniteSet(F \cup {t}) /\ Cardinality(F \cup {t}) = phaseDone'
      <3>1. t \notin F
        BY <2>1
      <3> QED
        BY <1>1, <2>1, <3>1, FS_AddElement
    <2>3. F \cup {t} \in SUBSET gone' /\ \A s \in F \cup {t} : Settled(0, s)'
      BY <1>2, <2>1
    <2> QED
      BY <2>2, <2>3 DEF Counted
  <1> QED
    BY <1>3, <1>4, <1>5, <1>6, CountMoves

\* The count is reached when the map tasks are all settled, and the source has ended.
LEMMA CountReached ==
  ASSUME DataInv, mishaps = {}, Counted, phase = 0, NEW w \in Clients, FindPhaseComplete(w)
  PROVE  AllMapped /\ sourceDone
  <1>1. sourceDone /\ phaseDone = Len(tasks)
    BY DEF FindPhaseComplete, Overlapped, phaseTotal
  <1>2. PICK F \in SUBSET gone : /\ IsFiniteSet(F) /\ Cardinality(F) = phaseDone
                                 /\ \A t \in F : Settled(0, t)
    BY DEF Counted
  <1>3. gone \subseteq MapTasks
    BY PhaseTypes
  <1>4. IsFiniteSet(MapTasks) /\ Cardinality(MapTasks) = Len(tasks)
    <2>1. Len(tasks) \in Nat
      BY LenProperties DEF DataInv, SourceInv, SourceTypeOK
    <2> DEFINE n == Len(tasks) - 1
    <2>2. n \in Int /\ 0 \in Int /\ (IF 0 > n THEN 0 ELSE n - 0 + 1) = Len(tasks)
      BY <2>1
    <2>3. MapTasks = 0..n
      BY DEF MapTasks
    <2> HIDE DEF n
    <2> QED
      BY <2>2, <2>3, FS_Interval
  <1>5. F = MapTasks
    <2>1. F \in SUBSET MapTasks /\ Cardinality(MapTasks) = Cardinality(F)
      BY <1>1, <1>2, <1>3, <1>4
    <2> QED
      BY <1>4, <2>1, FS_Subset
  <1> QED
    BY <1>1, <1>2, <1>5 DEF AllMapped

\* Once they are all settled they stay so, into the next phase.
LEMMA AllMappedStays ==
  ASSUME DataInv, SourceTypeOK', [Next]_vars, mishaps' = {}, AllMapped, sourceDone, phase = 0
  PROVE  /\ MapTasks' = MapTasks /\ \A t \in MapTasks : Settled(0, t)'
         /\ phase' = 0 => AllMapped'
  <1>1. MapTasks' = MapTasks
    <2>1. CASE Source
      BY <2>1, SourceStepTypes DEF MapTasks
    <2>2. CASE Schedule \/ UNCHANGED vars
      BY <2>2 DEF Schedule, FindPhaseComplete, AdvancePhase, GiveUp, Dispatch, vars, sourceVars,
         listenerVars, MapTasks
    <2> QED
      BY <2>1, <2>2, ClientStep DEF Next
  <1>2. ASSUME NEW t \in MapTasks PROVE Settled(0, t)' /\ (phase' = 0 => t \in gone')
    <2>1. t \in gone /\ t \in Nat /\ Settled(0, t)
      BY PhaseTypes DEF AllMapped
    <2> QED
      BY <2>1, GoneStays, StaysSettled
  <1> QED
    BY <1>1, <1>2 DEF AllMapped

\* A client that is about to propose the first transition.
LEMMA MapsAdvancing ==
  ASSUME DataInv, MapCounted, phase = 0, NEW w \in Clients, At(w, "advance")
  PROVE  AllMapped /\ sourceDone
  <1>1. exec[w].phase \in 0..3 /\ exec[w].phase <= 0 /\ (exec[w].phase = 0 => sourceDone)
    BY TaskTypes DEF WellPlaced
  <1> QED
    BY <1>1 DEF MapCounted

LEMMA MapCountedStep ==
  ASSUME DataInv, SourceTypeOK', [Next]_vars, mishaps' = {}, \A f \in failed' : f[1] # 0,
         JobsInv, FinishedInv
  PROVE  MapCounted'
  <1> SUFFICES ASSUME phase' = 0
               PROVE  /\ \A b \in Buckets : ~Reduced(b)'
                      /\ \A t \in Nat : Absent(1, t)'
                      /\ Counted'
                      /\ \A w \in Clients : exec'[w].at = "advance" => AllMapped'
    BY DEF MapCounted, Buckets, At
  <1>1. phase = 0
    BY PhaseMoves, PhaseTypes
  <1>2. /\ \A b \in Buckets : ~Reduced(b)
        /\ \A t \in Nat : Absent(1, t)
        /\ Counted
    BY <1>1 DEF FinishedInv, MapCounted
  <1>3. \A b \in Buckets : ~Reduced(b)'
    BY <1>1, <1>2, ReducedMoves
  <1>4. ASSUME NEW t \in Nat PROVE Absent(1, t)'
    <2>1. Untouched(1, t)
      BY <1>1, TaskTypes DEF Untouched, On
    <2>2. \A path \in OutputsOf(1, t) : Same(path)
      BY <2>1, UntouchedFiles
    <2> QED
      BY <1>2, <2>2, OutputsConstant DEF Absent, Same, Exists
  <1>5. Counted'
    BY <1>1, <1>2, CountedStep
  <1>6. ASSUME NEW w \in Clients, exec'[w].at = "advance" PROVE AllMapped'
    <2>1. AllMapped /\ sourceDone
      <3>1. CASE exec'[w] = exec[w]
        BY <1>1, <1>6, <3>1, MapsAdvancing DEF FinishedInv, At
      <3>2. CASE exec'[w] # exec[w]
        <4>1. FindPhaseComplete(w)
          BY <1>6, <3>2, ComesToWait
        <4>2. mishaps = {}
          BY MishapsStay
        <4> QED
          BY <1>1, <1>2, <4>1, <4>2, CountReached
      <3> QED
        BY <3>1, <3>2
    <2> QED
      BY <1>1, <2>1, AllMappedStays
  <1> QED
    BY <1>3, <1>4, <1>5, <1>6

LEMMA MapOverStep ==
  ASSUME DataInv, SourceTypeOK', [Next]_vars, mishaps' = {}, FinishedInv
  PROVE  MapOver'
  <1> SUFFICES ASSUME phase' > 0
               PROVE  /\ \A t \in MapTasks' : Complete(0, t)'
                      /\ \A t \in Nat : Untouched(0, t)'
    BY DEF MapOver
  <1>0. MapTasks \subseteq Nat /\ phase \in Nat
    BY PhaseTypes
  <1>1. CASE phase = 0
    <2>1. PICK w \in Clients : AdvancePhase(w)
      BY <1>1, PhaseMoves
    <2>2. AllMapped /\ sourceDone
      BY <1>1, <2>1, MapsAdvancing DEF FinishedInv, AdvancePhase
    <2>3. MapTasks' = MapTasks /\ \A t \in MapTasks : Settled(0, t)'
      BY <1>1, <2>2, AllMappedStays
    <2>4. \A t \in Nat \ MapTasks : Untouched(0, t)'
      <3>1. Others(w) /\ ~Busy(w)'
        BY <2>1, AdvanceTypes
      <3>2. \A v \in Clients : \A t : On(v, 0, t)' => On(v, 0, t)
        BY <3>1 DEF Others, On, Busy
      <3>3. \A v \in Clients : \A t : On(v, 0, t) => t \in MapTasks
        BY TaskTypes DEF On
      <3> QED
        BY <3>2, <3>3 DEF Untouched
    <2> QED
      BY <2>3, <2>4 DEF Settled
  <1>2. CASE phase > 0
    <2>1. \A t \in MapTasks : Complete(0, t)
      BY <1>2 DEF FinishedInv, MapOver
    <2>2. \A t \in Nat : Untouched(0, t)
      BY <1>2 DEF FinishedInv, MapOver
    <2>3. MapTasks' = MapTasks
      BY <1>2, MapTasksFixed
    <2>4. \A t \in MapTasks : Complete(0, t)'
      BY <1>0, <1>2, <2>1, <2>2, StaysSettled DEF Settled
    <2>5. ASSUME NEW t \in Nat PROVE Untouched(0, t)'
      <3> SUFFICES ASSUME NEW v \in Clients, On(v, 0, t)' PROVE FALSE
        BY DEF Untouched
      <3>1. CASE \A w \in Clients, s \in PhaseTasks : ~Dispatch(w, s)
        BY <2>2, <3>1, JobsKept DEF KeepsJobs, On, SameJob, Busy, Untouched
      <3>2. ASSUME NEW w \in Clients, NEW s \in PhaseTasks, Dispatch(w, s) PROVE FALSE
        <4>1. Others(w) /\ exec'[w].phase = phase
          BY <3>2, DispatchTypes
        <4> QED
          BY <1>2, <2>2, <4>1 DEF Others, On, Busy, Untouched
      <3> QED
        BY <3>1, <3>2
    <2> QED
      BY <2>3, <2>4, <2>5
  <1> QED
    BY <1>0, <1>1, <1>2

LEMMA ReduceCountedStep ==
  ASSUME DataInv, SourceTypeOK', [Next]_vars, mishaps' = {}, JobsInv, FinishedInv
  PROVE  ReduceCounted'
  <1> SUFFICES ASSUME NEW b \in Buckets, Reduced(b)'
               PROVE  Settled(1, b)' /\ (phase' = 1 => b \in gone')
    BY DEF ReduceCounted, Buckets
  <1>0. b \in Nat /\ phase \in Nat
    BY PhaseTypes
  <1>1. CASE Reduced(b)
    <2>1. Settled(1, b) /\ (phase = 1 => b \in gone) /\ phase > 0
      BY <1>0, <1>1 DEF FinishedInv, MapCounted, ReduceCounted
    <2>2. \A w \in Clients : Dispatch(w, b) => phase # 1
      BY <2>1, GoneStays
    <2>3. Settled(1, b)'
      BY <1>0, <2>1, <2>2, StaysSettled
    <2>4. ASSUME phase' = 1 PROVE b \in gone'
      <3>1. phase = 1
        BY <1>0, <2>1, <2>4, PhaseMoves
      <3> QED
        BY <2>1, <2>4, <3>1, GoneStays
    <2> QED
      BY <2>3, <2>4
  <1>2. CASE ~Reduced(b)
    <2>1. PICK w \in Clients : CompleteTask(w) /\ exec[w].task = b /\ phase = 1
      BY <1>2, ReducedMoves
    <2> QED
      BY <2>1, Completing
  <1> QED
    BY <1>1, <1>2

LEMMA FinishedStep ==
  ASSUME DataInv, SourceTypeOK', JobsInv, FinishedInv, mishaps' = {},
         \A f \in failed' : f[1] # 0, [Next]_vars
  PROVE  FinishedInv'
  BY MapCountedStep, MapOverStep, ReduceCountedStep DEF FinishedInv

(***************************************************************************)
(* What is compacted                                                       *)
(***************************************************************************)
\* A compacter finds the reduced file whole, and takes all of it.
LEMMA CompacterReads ==
  ASSUME DataInv, FinishedInv, NEW w \in Compacters, NEW b \in reduction,
         exec[w].phase = 2, exec[w].task = b,
         NEW got \in Input(Stages[exec[w].phase + 1], exec[w].task)
  PROVE  got = MapTasks
  <1>1. b \in Nat
    BY BucketIds DEF DataInv, DataTypes, TypeOK
  <1>2. ReduceFile(b) \in OutputsOf(1, b)
    BY <1>1, BucketFiles
  <1>3. /\ Exists(ReduceFile(b)) /\ files[ReduceFile(b)].closed
        /\ files[ReduceFile(b)].got = MapTasks
    <2>1. Complete(1, b)
      BY DEF FinishedInv, ReduceCounted, Reduced, Settled, DataInv, DataTypes, TypeOK
    <2> QED
      BY <1>2, <2>1 DEF Complete, Full
  <1>4. got \in Found(ReduceFile(b))
    BY StageNames DEF Input
  <1> QED
    BY <1>3, <1>4 DEF Found

\* A compacter's own steps.
LEMMA CompactsOwn ==
  ASSUME CompactionInv, SourceTypeOK', FinishedInv, [Next]_vars, mishaps' = {},
         NEW w \in Compacters, NEW b \in Buckets, CompactsAll(w, b), Compacts(w, b),
         Execute(w) \/ Report(w) \/ Crash(w), ~UpsertKey(w)
  PROVE  CompactsAll(w, b)'
  <1> SUFFICES ASSUME Compacts(w, b)' PROVE CompactsAll(w, b)'
    BY DEF CompactsAll
  <1>0. DataInv /\ CompactInv /\ w \in Clients /\ CompactOf(w, b)
    BY DEF CompactionInv, CompactInv, Clients
  <1>1. /\ exec[w].phase = 2 /\ exec[w].task = b /\ b \in reduction /\ Busy(w)
        /\ b \in reduction'
    BY MishapsStay DEF Compacts, On, CompactsAll
  <1>2. MapTasks' = MapTasks
    BY <1>0, ClientStep
  <1>3. CASE exec'[w].at \notin {"create", "write", "rename"}
    BY <1>1, <1>3 DEF CompactsAll
  <1>4. CASE ReadInput(w)
    <2>1. exec'[w].at = "create" /\ exec'[w].got \in Input(Stages[exec[w].phase + 1], exec[w].task)
      BY <1>0, <1>1, <1>4, ReadTypes
    <2>2. exec'[w].got = MapTasks
      BY <1>0, <1>1, <2>1, CompacterReads
    <2> QED
      BY <1>1, <1>2, <2>1, <2>2 DEF CompactsAll
  <1>5. CASE CreateFile(w)
    <2>1. At(w, "create") /\ exec'[w].at = "write" /\ exec'[w].got = exec[w].got
      BY <1>0, <1>5, CreateTypes
    <2>2. exec[w].todo = {TmpFile(b)} /\ exec[w].got = MapTasks
      BY <1>0, <2>1 DEF CompactOf, CompactsAll, At
    <2>3. files' = Put(files, TmpFile(b), File(w, FALSE, exec[w].got))
      BY <1>0, <1>5, <2>2, CreateTypes
    <2>4. files'[TmpFile(b)] = File(w, FALSE, exec[w].got)
      BY <2>3 DEF Put
    <2>5. files'[TmpFile(b)].got = MapTasks
      BY <2>2, <2>4 DEF File
    <2> QED
      BY <1>1, <1>2, <2>1, <2>2, <2>5 DEF CompactsAll, TmpFile
  <1>6. CASE WriteFile(w)
    <2>0. exec[w].got \in SUBSET exec[w].got /\ WritesOut(w, exec[w].got)
      BY <1>6, WritesAll
    <2>1. At(w, "write") /\ exec'[w].got = exec[w].got
      BY <1>0, <2>0, WritingOut
    <2>2. TmpOf(w, b) /\ exec[w].got = MapTasks /\ files[TmpFile(b)].got = MapTasks
      BY <1>0, <2>1 DEF CompactOf, CompactsAll, At
    <2>3. TmpFile(b) \in DOMAIN files /\ files[TmpFile(b)].got \subseteq exec[w].got
      BY <2>2 DEF TmpOf, Exists
    <2>4. files'[TmpFile(b)].got = MapTasks
      BY <1>0, <2>0, <2>2, <2>3, WritingOut
    <2> QED
      BY <1>1, <1>2, <2>1, <2>2, <2>4 DEF CompactsAll, TmpFile
  <1>7. CASE WriteFails(w) \/ Rename(w)
    BY <1>0, <1>3, <1>7, WriteFailsTypes, RenameTypes
  <1>8. CASE Report(w) \/ Crash(w)
    <2>1. ~Busy(w)'
      BY <1>0, <1>8, RestTypes DEF Report, Rests
    <2> QED
      BY <2>1 DEF Compacts, On
  <1>10. ~(ReadShort(w) \/ WriteShort(w))
    BY DEF ReadShort, WriteShort, Fault
  <1>9. CASE SkipExecution(w) \/ FailAtStart(w) \/ LastUpsert(w) \/ UpsertFails(w) \/ MarkSinkDone(w)
    BY <1>0, <1>3, <1>9, GoTypes
  <1> QED
    BY <1>4, <1>5, <1>6, <1>7, <1>8, <1>9, <1>10 DEF Execute

\* A compacter's part, as another client takes a step.
LEMMA CompactsKept ==
  ASSUME CompactionInv, SourceTypeOK', [Next]_vars,
         NEW v \in Compacters, NEW b \in Buckets, CompactsAll(v, b), exec'[v] = exec[v],
         Compacts(v, b) => Same(TmpFile(b))
  PROVE  CompactsAll(v, b)'
  <1> SUFFICES ASSUME Compacts(v, b)' PROVE CompactsAll(v, b)'
    BY DEF CompactsAll
  <1>0. DataInv /\ v \in Clients /\ CompactOf(v, b)
    BY DEF CompactionInv, CompactInv, Clients
  <1>1. Compacts(v, b) /\ b \in reduction'
    BY MishapsStay DEF Compacts, On, Busy, CompactsAll
  <1>2. MapTasks' = MapTasks
    <2>1. phase > 0
      BY <1>0, <1>1, TaskTypes, PhaseTypes DEF Compacts, On
    <2> QED
      BY <1>0, <2>1, MapTasksFixed
  <1>3. exec[v].at \in {"write", "rename"} => Exists(TmpFile(b))
    BY <1>0, <1>1 DEF CompactOf, TmpOf, At
  <1> QED
    BY <1>1, <1>2, <1>3 DEF CompactsAll, Same, TmpFile

LEMMA BucketsStep ==
  ASSUME CompactionInv, SourceTypeOK', FinishedInv, BucketsInv, mishaps' = {}, [Next]_vars
  PROVE  BucketsInv'
  <1>0. DataInv /\ OneCompacter /\ CompactInv /\ Buckets' = Buckets /\ phase \in Nat
    BY PhaseTypes DEF CompactionInv, Buckets
  <1>1. ASSUME NEW v \in Compacters, NEW b \in Buckets PROVE CompactsAll(v, b)'
    <2>0. CompactsAll(v, b) /\ v \in Clients
      BY DEF BucketsInv, Clients
    <2>1. ASSUME exec'[v] = exec[v], files' = files PROVE CompactsAll(v, b)'
      BY <2>0, <2>1, SameFiles, CompactsKept
    <2>2. CASE Source \/ (\E t \in PhaseTasks : GiveUp(t)) \/ UNCHANGED vars
      BY <2>1, <2>2 DEF Source, GiveUp, vars
    <2>5. ASSUME NEW w \in Clients, FindPhaseComplete(w) \/ AdvancePhase(w)
          PROVE  CompactsAll(v, b)'
      <3>1. Others(w) /\ ~Busy(w)'
        BY <1>0, <2>5, RestTypes, AdvanceTypes DEF Rests
      <3>2. files' = files
        BY <2>5 DEF FindPhaseComplete, AdvancePhase
      <3>3. CASE v = w
        BY <3>1, <3>3 DEF CompactsAll, Compacts, On
      <3>4. CASE v # w
        BY <2>0, <2>1, <3>1, <3>2, <3>4 DEF Others
      <3> QED
        BY <3>3, <3>4
    <2>3. ASSUME NEW t \in PhaseTasks, NEW w \in Clients, Dispatch(w, t) PROVE CompactsAll(v, b)'
      <3>1. /\ Others(w) /\ files' = files /\ exec'[w].at = "start" /\ exec'[w].phase = phase
            /\ exec'[w].task = t /\ reduction' = reduction
        BY <1>0, <2>3, DispatchTypes
      <3>2. CASE v # w
        BY <2>0, <2>1, <3>1, <3>2 DEF Others
      <3>3. CASE v = w
        <4> SUFFICES ASSUME Compacts(w, b)' PROVE CompactsAll(w, b)'
          BY <3>3 DEF CompactsAll
        <4>1. phase = 2 /\ t = b
          BY <3>1 DEF Compacts, On
        <4>2. b \in reduction
          BY <2>3, <3>3, <4>1, StageNames DEF Dispatch, Offered, Stage
        <4> QED
          BY <3>1, <4>2 DEF CompactsAll
      <3> QED
        BY <3>2, <3>3
    <2>4. ASSUME NEW w \in Clients, Execute(w) \/ Report(w) \/ Crash(w) PROVE CompactsAll(v, b)'
      <3>1. CASE UpsertKey(w)
        BY <1>0, <2>1, <3>1, UpsertTypes
      <3>2. CASE ~UpsertKey(w) /\ v = w
        <4>1. CASE Compacts(w, b)
          BY <2>0, <2>4, <3>2, <4>1, CompactsOwn
        <4>2. CASE ~Compacts(w, b)
          <5>2. ~Compacts(w, b)'
            BY <1>0, <2>4, <4>2, ClientStep DEF Compacts, On, SameJob
          <5> QED
            BY <3>2, <5>2 DEF CompactsAll
        <4> QED
          BY <4>1, <4>2
      <3>3. CASE ~UpsertKey(w) /\ v # w
        <4>1. exec'[v] = exec[v]
          BY <1>0, <2>0, <2>4, <3>3, ClientStep DEF Others
        <4>2. CASE files' = files
          BY <2>1, <4>1, <4>2
        <4>3. CASE CreateFile(w) \/ WriteFile(w) \/ WriteShort(w) \/ WriteFails(w) \/ Rename(w)
          BY <1>0, <2>0, <3>3, <4>1, <4>3, OthersBucket, CompactsKept
        <4> QED
          BY <1>0, <2>4, <4>2, <4>3, ClientStep
      <3> QED
        BY <3>1, <3>2, <3>3
    <2> QED
      BY <2>2, <2>3, <2>4, <2>5 DEF Next, Schedule
  <1>2. ASSUME NEW b \in Buckets PROVE CompactedOf(b)'
    <2> SUFFICES ASSUME GroupByFile(b) \in DOMAIN files'
                 PROVE  phase' >= 2 /\ files'[GroupByFile(b)].got = MapTasks'
      BY DEF CompactedOf, Exists, GroupByFile
    <2>1. phase >= 2 /\ files'[GroupByFile(b)].got = MapTasks
      <3>1. CASE Same(GroupByFile(b))
        BY <3>1 DEF Same, Exists, BucketsInv, CompactedOf, GroupByFile
      <3>2. CASE ~Same(GroupByFile(b))
        <4>1. PICK w \in Clients :
                 /\ Rename(w) /\ exec[w].task = b /\ exec[w].phase = 2 /\ w \in Compacters
                 /\ files'[GroupByFile(b)] = files[TmpFile(b)]
          BY <1>0, <3>2, CompactedOnce
        <4>2. exec[w].at = "rename" /\ Busy(w)
          BY <4>1 DEF Rename, At, Busy
        <4>3. Compacts(w, b)
          BY <4>1, <4>2 DEF Compacts, On
        <4>4. files[TmpFile(b)].got = MapTasks
          BY <4>1, <4>2, <4>3 DEF BucketsInv, CompactsAll
        <4>5. phase >= 2
          BY <1>0, <4>1, <4>2, TaskTypes
        <4> QED
          BY <4>1, <4>4, <4>5
      <3> QED
        BY <3>1, <3>2
    <2>2. MapTasks' = MapTasks
      BY <1>0, <2>1, MapTasksFixed
    <2>3. phase' >= 2
      BY <1>0, <2>1, PhaseMoves
    <2> QED
      BY <2>1, <2>2, <2>3
  <1> QED
    BY <1>0, <1>1, <1>2 DEF BucketsInv

LEMMA CleanInitInv == Init => CleanInv
  <1> SUFFICES ASSUME Init PROVE JobsInv /\ FinishedInv /\ BucketsInv
    BY DEF CleanInv
  <1>1. \A w \in Clients : ~Busy(w)
    BY DEF Init, Idle, Waiting, Busy
  <1>2. \A path : ~Exists(path)
    BY DEF Init, Exists
  <1>3. phase = 0 /\ phaseDone = 0 /\ gone = {} /\ reduction = {}
        /\ \A w \in Clients : ~At(w, "reduced") /\ ~At(w, "advance")
    BY DEF Init, Idle, Waiting, At
  <1>4. JobsInv
    BY <1>1, <1>2 DEF JobsInv, JobInv, On, Absent
  <1>5. FinishedInv
    <2>1. Counted
      BY <1>3, FS_EmptySet DEF Counted
    <2>2. \A b : ~Reduced(b)
      BY <1>3 DEF Reduced
    <2> QED
      BY <1>2, <1>3, <2>1, <2>2 DEF FinishedInv, MapCounted, MapOver, ReduceCounted, Absent
  <1>6. BucketsInv
    BY <1>1, <1>2 DEF BucketsInv, CompactsAll, CompactedOf, Compacts, On, Clients
  <1> QED
    BY <1>4, <1>5, <1>6

LEMMA CleanStepInv ==
  ASSUME CompactionInv, CleanInv, SourceTypeOK', [Next]_vars
  PROVE  CleanInv'
  <1> SUFFICES ASSUME Clean' PROVE (JobsInv /\ FinishedInv /\ BucketsInv)'
    BY DEF CleanInv
  <1>1. mishaps' = {} /\ \A f \in failed' : f[1] # 0
    BY DEF Clean
  <1>2. Clean
    BY <1>1, MishapsStay DEF Clean
  <1>3. JobsInv /\ FinishedInv /\ BucketsInv /\ DataInv
    BY <1>2 DEF CleanInv, CompactionInv
  <1> QED
    BY <1>1, <1>3, JobsStep, FinishedStep, BucketsStep

\* From the chunks of the source to the documents of the sink (worker.go mapErr,
\* reduceErr, sinkErr, compacter.go groupByErr): without a mishap (see Mishaps) and with
\* no map task given up, a compacted file and the documents of an audited bucket hold
\* the records of every chunk, whatever crashes, fails, is retried or answers late.
THEOREM NoGapInTheData == Spec => []EndToEnd
  <1> DEFINE Inv == CompactionInv /\ SinkInv /\ CleanInv
  <1>1. Init => Inv
    BY CompactionInitInv, SinkInitInv, CleanInitInv
  <1>2. Inv /\ [Next]_vars => Inv'
    <2> SUFFICES ASSUME CompactionInv, SinkInv, CleanInv, [Next]_vars PROVE Inv'
      OBVIOUS
    <2>1. CompactionInv' /\ SourceTypeOK'
      BY CompactionStepInv DEF CompactionInv, DataInv, SourceInv
    <2> QED
      BY <2>1, SinkStep, CleanStepInv
  <1>3. Inv => EndToEnd
    <2> SUFFICES ASSUME CompactionInv, SinkInv, CleanInv, Clean
                 PROVE  /\ \A b \in Buckets : Exists(GroupByFile(b)) =>
                              files[GroupByFile(b)].got = MapTasks
                        /\ \A b \in sinkResult : sunk[b] = MapTasks
                        /\ phase > 0 => tasks = pushed
      BY DEF EndToEnd, Clean
    <2>1. DataInv /\ BucketsInv /\ sinkResult \subseteq Buckets
      BY DEF CleanInv, CompactionInv, DataInv, DataTypes, TypeOK
    <2>2. \A b \in Buckets : Exists(GroupByFile(b)) => files[GroupByFile(b)].got = MapTasks
      BY <2>1 DEF BucketsInv, CompactedOf
    <2>3. \A b \in sinkResult : sunk[b] = MapTasks
      <3>1. AllRead
        BY DEF AllRead, Clean
      <3> QED
        BY <2>1, <2>2, <3>1 DEF SinkInv, AuditOf
    <2>4. phase > 0 => tasks = pushed
      BY <2>1, SourceInvImplies DEF DataInv, DataTypes, NoChunkLeft
    <2> QED
      BY <2>2, <2>3, <2>4
  <1> HIDE DEF Inv
  <1> QED
    BY <1>1, <1>2, <1>3, PTL DEF Spec
==============================================================================
