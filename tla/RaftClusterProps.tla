-------------------------- MODULE RaftClusterProps --------------------------
(***************************************************************************)
(* What holds at every node of the cluster, and what is claimed of it.     *)
(***************************************************************************)
EXTENDS RaftCluster

(***************************************************************************)
(* Types                                                                   *)
(***************************************************************************)
Positions == 0..Len(log)

IsTask(t) == /\ DOMAIN t = DOMAIN NoTask
             /\ t.obj \in Positions /\ t.DispatchedAt \in Positions
             /\ t.Retries \in 0..(maxRetries - 1)

\* Every variable is in the type its use gives it; a task that is queued has no
\* dispatch token, one in flight has, and TaskIds tell those in flight apart.
TypeOK ==
    /\ leader \in Nodes \cup {NoNode}
    /\ \A n \in Nodes :
          /\ applied[n] \in Positions
          /\ phaseDone[n] \in Nat /\ failedTasks[n] \in 0..phaseDone[n]
          /\ ProcessAction[n] \in {NoJob, Job}
          /\ \A t \in JobStatus[n] : IsTask(t) /\ t.DispatchedAt = 0
          /\ \A t \in inFlight[n] : IsTask(t) /\ t.DispatchedAt > 0
          /\ Cardinality(inFlight[n]) = Cardinality(Ids(inFlight[n]))
          /\ snap[n].index <= snap[n].upto /\ spoiled[n] \subseteq Mishaps
    /\ \A c \in Workers :
          /\ IsTask(hand[c])
          /\ at[c] \in Nodes <=> pc[c] \in Proposing
          /\ wait[c] \in Positions \cup {Failed}
    /\ \A what \in DOMAIN Budget : spent[what] \in 0..Budget[what]

(***************************************************************************)
(* The replicated part of the state                                        *)
(***************************************************************************)
\* The entries of a type among the first k of L.
Entries(L, k, type) == {i \in 1..k : L[i].type = type}

\* The entries since the last CmdAdvancePhase.
ThisPhase(L, k) == {i \in 1..k : \A j \in Entries(L, k, "AdvancePhase") : j < i}

FollowsLog(L, k, phase, completed, failed, tasks, uuids) ==
    /\ phase = Cardinality(Entries(L, k, "AdvancePhase"))
    /\ tasks = Cardinality(Entries(L, k, "EnqueueTask"))
    /\ completed = failed + Cardinality(Entries(L, k, "CompleteTask") \cap ThisPhase(L, k))
    /\ \A p \in 1..phase : /\ uuids[p] \in Entries(L, k, "AdvancePhase")
                          /\ Cardinality(Entries(L, uuids[p], "AdvancePhase")) = p

\* Whatever a node has been through - snapshots, a restart, entries applied twice over
\* a restored state, a snapshot of another node's, its own sweeps - phase, UUIDs and
\* counts are those of the entries it has applied: replicas agree on them, except for
\* the tasks each gave up by itself.
ReplicaFollowsLog ==
    \A n \in Nodes : FollowsLog(log, applied[n], phaseIdx[n], phaseDone[n], failedTasks[n],
                                NumTasks[n], phaseUUIDs[n])

(***************************************************************************)
(* Tasks, outside the log                                                  *)
(***************************************************************************)
CaughtUp(n) == applied[n] >= replayTo[n]

\* Tasks of the current phase that the log has enqueued and not completed.
Open(n) == {i \in Entries(log, applied[n], "EnqueueTask") \cap ThisPhase(log, applied[n]) :
                \A k \in Entries(log, applied[n], "CompleteTask") :
                    k > i => log[k].task.TaskId # log[i].task.TaskId}

\* No replica forgets a task: one that is open in the log is in the replica's queue, in
\* its inFlight or in the hands of one of its handlers, or counted as failed - also
\* after a restart from a snapshot whose parts are of different moments, once the
\* entries up to the last of them are applied again. This is what a new leader needs to
\* go on. It takes that no Mishap has dropped a record.
NothingForgotten ==
    \A n \in Nodes :
        "Dropped" \notin spoiled[n] /\ CaughtUp(n)
        => Cardinality({log[i].task.TaskId : i \in Open(n)}
                          \ Ids(JobStatus[n] \cup inFlight[n] \cup HeldAt(n))) <= failedTasks[n]

\* "A task dispatched before a crash is not re-dispatched by the new leader after
\* restore": no replica has one task both queued and in flight, whichever of dequeue,
\* sweep, dispatch and replay came first. It takes that no failed proposal has put a
\* dispatched task back.
NotQueuedInFlight ==
    \A n \in Nodes :
        "Doubled" \notin spoiled[n] /\ CaughtUp(n)
        => Objs(JobStatus[n]) \cap Objs(inFlight[n]) = {}

\* ARCHITECTURE.md: after a leader crash "Raft elects new leader; resumes from BoltDB
\* WAL + snapshot". A leader that has applied tasks of the job has its pipeline.
LeaderKnowsJob ==
    \A n \in Nodes : leader = n /\ Entries(log, applied[n], "EnqueueTask") # {}
                        => ProcessAction[n] # NoJob
=============================================================================
