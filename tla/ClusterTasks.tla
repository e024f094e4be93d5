---------------------------- MODULE ClusterTasks ----------------------------
(***************************************************************************)
(* Where the tasks are on the nodes of a cluster: no replica forgets one,  *)
(* and none has one both queued and in flight, through sweeps, failing     *)
(* proposals, changes of leader, and restarts from snapshots whose queue   *)
(* and inFlight are of different moments.                                  *)
(*                                                                         *)
(* A restored node is put right by the entries that it applies again. So   *)
(* the invariant looks ahead: it speaks of the log up to the node's        *)
(* horizon, the last entry whose effect its inFlight may already show. It  *)
(* says the same of a node, of a stored snapshot, and of the snapshot that *)
(* would be stored if Persist came now.                                    *)
(***************************************************************************)
EXTENDS ClusterProofs

(***************************************************************************)
(* Tasks and the entries that made them                                    *)
(***************************************************************************)
TypedTask(L, t) ==
    /\ DOMAIN t = DOMAIN NoTask
    /\ t.obj \in 0..Len(L) /\ t.DispatchedAt \in 0..Len(L)
    /\ t.Retries \in 0..(maxRetries - 1)

\* t was made by a CmdEnqueueTask, and has kept its id since.
MadeBy(L, t) == /\ t.obj \in 1..Len(L)
                /\ L[t.obj].type = "EnqueueTask"
                /\ L[t.obj].task.TaskId = t.TaskId

QueuedTask(L, t) == TypedTask(L, t) /\ MadeBy(L, t) /\ t.DispatchedAt = 0

Dispatches(e, obj) == e.type = "DispatchTask" /\ e.task.obj = obj

\* Its token is the entry that dispatched it.
SentTask(L, t) ==
    /\ TypedTask(L, t) /\ MadeBy(L, t)
    /\ t.DispatchedAt > t.obj /\ Dispatches(L[t.DispatchedAt], t.obj)

SentTasks(L, F) == /\ \A t \in F : SentTask(L, t)
                   /\ \A s, t \in F : s.TaskId = t.TaskId => s = t

GoodEntry(L, i) ==
    /\ L[i].type = "EnqueueTask" => TypedTask(L, L[i].task) /\ L[i].task.DispatchedAt = 0
    /\ L[i].type = "DispatchTask" => /\ TypedTask(L, L[i].task) /\ MadeBy(L, L[i].task)
                                     /\ L[i].task.obj < i

GoodLog(L) == \A i \in 1..Len(L) : GoodEntry(L, i)

(***************************************************************************)
(* Open tasks                                                              *)
(***************************************************************************)
\* An entry after which the task id is no longer open.
Closes(e, id) == \/ e.type = "AdvancePhase"
                 \/ e.type = "CompleteTask" /\ e.task.TaskId = id

Closed(L, id, lo, hi) == \E j \in (lo + 1)..hi : Closes(L[j], id)

\* The ids enqueued by entry k and not closed by entry h.
OpenTo(L, k, h) ==
    {i \in Entries(L, k, "EnqueueTask") : ~Closed(L, L[i].task.TaskId, i, h)}

OpenIds(L, k, h) == {L[i].task.TaskId : i \in OpenTo(L, k, h)}

Later(k, r) == IF r > k THEN r ELSE k

(***************************************************************************)
(* The invariant                                                           *)
(***************************************************************************)
\* Whatever is in both places is about to be dispatched, by an entry applied again.
Apart(L, J, F, k, r) ==
    \A o \in Objs(J) \cap Objs(F) : \E d \in (k + 1)..r : Dispatches(L[d], o)

\* Of the ids that stay open, all are found save as many as have been given up.
Kept(L, k, h, found, failed) == Cardinality(OpenIds(L, k, h) \ Ids(found)) <= failed

\* A node, or a snapshot, that has applied k entries, with queue J, inFlight F, and H
\* in its handlers' hands. Its inFlight may show effects of entries up to r.
GoodTasks(L, k, r, failed, J, F, H, mishaps) ==
    /\ r \in 0..Len(L)
    /\ \A t \in J : QueuedTask(L, t)
    /\ SentTasks(L, F)
    /\ \A t \in F : t.DispatchedAt <= Later(k, r)
    /\ mishaps \subseteq Mishaps
    /\ "Doubled" \notin mishaps => Apart(L, J, F, k, r)
    /\ "Dropped" \notin mishaps => Kept(L, k, Later(k, r), J \cup F \cup H, failed)

\* What handlers at n hold, until the command is applied that moves it elsewhere.
Holds(c, n) == /\ at[c] = n /\ hand[c].obj # 0
               /\ \/ pc[c] = "fail"
                  \/ pc[c] \in {"dispatch", "complete"} /\ ~Answered(n, wait[c])

Holding(n) == {hand[c] : c \in {d \in Workers : Holds(d, n)}}

NodeTasks(n) == GoodTasks(log, applied[n], replayTo[n], failedTasks[n], JobStatus[n],
                          inFlight[n], Holding(n), spoiled[n])

StoredTasks(L, s) ==
    /\ {"upto", "JobStatus", "spoiled"} \subseteq DOMAIN s
    /\ s.index <= s.upto
    /\ GoodTasks(L, s.index, s.upto, s.failedTasks, s.JobStatus, s.inFlight, {}, s.spoiled)

Horizon(n) == Later(applied[n], replayTo[n])

\* The snapshot under way, as it would be stored now.
TakenTasks(n) ==
    /\ {"upto", "JobStatus", "spoiled", "live"} \subseteq DOMAIN taking[n]
    /\ taking[n].index <= applied[n]
    /\ taking[n].index > snap[n].index =>
          GoodTasks(log, taking[n].index, Horizon(n), taking[n].failedTasks,
                    taking[n].JobStatus, PersistedInFlight(n), {}, taking[n].spoiled)

AllTasks(n) == /\ NodeTasks(n) /\ StoredTasks(log, snap[n])
               /\ taking[n] # NoSnapshot => TakenTasks(n)

\* The handler of c, and the command it has proposed.
HandlerTask(c) ==
    /\ pc[c] \in Proposing \cup {"idle", "run"}
    /\ at[c] \in Nodes <=> pc[c] \in Proposing
    /\ wait[c] \in 0..Len(log) \cup {Failed}
    /\ TypedTask(log, hand[c])
    /\ pc[c] = "dispatch" => QueuedTask(log, hand[c])
    /\ pc[c] = "dispatch" /\ wait[c] > 0 =>
          log[wait[c]].type = "DispatchTask" /\ log[wait[c]].task.TaskId = hand[c].TaskId
    /\ pc[c] = "complete" /\ wait[c] > 0 =>
          log[wait[c]].type = "CompleteTask" /\ log[wait[c]].task.TaskId = hand[c].TaskId

TasksPerNode ==
    /\ DOMAIN replayTo = Nodes /\ DOMAIN JobStatus = Nodes /\ DOMAIN spoiled = Nodes
    /\ DOMAIN pc = Workers /\ DOMAIN at = Workers /\ DOMAIN hand = Workers
    /\ DOMAIN wait = Workers

TaskInv ==
    /\ GoodLog(log)
    /\ TasksPerNode
    /\ \A n \in Nodes : AllTasks(n)
    /\ \A c \in Workers : HandlerTask(c)

(***************************************************************************)
(* The log only grows                                                      *)
(***************************************************************************)
Grown(L, M) == /\ Len(L) \in Nat /\ Len(M) \in Nat /\ Len(L) <= Len(M)
               /\ \A i \in 1..Len(L) : M[i] = L[i]

LEMMA TaskGrows ==
  ASSUME NEW L, NEW M, Grown(L, M), NEW t
  PROVE  /\ TypedTask(L, t) => TypedTask(M, t)
         /\ MadeBy(L, t) => MadeBy(M, t)
         /\ QueuedTask(L, t) => QueuedTask(M, t)
         /\ SentTask(L, t) => SentTask(M, t)
  <1>1. TypedTask(L, t) => TypedTask(M, t)
    BY DEF Grown, TypedTask
  <1>2. MadeBy(L, t) => MadeBy(M, t)
    BY DEF Grown, MadeBy
  <1>3. SentTask(L, t) => SentTask(M, t)
    <2> SUFFICES ASSUME SentTask(L, t) PROVE SentTask(M, t)
      OBVIOUS
    <2>1. t.DispatchedAt \in 1..Len(L)
      BY DEF SentTask, TypedTask, MadeBy, Grown
    <2>2. M[t.DispatchedAt] = L[t.DispatchedAt]
      BY <2>1 DEF Grown
    <2> QED
      BY <1>1, <1>2, <2>2 DEF SentTask
  <1> QED
    BY <1>1, <1>2, <1>3 DEF QueuedTask

\* What is open by an entry that is in the log does not depend on later ones.
LEMMA OpenGrows ==
  ASSUME NEW L, NEW M, Grown(L, M), NEW k \in 0..Len(L), NEW h \in 0..Len(L)
  PROVE  OpenIds(M, k, h) = OpenIds(L, k, h)
  <1>1. Entries(M, k, "EnqueueTask") = Entries(L, k, "EnqueueTask")
    BY DEF Entries, Grown
  <1>2. \A i \in 1..k : M[i] = L[i]
    BY DEF Grown
  <1>3. ASSUME NEW i \in 1..k, NEW id
        PROVE  Closed(M, id, i, h) <=> Closed(L, id, i, h)
    <2>1. \A j \in (i + 1)..h : M[j] = L[j]
      BY DEF Grown
    <2> QED
      BY <2>1 DEF Closed
  <1>4. Entries(L, k, "EnqueueTask") \subseteq 1..k
    BY DEF Entries
  <1>5. OpenTo(M, k, h) = OpenTo(L, k, h)
    BY <1>1, <1>2, <1>3, <1>4 DEF OpenTo
  <1>6. OpenTo(L, k, h) \subseteq 1..k
    BY <1>4 DEF OpenTo
  <1> QED
    BY <1>2, <1>5, <1>6 DEF OpenIds

LEMMA LaterType ==
  ASSUME NEW k \in Nat, NEW r \in Nat
  PROVE  /\ Later(k, r) \in Nat /\ k <= Later(k, r) /\ r <= Later(k, r)
         /\ Later(k, r) = k \/ Later(k, r) = r
  BY DEF Later

LEMMA GoodTasksGrow ==
  ASSUME NEW L, NEW M, Grown(L, M), NEW k \in 0..Len(L), NEW r, NEW failed,
         NEW J, NEW F, NEW H, NEW mishaps, GoodTasks(L, k, r, failed, J, F, H, mishaps)
  PROVE  GoodTasks(M, k, r, failed, J, F, H, mishaps)
  <1>1. r \in 0..Len(L) /\ Len(L) \in Nat /\ Len(M) \in Nat /\ Len(L) <= Len(M)
    BY DEF GoodTasks, Grown
  <1>2. r \in 0..Len(M) /\ Later(k, r) \in 0..Len(L)
    BY <1>1 DEF Later
  <1>3. /\ \A t \in J : QueuedTask(M, t)
        /\ SentTasks(M, F)
    BY TaskGrows DEF GoodTasks, SentTasks
  <1>4. Apart(L, J, F, k, r) => Apart(M, J, F, k, r)
    <2>1. \A d \in (k + 1)..r : M[d] = L[d]
      BY <1>1 DEF Grown
    <2> QED
      BY <2>1 DEF Apart
  <1>5. Kept(L, k, Later(k, r), J \cup F \cup H, failed)
           => Kept(M, k, Later(k, r), J \cup F \cup H, failed)
    <2>1. OpenIds(M, k, Later(k, r)) = OpenIds(L, k, Later(k, r))
      BY <1>2, OpenGrows
    <2> QED
      BY <2>1 DEF Kept
  <1> QED
    BY <1>2, <1>3, <1>4, <1>5 DEF GoodTasks

(***************************************************************************)
(* Open ids                                                                *)
(***************************************************************************)
LEMMA IdsFinite ==
  ASSUME NEW S, IsFiniteSet(S)
  PROVE  IsFiniteSet(Ids(S)) /\ Cardinality(Ids(S)) <= Cardinality(S)
  <1> DEFINE f == [t \in S |-> t.TaskId]
  <1>1. f \in Surjection(S, Ids(S))
    BY DEF Surjection, Ids
  <1> QED
    BY <1>1, FS_Surjection

LEMMA OpenFinite ==
  ASSUME NEW L, NEW k \in Nat, NEW h
  PROVE  IsFiniteSet(OpenIds(L, k, h))
  <1> DEFINE f == [i \in OpenTo(L, k, h) |-> L[i].task.TaskId]
  <1>1. IsFiniteSet(OpenTo(L, k, h))
    <2>1. OpenTo(L, k, h) \subseteq Entries(L, k, "EnqueueTask")
      BY DEF OpenTo
    <2> QED
      BY <2>1, EntriesFinite, FS_Subset
  <1>2. f \in Surjection(OpenTo(L, k, h), OpenIds(L, k, h))
    BY DEF Surjection, OpenIds
  <1> QED
    BY <1>1, <1>2, FS_Surjection

\* Looking further ahead, fewer ids stay open.
LEMMA OpenLess ==
  ASSUME NEW L, NEW k \in Nat, NEW h \in Nat, NEW h2 \in Nat, h <= h2
  PROVE  OpenIds(L, k, h2) \subseteq OpenIds(L, k, h)
  <1>1. \A i \in 1..k : \A id : Closed(L, id, i, h) => Closed(L, id, i, h2)
    BY DEF Closed
  <1>2. Entries(L, k, "EnqueueTask") \subseteq 1..k
    BY DEF Entries
  <1>3. OpenTo(L, k, h2) \subseteq OpenTo(L, k, h)
    BY <1>1, <1>2 DEF OpenTo
  <1> QED
    BY <1>3 DEF OpenIds

\* One more entry opens the id it enqueues, closes the id it completes, or closes all.
LEMMA OpenNext ==
  ASSUME NEW L, NEW k \in Nat, NEW h \in Nat, NEW h2 \in Nat, h <= h2, k + 1 <= h2
  PROVE  /\ L[k + 1].type = "EnqueueTask" =>
               OpenIds(L, k + 1, h2) \subseteq OpenIds(L, k, h) \cup {L[k + 1].task.TaskId}
         /\ L[k + 1].type # "EnqueueTask" => OpenIds(L, k + 1, h2) \subseteq OpenIds(L, k, h)
         /\ L[k + 1].type = "CompleteTask" => L[k + 1].task.TaskId \notin OpenIds(L, k + 1, h2)
         /\ L[k + 1].type = "AdvancePhase" => OpenIds(L, k + 1, h2) = {}
  <1>1. Entries(L, k + 1, "EnqueueTask") = IF L[k + 1].type = "EnqueueTask"
                                           THEN Entries(L, k, "EnqueueTask") \cup {k + 1}
                                           ELSE Entries(L, k, "EnqueueTask")
    BY EntriesNext
  <1>2. Entries(L, k, "EnqueueTask") \subseteq 1..k
    BY DEF Entries
  <1>3. \A i \in 1..k : \A id : Closed(L, id, i, h) => Closed(L, id, i, h2)
    BY DEF Closed
  <1>4. \A i \in OpenTo(L, k + 1, h2) : i \in OpenTo(L, k, h) \/ i = k + 1
    BY <1>1, <1>2, <1>3 DEF OpenTo
  <1>5. CASE L[k + 1].type = "EnqueueTask"
    BY <1>4, <1>5 DEF OpenIds
  <1>6. ASSUME L[k + 1].type # "EnqueueTask"
        PROVE  /\ OpenTo(L, k + 1, h2) \subseteq OpenTo(L, k, h)
               /\ OpenTo(L, k + 1, h2) \subseteq 1..k
    BY <1>1, <1>2, <1>3, <1>6 DEF OpenTo
  <1>7. ASSUME L[k + 1].type # "EnqueueTask" PROVE OpenIds(L, k + 1, h2) \subseteq OpenIds(L, k, h)
    BY <1>6, <1>7 DEF OpenIds
  <1>8. ASSUME NEW i \in 1..k, NEW id, Closes(L[k + 1], id) PROVE Closed(L, id, i, h2)
    <2>1. k + 1 \in (i + 1)..h2
      OBVIOUS
    <2> QED
      BY <1>8, <2>1 DEF Closed
  <1>9. ASSUME L[k + 1].type = "CompleteTask"
        PROVE  L[k + 1].task.TaskId \notin OpenIds(L, k + 1, h2)
    <2> SUFFICES ASSUME NEW i \in OpenTo(L, k + 1, h2), L[i].task.TaskId = L[k + 1].task.TaskId
                 PROVE  FALSE
      BY DEF OpenIds
    <2>1. i \in 1..k
      BY <1>6, <1>9
    <2>2. Closed(L, L[i].task.TaskId, i, h2)
      BY <1>8, <1>9, <2>1 DEF Closes
    <2> QED
      BY <2>2 DEF OpenTo
  <1>10. ASSUME L[k + 1].type = "AdvancePhase"
         PROVE  OpenIds(L, k + 1, h2) = {}
    <2> SUFFICES ASSUME NEW i \in OpenTo(L, k + 1, h2) PROVE FALSE
      BY DEF OpenIds
    <2>1. i \in 1..k
      BY <1>6, <1>10
    <2>2. Closed(L, L[i].task.TaskId, i, h2)
      BY <1>8, <1>10, <2>1 DEF Closes
    <2> QED
      BY <2>2 DEF OpenTo
  <1> QED
    BY <1>5, <1>7, <1>9, <1>10

\* Fewer missing.
LEMMA KeptLess ==
  ASSUME NEW L, NEW k \in Nat, NEW h, NEW found, NEW failed \in Nat,
         Kept(L, k, h, found, failed), NEW k2 \in Nat, NEW h2, NEW found2,
         OpenIds(L, k2, h2) \ Ids(found2) \subseteq OpenIds(L, k, h) \ Ids(found)
  PROVE  Kept(L, k2, h2, found2, failed)
  <1> DEFINE A == OpenIds(L, k, h) \ Ids(found)
             B == OpenIds(L, k2, h2) \ Ids(found2)
  <1>1. IsFiniteSet(A)
    <2>1. A \subseteq OpenIds(L, k, h)
      OBVIOUS
    <2> HIDE DEF A
    <2> QED
      BY <2>1, OpenFinite, FS_Subset
  <1>2. B \subseteq A /\ Cardinality(A) <= failed
    BY DEF Kept
  <1> HIDE DEF A, B
  <1>3. /\ Cardinality(B) <= Cardinality(A)
        /\ Cardinality(A) \in Nat /\ Cardinality(B) \in Nat
    BY <1>1, <1>2, FS_Subset, FS_CardinalityType
  <1>4. Cardinality(B) <= failed
    BY <1>2, <1>3
  <1> QED
    BY <1>4 DEF Kept, B

\* More found.
LEMMA KeptFound ==
  ASSUME NEW L, NEW k \in Nat, NEW h, NEW failed \in Nat, NEW found, NEW found2,
         Kept(L, k, h, found, failed), Ids(found) \subseteq Ids(found2)
  PROVE  Kept(L, k, h, found2, failed)
  <1>1. OpenIds(L, k, h) \ Ids(found2) \subseteq OpenIds(L, k, h) \ Ids(found)
    OBVIOUS
  <1> QED
    BY <1>1, KeptLess

(***************************************************************************)
(* What steps do to good tasks                                             *)
(***************************************************************************)
\* Tasks that come from one entry have one id.
LEMMA SameMaker ==
  ASSUME NEW L, NEW s, NEW t, MadeBy(L, s), MadeBy(L, t), s.obj = t.obj
  PROVE  s.TaskId = t.TaskId
  BY DEF MadeBy

\* Retrying a task keeps what it is, while it has retries.
LEMMA RetriedQueued ==
  ASSUME NEW L, NEW t, SentTask(L, t), ~Exhausted(t), Len(L) \in Nat
  PROVE  /\ QueuedTask(L, Retried(t)) /\ Retried(t).obj = t.obj
         /\ Retried(t).TaskId = t.TaskId
  <1> DEFINE u == [t EXCEPT !.Retries = @ + 1]
  <1>1. TypedTask(L, t) /\ MadeBy(L, t)
    BY DEF SentTask
  <1>2. maxRetries \in Nat
    BY ClusterAssumption
  <1>3. t.Retries + 1 \in 0..(maxRetries - 1)
    BY <1>1, <1>2 DEF TypedTask, Exhausted
  <1>4. /\ u.obj = t.obj /\ u.TaskId = t.TaskId /\ DOMAIN u = DOMAIN NoTask
        /\ u.Retries = t.Retries + 1
    BY <1>1 DEF TypedTask, NoTask
  <1> HIDE DEF u
  <1> DEFINE v == [u EXCEPT !.DispatchedAt = 0]
  <1>5. /\ v.obj = t.obj /\ v.TaskId = t.TaskId /\ DOMAIN v = DOMAIN NoTask
        /\ v.Retries = t.Retries + 1 /\ v.DispatchedAt = 0
    BY <1>4 DEF NoTask
  <1>6. v = Retried(t)
    BY DEF v, u, Retried, Undispatched
  <1> HIDE DEF v
  <1>7. QueuedTask(L, v) /\ v.obj = t.obj /\ v.TaskId = t.TaskId
    BY <1>1, <1>3, <1>5 DEF QueuedTask, TypedTask, MadeBy
  <1> QED
    BY <1>6, <1>7

\* A task put back as it is.
LEMMA UndispatchedQueued ==
  ASSUME NEW L, NEW t, QueuedTask(L, t), Len(L) \in Nat
  PROVE  /\ QueuedTask(L, Undispatched(t)) /\ Undispatched(t).obj = t.obj
         /\ Undispatched(t).TaskId = t.TaskId
  BY DEF QueuedTask, TypedTask, MadeBy, Undispatched, NoTask

LEMMA InPhaseQueued ==
  ASSUME NEW L, NEW t, QueuedTask(L, t), NEW p
  PROVE  /\ QueuedTask(L, [t EXCEPT !.PhaseIdx = p]) /\ [t EXCEPT !.PhaseIdx = p].obj = t.obj
         /\ [t EXCEPT !.PhaseIdx = p].TaskId = t.TaskId
  BY DEF QueuedTask, TypedTask, MadeBy, NoTask

\* Nothing is lost of what is found, and no more is in flight.
LEMMA GoodTasksMove ==
  ASSUME NEW L, NEW k \in Nat, NEW r, NEW failed \in Nat, NEW J, NEW F, NEW H, NEW mishaps,
         GoodTasks(L, k, r, failed, J, F, H, mishaps),
         NEW F2 \in SUBSET F, NEW H2, NEW J2 \in SUBSET J, NEW mishaps2 \in SUBSET Mishaps,
         mishaps \subseteq mishaps2,
         "Dropped" \notin mishaps2 => Ids(J \cup F \cup H) \subseteq Ids(J2 \cup F2 \cup H2)
  PROVE  GoodTasks(L, k, r, failed, J2, F2, H2, mishaps2)
  <1>1. "Doubled" \notin mishaps2 => Apart(L, J2, F2, k, r)
    BY DEF GoodTasks, Apart, Objs
  <1>2. ASSUME "Dropped" \notin mishaps2
        PROVE  Kept(L, k, Later(k, r), J2 \cup F2 \cup H2, failed)
    <2>1. Kept(L, k, Later(k, r), J \cup F \cup H, failed)
      BY <1>2 DEF GoodTasks
    <2>2. Ids(J \cup F \cup H) \subseteq Ids(J2 \cup F2 \cup H2)
      BY <1>2
    <2> QED
      BY <2>1, <2>2, KeptFound
  <1>3. (\A t \in J2 : QueuedTask(L, t)) /\ SentTasks(L, F2)
    BY DEF GoodTasks, SentTasks
  <1>4. r \in 0..Len(L) /\ \A t \in F2 : t.DispatchedAt <= Later(k, r)
    BY DEF GoodTasks
  <1> QED
    BY <1>1, <1>2, <1>3, <1>4 DEF GoodTasks

\* What leaves inFlight may be lost, when that is recorded.
LEMMA GoodTasksTorn ==
  ASSUME NEW L, NEW k \in Nat, NEW r, NEW failed \in Nat, NEW J, NEW F, NEW H, NEW mishaps,
         GoodTasks(L, k, r, failed, J, F, H, mishaps), NEW F2 \in SUBSET F, NEW H2
  PROVE  GoodTasks(L, k, r, failed, J, F2, H2, mishaps \cup {"Dropped"})
  <1> DEFINE mishaps2 == mishaps \cup {"Dropped"}
  <1>1. mishaps2 \in SUBSET Mishaps /\ "Dropped" \in mishaps2 /\ mishaps \subseteq mishaps2
    BY DEF GoodTasks, Mishaps
  <1>2. J \in SUBSET J
    OBVIOUS
  <1> HIDE DEF mishaps2
  <1>3. GoodTasks(L, k, r, failed, J, F2, H2, mishaps2)
    BY <1>1, <1>2, GoodTasksMove
  <1> QED
    BY <1>3 DEF mishaps2

\* A task is put back in the queue; if it is queued or in flight already, that is
\* recorded.
LEMMA GoodTasksPutBack ==
  ASSUME NEW L, NEW k \in Nat, NEW r, NEW failed \in Nat, NEW J, NEW F, NEW H, NEW mishaps,
         GoodTasks(L, k, r, failed, J, F, H, mishaps), Len(L) \in Nat,
         NEW t, QueuedTask(L, t), NEW H2,
         Ids(H) \subseteq Ids(H2) \cup {t.TaskId},
         NEW mishaps2,
         mishaps2 = mishaps \cup (IF t.obj \in Objs(F \cup J) THEN {"Doubled"} ELSE {})
  PROVE  GoodTasks(L, k, r, failed, J \cup {Undispatched(t)}, F, H2, mishaps2)
  <1> DEFINE u == Undispatched(t)
  <1>1. QueuedTask(L, u) /\ u.obj = t.obj /\ u.TaskId = t.TaskId
    BY UndispatchedQueued
  <1> HIDE DEF u
  <1>2. ASSUME "Doubled" \notin mishaps2 PROVE Apart(L, J \cup {u}, F, k, r)
    <2>1. "Doubled" \notin mishaps /\ t.obj \notin Objs(F)
      BY <1>2 DEF Objs
    <2>2. Apart(L, J, F, k, r)
      BY <2>1 DEF GoodTasks
    <2> QED
      BY <1>1, <2>1, <2>2 DEF Apart, Objs
  <1>3. ASSUME "Dropped" \notin mishaps2
        PROVE  Kept(L, k, Later(k, r), (J \cup {u}) \cup F \cup H2, failed)
    <2>1. Kept(L, k, Later(k, r), J \cup F \cup H, failed)
      BY <1>3 DEF GoodTasks
    <2>2. Ids(J \cup F \cup H) \subseteq Ids((J \cup {u}) \cup F \cup H2)
      BY <1>1 DEF Ids
    <2> QED
      BY <2>1, <2>2, KeptFound
  <1>4. \A s \in J \cup {u} : QueuedTask(L, s)
    BY <1>1 DEF GoodTasks
  <1>5. mishaps2 \subseteq Mishaps
    BY DEF GoodTasks, Mishaps
  <1>6. /\ r \in 0..Len(L) /\ SentTasks(L, F)
        /\ \A s \in F : s.DispatchedAt <= Later(k, r)
    BY DEF GoodTasks
  <1>7. GoodTasks(L, k, r, failed, J \cup {u}, F, H2, mishaps2)
    BY <1>2, <1>3, <1>4, <1>5, <1>6 DEF GoodTasks
  <1> QED
    BY <1>7 DEF u

\* Tasks taken out of inFlight are queued again, or given up and counted.
LEMMA GoodTasksGiveUp ==
  ASSUME NEW L, NEW k \in Nat, NEW r, NEW failed \in Nat, NEW J, NEW F, NEW H, NEW mishaps,
         GoodTasks(L, k, r, failed, J, F, H, mishaps), Len(L) \in Nat, IsFiniteSet(F),
         NEW S \in SUBSET F, NEW gone, gone = {t \in S : Exhausted(t)}
  PROVE  GoodTasks(L, k, r, failed + Cardinality(gone),
                   J \cup {Retried(t) : t \in S \ gone}, F \ S, H, mishaps)
  <1> DEFINE again == {Retried(t) : t \in S \ gone}
  <1>1. ASSUME NEW u \in again
        PROVE  \E t \in S \ gone : u = Retried(t) /\ QueuedTask(L, u) /\ u.obj = t.obj
                                   /\ u.TaskId = t.TaskId
    BY RetriedQueued DEF GoodTasks, SentTasks
  <1>2. ASSUME NEW t \in S \ gone
        PROVE  \E u \in again : u.TaskId = t.TaskId
    BY RetriedQueued DEF GoodTasks, SentTasks
  <1> HIDE DEF again
  <1>3. ASSUME "Doubled" \notin mishaps PROVE Apart(L, J \cup again, F \ S, k, r)
    <2>1. Apart(L, J, F, k, r)
      BY <1>3 DEF GoodTasks
    <2> SUFFICES ASSUME NEW u \in J \cup again, NEW s \in F \ S, u.obj = s.obj
                 PROVE  \E d \in (k + 1)..r : Dispatches(L[d], u.obj)
      BY DEF Apart, Objs
    <2>2. CASE u \in J
      BY <2>1, <2>2 DEF Apart, Objs
    <2>3. CASE u \in again
      <3>1. PICK t \in S \ gone : u.obj = t.obj
        BY <1>1, <2>3
      <3>2. MadeBy(L, s) /\ MadeBy(L, t)
        BY DEF GoodTasks, SentTasks, SentTask
      <3>3. s = t
        BY <3>1, <3>2, SameMaker DEF GoodTasks, SentTasks
      <3> QED
        BY <3>3
    <2> QED
      BY <2>2, <2>3
  <1>4. /\ Cardinality(gone) \in Nat /\ IsFiniteSet(Ids(gone))
        /\ Cardinality(Ids(gone)) \in Nat /\ Cardinality(Ids(gone)) <= Cardinality(gone)
    <2>1. IsFiniteSet(gone)
      BY FS_Subset
    <2> QED
      BY <2>1, IdsFinite, FS_CardinalityType
  <1>5. ASSUME "Dropped" \notin mishaps
        PROVE  Kept(L, k, Later(k, r), (J \cup again) \cup (F \ S) \cup H,
                    failed + Cardinality(gone))
    <2> DEFINE A == OpenIds(L, k, Later(k, r)) \ Ids(J \cup F \cup H)
               B == OpenIds(L, k, Later(k, r)) \ Ids((J \cup again) \cup (F \ S) \cup H)
    <2>1. Cardinality(A) <= failed
      BY <1>5 DEF GoodTasks, Kept
    <2>2. IsFiniteSet(A)
      <3>1. A \subseteq OpenIds(L, k, Later(k, r))
        OBVIOUS
      <3> HIDE DEF A
      <3> QED
        BY <3>1, OpenFinite, FS_Subset
    <2>3. Ids(J \cup F \cup H) \subseteq Ids((J \cup again) \cup (F \ S) \cup H) \cup Ids(gone)
      BY <1>2 DEF Ids
    <2>4. B \subseteq A \cup Ids(gone)
      BY <2>3
    <2> HIDE DEF A, B
    <2>5. /\ IsFiniteSet(A \cup Ids(gone))
          /\ Cardinality(A \cup Ids(gone)) =
                Cardinality(A) + Cardinality(Ids(gone)) - Cardinality(A \cap Ids(gone))
      BY <1>4, <2>2, FS_Union
    <2>6. /\ Cardinality(B) <= Cardinality(A \cup Ids(gone))
          /\ Cardinality(B) \in Nat
      BY <2>4, <2>5, FS_Subset, FS_CardinalityType
    <2>7. Cardinality(A \cap Ids(gone)) \in Nat /\ Cardinality(A) \in Nat
      <3>1. IsFiniteSet(A \cap Ids(gone))
        BY <2>2, FS_Subset
      <3> QED
        BY <2>2, <3>1, FS_CardinalityType
    <2>8. Cardinality(B) <= failed + Cardinality(gone)
      BY <1>4, <2>1, <2>5, <2>6, <2>7
    <2> QED
      BY <2>8 DEF Kept, B
  <1>6. \A u \in J \cup again : QueuedTask(L, u)
    BY <1>1 DEF GoodTasks
  <1>7. SentTasks(L, F \ S)
    BY DEF GoodTasks, SentTasks
  <1>8. /\ r \in 0..Len(L) /\ \A t \in F \ S : t.DispatchedAt <= Later(k, r)
        /\ mishaps \subseteq Mishaps
    BY DEF GoodTasks
  <1>9. GoodTasks(L, k, r, failed + Cardinality(gone), J \cup again, F \ S, H, mishaps)
    BY <1>3, <1>5, <1>6, <1>7, <1>8 DEF GoodTasks
  <1> QED
    BY <1>9 DEF again

(***************************************************************************)
(* What entries do to good tasks                                           *)
(***************************************************************************)
LEMMA LaterNext ==
  ASSUME NEW k \in Nat, NEW r \in Nat
  PROVE  /\ Later(k + 1, r) \in Nat /\ Later(k, r) \in Nat
         /\ Later(k, r) <= Later(k + 1, r) /\ k + 1 <= Later(k + 1, r)
         /\ r <= Later(k + 1, r)
  BY DEF Later

\* What is open after one more entry, seen as far ahead as the node's horizon.
LEMMA OpenAhead ==
  ASSUME NEW L, NEW k \in Nat, NEW r \in Nat
  PROVE  /\ L[k + 1].type = "EnqueueTask" =>
               OpenIds(L, k + 1, Later(k + 1, r))
                  \subseteq OpenIds(L, k, Later(k, r)) \cup {L[k + 1].task.TaskId}
         /\ L[k + 1].type # "EnqueueTask" =>
               OpenIds(L, k + 1, Later(k + 1, r)) \subseteq OpenIds(L, k, Later(k, r))
         /\ L[k + 1].type = "CompleteTask" =>
               L[k + 1].task.TaskId \notin OpenIds(L, k + 1, Later(k + 1, r))
         /\ L[k + 1].type = "AdvancePhase" => OpenIds(L, k + 1, Later(k + 1, r)) = {}
  <1>1. /\ Later(k + 1, r) \in Nat /\ Later(k, r) \in Nat
        /\ Later(k, r) <= Later(k + 1, r) /\ k + 1 <= Later(k + 1, r)
    BY LaterNext
  <1> DEFINE h == Later(k, r)
             h2 == Later(k + 1, r)
  <1>2. h \in Nat /\ h2 \in Nat /\ h <= h2 /\ k + 1 <= h2
    BY <1>1
  <1> HIDE DEF h, h2
  <1>3. /\ L[k + 1].type = "EnqueueTask" =>
              OpenIds(L, k + 1, h2) \subseteq OpenIds(L, k, h) \cup {L[k + 1].task.TaskId}
        /\ L[k + 1].type # "EnqueueTask" => OpenIds(L, k + 1, h2) \subseteq OpenIds(L, k, h)
        /\ L[k + 1].type = "CompleteTask" => L[k + 1].task.TaskId \notin OpenIds(L, k + 1, h2)
        /\ L[k + 1].type = "AdvancePhase" => OpenIds(L, k + 1, h2) = {}
    BY <1>2, OpenNext
  <1> QED
    BY <1>3 DEF h, h2

\* What is in flight stays within the horizon.
LEMMA StillDue ==
  ASSUME NEW L, NEW k \in Nat, NEW r \in Nat, NEW t, SentTask(L, t),
         t.DispatchedAt <= Later(k, r)
  PROVE  t.DispatchedAt <= Later(k + 1, r)
  <1>1. t.DispatchedAt \in Int
    BY DEF SentTask, TypedTask
  <1>2. /\ Later(k + 1, r) \in Nat /\ Later(k, r) \in Nat /\ Later(k, r) <= Later(k + 1, r)
    BY LaterNext
  <1> QED
    BY <1>1, <1>2

\* An entry that moves no task.
LEMMA GoodTasksSkip ==
  ASSUME NEW L, Len(L) \in Nat, NEW k \in Nat, k < Len(L), L[k + 1].type = "FailTask",
         NEW r, NEW failed \in Nat, NEW J, NEW F, NEW H, NEW mishaps,
         GoodTasks(L, k, r, failed, J, F, H, mishaps)
  PROVE  GoodTasks(L, k + 1, r, failed, J, F, H, mishaps)
  <1>1. r \in Nat
    BY DEF GoodTasks
  <1>2. Apart(L, J, F, k, r) => Apart(L, J, F, k + 1, r)
    BY <1>1 DEF Apart, Dispatches
  <1>3. Kept(L, k, Later(k, r), J \cup F \cup H, failed)
           => Kept(L, k + 1, Later(k + 1, r), J \cup F \cup H, failed)
    <2>1. OpenIds(L, k + 1, Later(k + 1, r)) \subseteq OpenIds(L, k, Later(k, r))
      BY <1>1, OpenAhead
    <2>2. \A X : OpenIds(L, k + 1, Later(k + 1, r)) \ X \subseteq OpenIds(L, k, Later(k, r)) \ X
      BY <2>1
    <2> QED
      BY <2>2, KeptLess
  <1>4. \A t \in F : t.DispatchedAt <= Later(k + 1, r)
    BY <1>1, StillDue DEF GoodTasks, SentTasks
  <1> QED
    BY <1>2, <1>3, <1>4 DEF GoodTasks

\* CmdEnqueueTask. If the task is in flight already, in a restored node, the entry that
\* dispatched it is still to be applied again.
LEMMA GoodTasksEnqueue ==
  ASSUME NEW L, Len(L) \in Nat, NEW k \in Nat, k < Len(L), L[k + 1].type = "EnqueueTask",
         NEW r, NEW failed \in Nat, NEW J, NEW F, NEW H, NEW mishaps,
         GoodTasks(L, k, r, failed, J, F, H, mishaps),
         NEW t, QueuedTask(L, t), t.obj = k + 1, t.TaskId = L[k + 1].task.TaskId
  PROVE  GoodTasks(L, k + 1, r, failed, J \cup {t}, F, H, mishaps)
  <1>1. r \in Nat
    BY DEF GoodTasks
  <1>2. \A s \in F : s.DispatchedAt \in Nat /\ s.DispatchedAt <= Later(k, r)
    BY DEF GoodTasks, SentTasks, SentTask, TypedTask
  <1>3. ASSUME "Doubled" \notin mishaps PROVE Apart(L, J \cup {t}, F, k + 1, r)
    <2>1. Apart(L, J, F, k, r)
      BY <1>3 DEF GoodTasks
    <2> SUFFICES ASSUME NEW u \in J \cup {t}, NEW s \in F, u.obj = s.obj
                 PROVE  \E d \in (k + 1 + 1)..r : Dispatches(L[d], u.obj)
      BY DEF Apart, Objs
    <2>2. CASE u = t
      <3>1. s.obj = k + 1 /\ s.DispatchedAt > k + 1 /\ Dispatches(L[s.DispatchedAt], u.obj)
        BY <2>2 DEF GoodTasks, SentTasks, SentTask
      <3>2. s.DispatchedAt \in (k + 1 + 1)..r
        BY <1>1, <1>2, <3>1 DEF Later
      <3> QED
        BY <3>1, <3>2
    <2>3. CASE u \in J
      <3>1. PICK d \in (k + 1)..r : Dispatches(L[d], u.obj)
        BY <2>1, <2>3 DEF Apart, Objs
      <3>2. d # k + 1
        BY <3>1 DEF Dispatches
      <3> QED
        BY <1>1, <3>1, <3>2
    <2> QED
      BY <2>2, <2>3
  <1>4. ASSUME "Dropped" \notin mishaps
        PROVE  Kept(L, k + 1, Later(k + 1, r), (J \cup {t}) \cup F \cup H, failed)
    <2>1. Kept(L, k, Later(k, r), J \cup F \cup H, failed)
      BY <1>4 DEF GoodTasks
    <2>2. OpenIds(L, k + 1, Later(k + 1, r)) \subseteq OpenIds(L, k, Later(k, r)) \cup {t.TaskId}
      BY <1>1, OpenAhead
    <2>3. Ids(J \cup F \cup H) \cup {t.TaskId} \subseteq Ids((J \cup {t}) \cup F \cup H)
      BY DEF Ids
    <2> DEFINE X == J \cup F \cup H
               Y == (J \cup {t}) \cup F \cup H
    <2>4. OpenIds(L, k + 1, Later(k + 1, r)) \ Ids(Y) \subseteq OpenIds(L, k, Later(k, r)) \ Ids(X)
      BY <2>2, <2>3
    <2>5. Kept(L, k, Later(k, r), X, failed) /\ k + 1 \in Nat
      BY <2>1
    <2> HIDE DEF X, Y
    <2>6. Kept(L, k + 1, Later(k + 1, r), Y, failed)
      BY <2>4, <2>5, KeptLess
    <2> QED
      BY <2>6 DEF Y
  <1>5. \A s \in F : s.DispatchedAt <= Later(k + 1, r)
    BY <1>1, StillDue DEF GoodTasks, SentTasks
  <1> QED
    BY <1>3, <1>4, <1>5 DEF GoodTasks

\* A record replaces those with its id.
LEMMA SentTasksReplace ==
  ASSUME NEW L, NEW F, SentTasks(L, F), NEW t, SentTask(L, t)
  PROVE  SentTasks(L, (F \ WithId(F, t.TaskId)) \cup {t})
  BY DEF SentTasks, WithId

\* CmdDispatchTask.
LEMMA GoodTasksDispatch ==
  ASSUME NEW L, Len(L) \in Nat, NEW k \in Nat, k < Len(L), L[k + 1].type = "DispatchTask",
         NEW r, NEW failed \in Nat, NEW J, NEW F, NEW H, NEW mishaps,
         GoodTasks(L, k, r, failed, J, F, H, mishaps),
         NEW t, SentTask(L, t), t.DispatchedAt = k + 1,
         NEW H2, Ids(H) \subseteq Ids(H2) \cup {t.TaskId}
  PROVE  GoodTasks(L, k + 1, r, failed, J \ WithId(J, t.TaskId),
                   (F \ WithId(F, t.TaskId)) \cup {t}, H2, mishaps)
  <1> DEFINE J2 == J \ WithId(J, t.TaskId)
             F2 == (F \ WithId(F, t.TaskId)) \cup {t}
  <1>1. r \in Nat
    BY DEF GoodTasks
  <1>2. \A s \in F : s.DispatchedAt \in Nat /\ s.DispatchedAt <= Later(k, r)
    BY DEF GoodTasks, SentTasks, SentTask, TypedTask
  <1>3. ASSUME "Doubled" \notin mishaps PROVE Apart(L, J2, F2, k + 1, r)
    <2>1. Apart(L, J, F, k, r)
      BY <1>3 DEF GoodTasks
    <2> SUFFICES ASSUME NEW u \in J2, NEW s \in F2, u.obj = s.obj
                 PROVE  \E d \in (k + 1 + 1)..r : Dispatches(L[d], u.obj)
      BY DEF Apart, Objs
    <2>2. u \in J /\ u.TaskId # t.TaskId
      BY DEF WithId
    <2>3. MadeBy(L, u) /\ MadeBy(L, t)
      BY <2>2 DEF GoodTasks, QueuedTask, SentTask
    <2>4. u.obj # t.obj
      BY <2>2, <2>3, SameMaker
    <2>5. s \in F
      BY <2>4
    <2>6. PICK d \in (k + 1)..r : Dispatches(L[d], u.obj)
      BY <2>1, <2>2, <2>5 DEF Apart, Objs
    <2>7. Dispatches(L[k + 1], t.obj)
      BY DEF SentTask
    <2>8. d # k + 1
      BY <2>4, <2>6, <2>7 DEF Dispatches
    <2> QED
      BY <1>1, <2>6, <2>8
  <1>4. ASSUME "Dropped" \notin mishaps
        PROVE  Kept(L, k + 1, Later(k + 1, r), J2 \cup F2 \cup H2, failed)
    <2>1. Kept(L, k, Later(k, r), J \cup F \cup H, failed)
      BY <1>4 DEF GoodTasks
    <2>2. OpenIds(L, k + 1, Later(k + 1, r)) \subseteq OpenIds(L, k, Later(k, r))
      BY <1>1, OpenAhead
    <2>3. Ids(J \cup F \cup H) \subseteq Ids(J2 \cup F2 \cup H2)
      BY DEF Ids, WithId
    <2> DEFINE X == J \cup F \cup H
               Y == J2 \cup F2 \cup H2
    <2>4. OpenIds(L, k + 1, Later(k + 1, r)) \ Ids(Y) \subseteq OpenIds(L, k, Later(k, r)) \ Ids(X)
      BY <2>2, <2>3
    <2>5. Kept(L, k, Later(k, r), X, failed) /\ k + 1 \in Nat
      BY <2>1
    <2> HIDE DEF X, Y
    <2>6. Kept(L, k + 1, Later(k + 1, r), Y, failed)
      BY <2>4, <2>5, KeptLess
    <2> QED
      BY <2>6 DEF Y
  <1>5. \A s \in F2 : s.DispatchedAt <= Later(k + 1, r)
    <2>1. \A s \in F : s.DispatchedAt <= Later(k + 1, r)
      BY <1>1, StillDue DEF GoodTasks, SentTasks
    <2>2. t.DispatchedAt <= Later(k + 1, r)
      BY <1>1, LaterNext
    <2> QED
      BY <2>1, <2>2
  <1>6. (\A s \in J2 : QueuedTask(L, s)) /\ SentTasks(L, F2)
    BY SentTasksReplace DEF GoodTasks
  <1> HIDE DEF J2, F2
  <1>7. GoodTasks(L, k + 1, r, failed, J2, F2, H2, mishaps)
    BY <1>3, <1>4, <1>5, <1>6 DEF GoodTasks
  <1> QED
    BY <1>7 DEF J2, F2

\* CmdCompleteTask.
LEMMA GoodTasksComplete ==
  ASSUME NEW L, Len(L) \in Nat, NEW k \in Nat, k < Len(L), L[k + 1].type = "CompleteTask",
         NEW r, NEW failed \in Nat, NEW J, NEW F, NEW H, NEW mishaps,
         GoodTasks(L, k, r, failed, J, F, H, mishaps),
         NEW id, id = L[k + 1].task.TaskId, NEW H2, Ids(H) \subseteq Ids(H2) \cup {id}
  PROVE  GoodTasks(L, k + 1, r, failed, J, F \ WithId(F, id), H2, mishaps)
  <1> DEFINE F2 == F \ WithId(F, id)
  <1>1. r \in Nat
    BY DEF GoodTasks
  <1>2. \A s \in F : s.DispatchedAt \in Nat /\ s.DispatchedAt <= Later(k, r)
    BY DEF GoodTasks, SentTasks, SentTask, TypedTask
  <1>3. ASSUME Apart(L, J, F, k, r) PROVE Apart(L, J, F2, k + 1, r)
    <2> SUFFICES ASSUME NEW o \in Objs(J) \cap Objs(F2)
                 PROVE  \E d \in (k + 1 + 1)..r : Dispatches(L[d], o)
      BY DEF Apart
    <2>1. PICK d \in (k + 1)..r : Dispatches(L[d], o)
      BY <1>3 DEF Apart, Objs
    <2>2. d # k + 1
      BY <2>1 DEF Dispatches
    <2> QED
      BY <1>1, <2>1, <2>2
  <1>4. ASSUME "Dropped" \notin mishaps
        PROVE  Kept(L, k + 1, Later(k + 1, r), J \cup F2 \cup H2, failed)
    <2>1. Kept(L, k, Later(k, r), J \cup F \cup H, failed)
      BY <1>4 DEF GoodTasks
    <2>2. /\ OpenIds(L, k + 1, Later(k + 1, r)) \subseteq OpenIds(L, k, Later(k, r))
          /\ id \notin OpenIds(L, k + 1, Later(k + 1, r))
      BY <1>1, OpenAhead
    <2>3. Ids(J \cup F \cup H) \subseteq Ids(J \cup F2 \cup H2) \cup {id}
      BY DEF Ids, WithId
    <2> DEFINE X == J \cup F \cup H
               Y == J \cup F2 \cup H2
    <2>4. OpenIds(L, k + 1, Later(k + 1, r)) \ Ids(Y) \subseteq OpenIds(L, k, Later(k, r)) \ Ids(X)
      BY <2>2, <2>3
    <2>5. Kept(L, k, Later(k, r), X, failed) /\ k + 1 \in Nat
      BY <2>1
    <2> HIDE DEF X, Y
    <2>6. Kept(L, k + 1, Later(k + 1, r), Y, failed)
      BY <2>4, <2>5, KeptLess
    <2> QED
      BY <2>6 DEF Y
  <1>5. \A s \in F2 : s.DispatchedAt <= Later(k + 1, r)
    BY <1>1, StillDue DEF GoodTasks, SentTasks
  <1>6. (\A s \in J : QueuedTask(L, s)) /\ SentTasks(L, F2)
    BY DEF GoodTasks, SentTasks
  <1> HIDE DEF F2
  <1>7. GoodTasks(L, k + 1, r, failed, J, F2, H2, mishaps)
    BY <1>3, <1>4, <1>5, <1>6 DEF GoodTasks
  <1> QED
    BY <1>7 DEF F2

\* CmdAdvancePhase: what was in flight is forgotten, and nothing is open any more.
LEMMA GoodTasksAdvance ==
  ASSUME NEW L, Len(L) \in Nat, NEW k \in Nat, k < Len(L), L[k + 1].type = "AdvancePhase",
         NEW r, NEW failed, NEW J, NEW F, NEW H, NEW mishaps,
         GoodTasks(L, k, r, failed, J, F, H, mishaps), NEW H2
  PROVE  GoodTasks(L, k + 1, r, 0, J, {}, H2, mishaps)
  <1>1. r \in Nat
    BY DEF GoodTasks
  <1>2. Apart(L, J, {}, k + 1, r)
    BY DEF Apart, Objs
  <1>3. Kept(L, k + 1, Later(k + 1, r), J \cup {} \cup H2, 0)
    <2> DEFINE Y == J \cup {} \cup H2
    <2>1. OpenIds(L, k + 1, Later(k + 1, r)) = {}
      BY <1>1, OpenAhead
    <2>2. OpenIds(L, k + 1, Later(k + 1, r)) \ Ids(Y) = {}
      BY <2>1
    <2> HIDE DEF Y
    <2> DEFINE D == OpenIds(L, k + 1, Later(k + 1, r)) \ Ids(Y)
    <2>3. Cardinality(D) <= 0
      <3>1. D = {}
        BY <2>2
      <3> HIDE DEF D
      <3>2. Cardinality(D) = 0
        BY <3>1, FS_EmptySet
      <3> QED
        BY <3>2
    <2>4. Kept(L, k + 1, Later(k + 1, r), Y, 0)
      BY <2>3 DEF Kept
    <2> QED
      BY <2>4 DEF Y
  <1> QED
    BY <1>2, <1>3 DEF GoodTasks, SentTasks

(***************************************************************************)
(* What entries do to a snapshot under way                                 *)
(***************************************************************************)
\* Its horizon moves on with the entries that are applied.
LEMMA GoodTasksAhead ==
  ASSUME NEW L, NEW k \in Nat, NEW r, NEW failed \in Nat, NEW J, NEW F, NEW H, NEW mishaps,
         GoodTasks(L, k, r, failed, J, F, H, mishaps), NEW r2 \in 0..Len(L), r <= r2,
         Len(L) \in Nat
  PROVE  GoodTasks(L, k, r2, failed, J, F, H, mishaps)
  <1>1. r \in Nat /\ r2 \in Nat
    BY DEF GoodTasks
  <1>2. Later(k, r) \in Nat /\ Later(k, r2) \in Nat /\ Later(k, r) <= Later(k, r2)
    BY <1>1 DEF Later
  <1>3. Apart(L, J, F, k, r) => Apart(L, J, F, k, r2)
    BY <1>1 DEF Apart
  <1>4. Kept(L, k, Later(k, r), J \cup F \cup H, failed)
           => Kept(L, k, Later(k, r2), J \cup F \cup H, failed)
    <2>1. \A X : OpenIds(L, k, Later(k, r2)) \ X \subseteq OpenIds(L, k, Later(k, r)) \ X
      BY <1>2, OpenLess
    <2> QED
      BY <2>1, KeptLess
  <1>5. \A t \in F : t.DispatchedAt <= Later(k, r2)
    <2>1. \A t \in F : t.DispatchedAt \in Nat /\ t.DispatchedAt <= Later(k, r)
      BY DEF GoodTasks, SentTasks, SentTask, TypedTask
    <2> QED
      BY <1>2, <2>1
  <1> QED
    BY <1>3, <1>4, <1>5 DEF GoodTasks

\* Its inFlight shows the dispatch of an entry that it has not applied.
LEMMA GoodTasksLateDispatch ==
  ASSUME NEW L, NEW k \in Nat, NEW r, NEW failed \in Nat, NEW J, NEW F, NEW mishaps,
         GoodTasks(L, k, r, failed, J, F, {}, mishaps), Len(L) \in Nat,
         NEW t, SentTask(L, t), t.DispatchedAt \in (k + 1)..r
  PROVE  GoodTasks(L, k, r, failed, J, (F \ WithId(F, t.TaskId)) \cup {t}, {}, mishaps)
  <1> DEFINE F2 == (F \ WithId(F, t.TaskId)) \cup {t}
  <1>1. r \in Nat
    BY DEF GoodTasks
  <1>2. Dispatches(L[t.DispatchedAt], t.obj)
    BY DEF SentTask
  <1>3. Apart(L, J, F, k, r) => Apart(L, J, F2, k, r)
    BY <1>2 DEF Apart, Objs
  <1>4. Kept(L, k, Later(k, r), J \cup F \cup {}, failed)
           => Kept(L, k, Later(k, r), J \cup F2 \cup {}, failed)
    <2>1. Ids(J \cup F \cup {}) \subseteq Ids(J \cup F2 \cup {})
      BY DEF Ids, WithId
    <2> HIDE DEF F2
    <2> QED
      BY <2>1, KeptFound
  <1>5. \A s \in F2 : s.DispatchedAt <= Later(k, r)
    BY <1>1 DEF Later, GoodTasks
  <1>6. SentTasks(L, F2)
    BY SentTasksReplace DEF GoodTasks
  <1> HIDE DEF F2
  <1>7. GoodTasks(L, k, r, failed, J, F2, {}, mishaps)
    BY <1>3, <1>4, <1>5, <1>6 DEF GoodTasks
  <1> QED
    BY <1>7 DEF F2

\* Its inFlight misses what an entry has completed that it has not applied.
LEMMA GoodTasksLateComplete ==
  ASSUME NEW L, NEW k \in Nat, NEW r, NEW failed \in Nat, NEW J, NEW F, NEW mishaps,
         GoodTasks(L, k, r, failed, J, F, {}, mishaps), Len(L) \in Nat,
         NEW j \in (k + 1)..r, L[j].type = "CompleteTask", NEW id, id = L[j].task.TaskId
  PROVE  GoodTasks(L, k, r, failed, J, F \ WithId(F, id), {}, mishaps)
  <1> DEFINE F2 == F \ WithId(F, id)
  <1>1. r \in Nat
    BY DEF GoodTasks
  <1>2. Apart(L, J, F, k, r) => Apart(L, J, F2, k, r)
    BY DEF Apart, Objs
  <1>3. Later(k, r) = r
    BY <1>1 DEF Later
  <1>4. id \notin OpenIds(L, k, r)
    <2> SUFFICES ASSUME NEW i \in OpenTo(L, k, r), L[i].task.TaskId = id PROVE FALSE
      BY DEF OpenIds
    <2>1. i \in 1..k
      BY DEF OpenTo, Entries
    <2>2. j \in (i + 1)..r /\ Closes(L[j], id)
      BY <1>1, <2>1 DEF Closes
    <2> QED
      BY <2>2 DEF OpenTo, Closed
  <1>5. Kept(L, k, r, J \cup F \cup {}, failed) => Kept(L, k, r, J \cup F2 \cup {}, failed)
    <2> DEFINE X == J \cup F \cup {}
               Y == J \cup F2 \cup {}
    <2>1. Ids(J \cup F \cup {}) \subseteq Ids(J \cup F2 \cup {}) \cup {id}
      BY DEF Ids, WithId
    <2>2. OpenIds(L, k, r) \ Ids(Y) \subseteq OpenIds(L, k, r) \ Ids(X)
      BY <1>4, <2>1
    <2> HIDE DEF X, Y
    <2>3. Kept(L, k, r, X, failed) => Kept(L, k, r, Y, failed)
      BY <2>2, KeptLess
    <2> QED
      BY <2>3 DEF X, Y
  <1>6. SentTasks(L, F2)
    BY DEF GoodTasks, SentTasks
  <1> HIDE DEF F2
  <1>7. \A s \in F2 : s.DispatchedAt <= Later(k, r)
    BY DEF GoodTasks, F2
  <1>8. GoodTasks(L, k, r, failed, J, F2, {}, mishaps)
    BY <1>2, <1>3, <1>5, <1>6, <1>7 DEF GoodTasks
  <1> QED
    BY <1>8 DEF F2

(***************************************************************************)
(* What a step leaves alone                                                *)
(***************************************************************************)
sameTasks(m) ==
    /\ applied'[m] = applied[m] /\ replayTo'[m] = replayTo[m]
    /\ failedTasks'[m] = failedTasks[m] /\ JobStatus'[m] = JobStatus[m]
    /\ inFlight'[m] = inFlight[m] /\ spoiled'[m] = spoiled[m]
    /\ snap'[m] = snap[m] /\ taking'[m] = taking[m]

sameHandler(c) ==
    /\ pc'[c] = pc[c] /\ at'[c] = at[c] /\ hand'[c] = hand[c] /\ wait'[c] = wait[c]

\* The numbers of a node and of its snapshots.
LEMMA NodeNumbers ==
  ASSUME LogInv, NEW n \in Nodes
  PROVE  /\ Len(log) \in Nat /\ applied[n] \in 0..Len(log) /\ failedTasks[n] \in Nat
         /\ IsFiniteSet(inFlight[n]) /\ PerNode
         /\ snap[n].index \in 0..Len(log) /\ snap[n].failedTasks \in Nat
         /\ taking[n] # NoSnapshot => /\ taking[n].index \in 0..Len(log)
                                      /\ taking[n].failedTasks \in Nat
  <1>1. Len(log) \in Nat
    BY LenProperties DEF LogInv
  <1>2. GoodNode(n) /\ GoodSnapshots(n) /\ PerNode
    BY DEF LogInv
  <1> QED
    BY <1>1, <1>2 DEF GoodNode, GoodSnapshots, GoodImage, GoodState

LEMMA NothingAppended ==
  ASSUME LogInv, UNCHANGED log
  PROVE  Grown(log, log')
  BY LenProperties DEF LogInv, Grown

LEMMA OneAppended ==
  ASSUME LogInv, NEW e, log' = Append(log, e)
  PROVE  /\ Grown(log, log') /\ Len(log') = Len(log) + 1 /\ log'[Len(log) + 1] = e
         /\ Len(log) \in Nat
  <1>1. PICK S : log \in Seq(S)
    BY DEF LogInv
  <1>2. Len(log) \in Nat
    BY <1>1, LenProperties
  <1>3. log \in Seq(S \cup {e})
    <2>1. \A i \in 1..Len(log) : log[i] \in S \cup {e}
      BY <1>1, ElementOfSeq
    <2>2. log \in [1..Len(log) -> S \cup {e}]
      BY <1>1, <2>1, LenProperties
    <2> QED
      BY <1>2, <2>2, SeqDef
  <1>4. /\ Len(log') = Len(log) + 1 /\ log'[Len(log) + 1] = e
        /\ \A i \in 1..Len(log) : log'[i] = log[i]
    BY <1>3, AppendProperties
  <1> QED
    BY <1>2, <1>4 DEF Grown

\* More found.
LEMMA GoodTasksFound ==
  ASSUME NEW L, NEW k \in Nat, NEW r, NEW failed \in Nat, NEW J, NEW F, NEW H, NEW mishaps,
         GoodTasks(L, k, r, failed, J, F, H, mishaps), NEW H2, Ids(H) \subseteq Ids(H2)
  PROVE  GoodTasks(L, k, r, failed, J, F, H2, mishaps)
  <1>1. Ids(J \cup F \cup H) \subseteq Ids(J \cup F \cup H2)
    BY DEF Ids
  <1>2. mishaps \in SUBSET Mishaps /\ F \in SUBSET F /\ J \in SUBSET J
    BY DEF GoodTasks
  <1> QED
    BY <1>1, <1>2, GoodTasksMove

\* A node that is left alone, while the log may grow.
LEMMA NodeFrame ==
  ASSUME LogInv, NEW m \in Nodes, AllTasks(m), Grown(log, log'), sameTasks(m),
         Holding(m) \subseteq Holding(m)'
  PROVE  AllTasks(m)'
  <1>1. NodeTasks(m)'
    <2>1. GoodTasks(log, applied[m], replayTo[m], failedTasks[m], JobStatus[m], inFlight[m],
                    Holding(m), spoiled[m])
      BY DEF AllTasks, NodeTasks
    <2>2. GoodTasks(log', applied[m], replayTo[m], failedTasks[m], JobStatus[m], inFlight[m],
                    Holding(m), spoiled[m])
      BY <2>1, NodeNumbers, GoodTasksGrow
    <2>3. Ids(Holding(m)) \subseteq Ids(Holding(m)')
      BY DEF Ids
    <2>4. GoodTasks(log', applied[m], replayTo[m], failedTasks[m], JobStatus[m], inFlight[m],
                    Holding(m)', spoiled[m])
      BY <2>2, <2>3, NodeNumbers, GoodTasksFound
    <2> QED
      BY <2>4 DEF NodeTasks, sameTasks
  <1>2. StoredTasks(log', snap[m])
    BY NodeNumbers, GoodTasksGrow DEF AllTasks, StoredTasks
  <1>3. ASSUME taking[m] # NoSnapshot PROVE TakenTasks(m)'
    <2>1. TakenTasks(m)
      BY <1>3 DEF AllTasks
    <2>2. taking[m].index > snap[m].index =>
             GoodTasks(log', taking[m].index, Horizon(m), taking[m].failedTasks,
                       taking[m].JobStatus, PersistedInFlight(m), {}, taking[m].spoiled)
      BY <1>3, <2>1, NodeNumbers, GoodTasksGrow DEF TakenTasks
    <2>3. Horizon(m)' = Horizon(m) /\ PersistedInFlight(m)' = PersistedInFlight(m)
      BY DEF Horizon, PersistedInFlight, sameTasks
    <2> QED
      BY <2>1, <2>2, <2>3 DEF TakenTasks, sameTasks
  <1> QED
    BY <1>1, <1>2, <1>3 DEF AllTasks, sameTasks

LEMMA HandlerFrame ==
  ASSUME NEW c \in Workers, HandlerTask(c), Grown(log, log'), sameHandler(c)
  PROVE  HandlerTask(c)'
  <1>1. TypedTask(log', hand[c]) /\ (QueuedTask(log, hand[c]) => QueuedTask(log', hand[c]))
    BY TaskGrows DEF HandlerTask
  <1>2. /\ wait[c] \in 0..Len(log') \cup {Failed}
        /\ wait[c] > 0 => log'[wait[c]] = log[wait[c]]
    BY DEF HandlerTask, Grown, Failed
  <1> QED
    BY <1>1, <1>2 DEF HandlerTask, sameHandler

\* Handlers that are left alone hold what they held, while the node applies nothing.
LEMMA HoldsFrame ==
  ASSUME NEW m, applied'[m] = applied[m],
         \A c \in Workers : Holds(c, m) => sameHandler(c)
  PROVE  Holding(m) \subseteq Holding(m)'
  BY DEF Holding, Holds, sameHandler, Answered

\* A step at one node, outside the log.
LEMMA OneNodeTasks ==
  ASSUME LogInv, TaskInv, UNCHANGED log, TasksPerNode', NEW n \in Nodes, AllTasks(n)',
         \A m \in Nodes \ {n} : sameTasks(m) /\ Holding(m) \subseteq Holding(m)',
         \A c \in Workers : HandlerTask(c)'
  PROVE  TaskInv'
  <1>1. Grown(log, log')
    BY NothingAppended
  <1>2. ASSUME NEW m \in Nodes \ {n} PROVE AllTasks(m)'
    BY <1>1, NodeFrame DEF TaskInv
  <1>3. \A m \in Nodes : AllTasks(m)'
    BY <1>2
  <1>4. GoodLog(log')
    BY DEF TaskInv
  <1> QED
    BY <1>3, <1>4 DEF TaskInv

\* A step of one handler that touches no node.
LEMMA OneHandlerTasks ==
  ASSUME LogInv, TaskInv, Grown(log, log'), GoodLog(log'), TasksPerNode',
         \A m \in Nodes : sameTasks(m) /\ Holding(m) \subseteq Holding(m)',
         NEW c, c \in Workers => HandlerTask(c)',
         \A d \in Workers \ {c} : sameHandler(d)
  PROVE  TaskInv'
  <1>1. \A m \in Nodes : AllTasks(m)'
    BY NodeFrame DEF TaskInv
  <1>2. \A d \in Workers : HandlerTask(d)'
    BY HandlerFrame DEF TaskInv
  <1> QED
    BY <1>1, <1>2 DEF TaskInv

(***************************************************************************)
(* Steps of handlers that touch no node                                    *)
(***************************************************************************)
LEMMA NoTaskTyped ==
  ASSUME NEW L, Len(L) \in Nat, NEW id, NEW phase
  PROVE  /\ TypedTask(L, NoTask) /\ NoTask.obj = 0
         /\ TypedTask(L, NewTask(id, phase)) /\ NewTask(id, phase).DispatchedAt = 0
         /\ TypedTask(L, [NoTask EXCEPT !.TaskId = id])
         /\ [NoTask EXCEPT !.TaskId = id].obj = 0
  <1>1. 0 \in 0..(maxRetries - 1) /\ 0 \in 0..Len(L)
    BY ClusterAssumption
  <1> QED
    BY <1>1 DEF TypedTask, NoTask, NewTask

\* A call goes on at n, or its client is left with a task; the others are as they were.
LEMMA EnterTask ==
  ASSUME TaskInv, NEW c \in Workers, NEW n, NEW where, NEW task, Enter(c, n, where, task),
         where \in Proposing \cup {"idle", "run"}, n \in Nodes <=> where \in Proposing,
         Len(log) \in Nat, Len(log') \in Nat, TypedTask(log', task),
         where = "dispatch" => QueuedTask(log', task)
  PROVE  /\ HandlerTask(c)' /\ \A d \in Workers \ {c} : sameHandler(d)
         /\ DOMAIN pc' = Workers /\ DOMAIN at' = Workers /\ DOMAIN hand' = Workers
         /\ DOMAIN wait' = Workers
         /\ pc'[c] = where /\ at'[c] = n /\ hand'[c] = task /\ wait'[c] = 0
  <1>1. /\ DOMAIN pc' = Workers /\ DOMAIN at' = Workers /\ DOMAIN hand' = Workers
        /\ DOMAIN wait' = Workers
        /\ pc'[c] = where /\ at'[c] = n /\ hand'[c] = task /\ wait'[c] = 0
        /\ \A d \in Workers \ {c} : sameHandler(d)
    BY DEF Enter, TaskInv, TasksPerNode, sameHandler
  <1>2. 0 \in 0..Len(log')
    OBVIOUS
  <1>3. HandlerTask(c)'
    BY <1>1, <1>2 DEF HandlerTask
  <1> QED
    BY <1>1, <1>3

LEMMA LeaveTask ==
  ASSUME TaskInv, LogInv, UNCHANGED log, NEW c \in Workers, Leave(c)
  PROVE  /\ HandlerTask(c)' /\ \A d \in Workers \ {c} : sameHandler(d)
         /\ DOMAIN pc' = Workers /\ DOMAIN at' = Workers /\ DOMAIN hand' = Workers
         /\ DOMAIN wait' = Workers
         /\ pc'[c] = "idle" /\ at'[c] = NoNode /\ hand'[c] = NoTask /\ wait'[c] = 0
  <1>1. Len(log) \in Nat /\ TypedTask(log', NoTask)
    BY LenProperties, NoTaskTyped DEF LogInv
  <1>2. Enter(c, NoNode, "idle", NoTask)
    BY DEF Leave
  <1>3. /\ "idle" \in Proposing \cup {"idle", "run"} /\ "idle" \notin Proposing
        /\ NoNode \notin Nodes /\ "idle" # "dispatch"
    BY ClusterAssumption DEF Proposing
  <1> QED
    BY <1>1, <1>2, <1>3, EnterTask

\* The fields of the nodes are as they were.
LEMMA SameTasksEverywhere ==
  ASSUME TaskInv, UNCHANGED <<fsmVars, taskVars, snapVars, spoiled>>
  PROVE  /\ \A m \in Nodes : sameTasks(m)
         /\ DOMAIN replayTo' = Nodes /\ DOMAIN JobStatus' = Nodes /\ DOMAIN spoiled' = Nodes
  BY DEF TaskInv, TasksPerNode, sameTasks, fsmVars, taskVars, snapVars

\* The client of a handler that holds no task is left without one.
LEMMA LeavesNothing ==
  ASSUME TaskInv, LogInv, NEW c \in Workers, Leave(c), pc[c] \in {"run", "advance", "enqueue"},
         UNCHANGED <<log, fsmVars, taskVars, snapVars, spoiled>>
  PROVE  TaskInv'
  <1>1. /\ HandlerTask(c)' /\ \A d \in Workers \ {c} : sameHandler(d)
        /\ DOMAIN pc' = Workers /\ DOMAIN at' = Workers /\ DOMAIN hand' = Workers
        /\ DOMAIN wait' = Workers
    BY LeaveTask
  <1>2. /\ \A m \in Nodes : sameTasks(m)
        /\ DOMAIN replayTo' = Nodes /\ DOMAIN JobStatus' = Nodes /\ DOMAIN spoiled' = Nodes
    BY SameTasksEverywhere
  <1>3. \A m \in Nodes : Holding(m) \subseteq Holding(m)'
    <2>1. \A m \in Nodes : \A d \in Workers : Holds(d, m) => sameHandler(d)
      BY <1>1 DEF Holds
    <2> QED
      BY <1>2, <2>1, HoldsFrame DEF sameTasks
  <1>4. Grown(log, log') /\ GoodLog(log') /\ TasksPerNode'
    BY <1>1, <1>2, NothingAppended DEF TaskInv, TasksPerNode
  <1> QED
    BY <1>1, <1>2, <1>3, <1>4, OneHandlerTasks

\* A call goes on, of a client that held no task at a node.
LEMMA EntersAlone ==
  ASSUME TaskInv, LogInv, NEW c \in Workers, NEW n, NEW where, NEW task,
         Enter(c, n, where, task),
         where \in {"run", "advance", "complete"}, n \in Nodes <=> where \in Proposing,
         TypedTask(log, task), \A m \in Nodes : ~Holds(c, m),
         UNCHANGED <<log, fsmVars, taskVars, snapVars, spoiled>>
  PROVE  TaskInv'
  <1>0. Len(log) \in Nat /\ where \in Proposing \cup {"idle", "run"} /\ where # "dispatch"
    BY LenProperties DEF LogInv, Proposing
  <1>1. /\ HandlerTask(c)' /\ \A d \in Workers \ {c} : sameHandler(d)
        /\ DOMAIN pc' = Workers /\ DOMAIN at' = Workers /\ DOMAIN hand' = Workers
        /\ DOMAIN wait' = Workers
    BY <1>0, EnterTask
  <1>2. /\ \A m \in Nodes : sameTasks(m)
        /\ DOMAIN replayTo' = Nodes /\ DOMAIN JobStatus' = Nodes /\ DOMAIN spoiled' = Nodes
    BY SameTasksEverywhere
  <1>3. \A m \in Nodes : Holding(m) \subseteq Holding(m)'
    <2>1. \A m \in Nodes : \A d \in Workers : Holds(d, m) => sameHandler(d)
      BY <1>1
    <2> QED
      BY <1>2, <2>1, HoldsFrame DEF sameTasks
  <1>4. Grown(log, log') /\ GoodLog(log') /\ TasksPerNode'
    BY <1>1, <1>2, NothingAppended DEF TaskInv, TasksPerNode
  <1> QED
    BY <1>1, <1>2, <1>3, <1>4, OneHandlerTasks

LEMMA DispatchedTasks ==
  ASSUME TaskInv, LogInv, NEW c \in Workers, Dispatched(c)
  PROVE  TaskInv'
  <1> DEFINE t == [hand[c] EXCEPT !.DispatchedAt = wait[c]]
  <1>1. HandlerTask(c) /\ pc[c] = "dispatch" /\ Answered(at[c], wait[c])
    BY DEF TaskInv, Dispatched
  <1>2. TypedTask(log, t)
    <2>1. wait[c] \in 0..Len(log)
      BY <1>1 DEF HandlerTask, Answered, Failed
    <2> QED
      BY <1>1, <2>1 DEF HandlerTask, TypedTask, NoTask
  <1>3. Enter(c, NoNode, "run", t) /\ UNCHANGED <<log, fsmVars, taskVars, snapVars, spoiled>>
    BY DEF Dispatched
  <1>4. \A m \in Nodes : ~Holds(c, m)
    BY <1>1 DEF Holds
  <1>5. "run" \notin Proposing /\ NoNode \notin Nodes
    BY ClusterAssumption DEF Proposing
  <1> HIDE DEF t
  <1> QED
    BY <1>2, <1>3, <1>4, <1>5, EntersAlone

LEMMA CallsWithoutTask ==
  ASSUME TaskInv, LogInv, NEW c \in Workers, NEW n \in Nodes,
         FindPhaseComplete(c, n) \/ AcceptLateSuccess(c, n)
  PROVE  TaskInv'
  <1>1. /\ pc[c] \in {"idle", "run"} /\ Len(log) \in Nat
        /\ UNCHANGED <<log, fsmVars, taskVars, snapVars, spoiled>>
    BY LenProperties DEF FindPhaseComplete, AcceptLateSuccess, LogInv
  <1>2. \A m \in Nodes : ~Holds(c, m)
    BY <1>1 DEF Holds
  <1>3. CASE FindPhaseComplete(c, n)
    <2>1. Enter(c, n, "advance", NoTask) /\ TypedTask(log, NoTask) /\ "advance" \in Proposing
      BY <1>1, <1>3, NoTaskTyped DEF FindPhaseComplete, Proposing
    <2> QED
      BY <1>1, <1>2, <2>1, EntersAlone
  <1>4. CASE AcceptLateSuccess(c, n)
    <2> DEFINE t == [NoTask EXCEPT !.TaskId = hand[c].TaskId]
    <2>1. Enter(c, n, "complete", t) /\ TypedTask(log, t) /\ "complete" \in Proposing
      BY <1>1, <1>4, NoTaskTyped DEF AcceptLateSuccess, Proposing
    <2> HIDE DEF t
    <2> QED
      BY <1>1, <1>2, <2>1, EntersAlone
  <1> QED
    BY <1>3, <1>4

\* Refuse, and the steps of transitionToNextPhase.
LEMMA QuietHandlers ==
  ASSUME TaskInv, LogInv, NEW c \in Workers,
         Refuse(c) \/ ReadNextPhase(c) \/ EnqueueNext(c)
  PROVE  TaskInv'
  <1>1. CASE Leave(c)
    <2>1. /\ UNCHANGED <<log, fsmVars, taskVars, snapVars, spoiled>>
          /\ pc[c] \in {"dispatch", "advance", "enqueue"}
      BY DEF Refuse, ReadNextPhase, EnqueueNext
    <2>2. pc[c] # "dispatch"
      <3>1. Refuse(c) => wait'[c] = Failed
        BY DEF Refuse, TaskInv, TasksPerNode
      <3>2. wait'[c] = 0
        BY <1>1, <2>1, LeaveTask
      <3> QED
        BY <3>1, <3>2 DEF Failed, ReadNextPhase, EnqueueNext
    <2> QED
      BY <1>1, <2>1, <2>2, LeavesNothing
  <1>2. CASE ~Leave(c)
    <2>0. HandlerTask(c)
      BY DEF TaskInv
    <2>1. /\ UNCHANGED <<log, fsmVars, taskVars, snapVars, spoiled, at, hand>>
          /\ \A d \in Workers \ {c} : sameHandler(d)
          /\ DOMAIN pc' = Workers /\ DOMAIN wait' = Workers
          /\ \/ pc[c] = "dispatch" /\ wait'[c] = Failed /\ pc' = pc
                /\ ~Answered(at[c], wait[c])
             \/ pc'[c] = "enqueue" /\ wait'[c] = 0 /\ pc[c] \in {"advance", "enqueue"}
      BY <1>2 DEF Refuse, ReadNextPhase, EnqueueNext, TaskInv, TasksPerNode, sameHandler, Refused
    <2>2. /\ \A m \in Nodes : sameTasks(m)
          /\ DOMAIN replayTo' = Nodes /\ DOMAIN JobStatus' = Nodes /\ DOMAIN spoiled' = Nodes
      BY <2>1, SameTasksEverywhere
    <2>3. Grown(log, log') /\ GoodLog(log') /\ TasksPerNode'
      BY <2>1, <2>2, NothingAppended DEF TaskInv, TasksPerNode
    <2>4. ASSUME NEW m \in Nodes PROVE Holding(m) \subseteq Holding(m)'
      <3>1. applied'[m] = applied[m]
        BY <2>2 DEF sameTasks
      <3>2. \A d \in Workers : Holds(d, m) => Holds(d, m)' /\ hand'[d] = hand[d]
        BY <2>1, <3>1 DEF Holds, sameHandler, Answered, Failed
      <3> QED
        BY <3>2 DEF Holding
    <2>5. HandlerTask(c)'
      <3>1. Len(log) \in Nat
        BY LenProperties DEF LogInv
      <3> QED
        BY <2>0, <2>1, <3>1 DEF HandlerTask, Proposing, Failed
    <2> QED
      BY <2>1, <2>2, <2>3, <2>4, <2>5, OneHandlerTasks
  <1> QED
    BY <1>1, <1>2

(***************************************************************************)
(* Proposals                                                               *)
(***************************************************************************)
\* The log stays good when the entry appended is.
LEMMA GoodLogGrows ==
  ASSUME GoodLog(log), Grown(log, log'), Len(log') = Len(log) + 1,
         GoodEntry(log', Len(log) + 1)
  PROVE  GoodLog(log')
  <1> SUFFICES ASSUME NEW i \in 1..Len(log') PROVE GoodEntry(log', i)
    BY DEF GoodLog
  <1>1. CASE i = Len(log) + 1
    BY <1>1
  <1>2. CASE i # Len(log) + 1
    <2>1. i \in 1..Len(log)
      BY <1>2 DEF Grown
    <2>2. GoodEntry(log, i) /\ log'[i] = log[i]
      BY <2>1 DEF GoodLog, Grown
    <2>3. /\ TypedTask(log, log[i].task) => TypedTask(log', log[i].task)
          /\ MadeBy(log, log[i].task) => MadeBy(log', log[i].task)
      BY TaskGrows
    <2> QED
      BY <2>2, <2>3 DEF GoodEntry
  <1> QED
    BY <1>1, <1>2

LEMMA EnqueueEntryGood ==
  ASSUME LogInv, GoodLog(log), NEW id, NEW phase,
         log' = Append(log, Command("EnqueueTask", NewTask(id, phase)))
  PROVE  GoodLog(log')
  <1> DEFINE t == NewTask(id, phase)
             e == Command("EnqueueTask", t)
  <1>1. e.type = "EnqueueTask" /\ e.task = t
    BY DEF Command
  <1> HIDE DEF e, t
  <1>2. log' = Append(log, e)
    BY DEF e, t
  <1>3. /\ Grown(log, log') /\ Len(log') = Len(log) + 1 /\ log'[Len(log) + 1] = e
        /\ Len(log) \in Nat
    BY <1>2, OneAppended
  <1>4. TypedTask(log', t) /\ t.DispatchedAt = 0
    <2>1. Len(log') \in Nat
      BY <1>3
    <2> QED
      BY <2>1, NoTaskTyped DEF t
  <1>5. GoodEntry(log', Len(log) + 1)
    BY <1>1, <1>3, <1>4 DEF GoodEntry
  <1> QED
    BY <1>3, <1>5, GoodLogGrows

LEMMA ProposeTasks ==
  ASSUME TaskInv, LogInv, NEW c \in Workers, Propose(c)
  PROVE  TaskInv'
  <1>1. /\ pc[c] \in Proposing /\ wait[c] = 0
        /\ log' = Append(log, CommandOf(c))
        /\ wait' = [wait EXCEPT ![c] = Len(log) + 1]
        /\ UNCHANGED <<fsmVars, taskVars, snapVars, spoiled, pc, at, hand>>
        /\ HandlerTask(c)
    BY DEF Propose, TaskInv
  <1>2. /\ Grown(log, log') /\ Len(log') = Len(log) + 1 /\ log'[Len(log) + 1] = CommandOf(c)
        /\ Len(log) \in Nat
    BY <1>1, OneAppended
  <1>3. /\ \A m \in Nodes : sameTasks(m)
        /\ DOMAIN replayTo' = Nodes /\ DOMAIN JobStatus' = Nodes /\ DOMAIN spoiled' = Nodes
    BY <1>1, SameTasksEverywhere
  <1>4. /\ pc[c] = "dispatch" => CommandOf(c).type = "DispatchTask" /\ CommandOf(c).task = hand[c]
        /\ pc[c] = "complete" => CommandOf(c).type = "CompleteTask" /\ CommandOf(c).task = hand[c]
        /\ pc[c] \in {"fail", "advance"} =>
              CommandOf(c).type \notin {"EnqueueTask", "DispatchTask"}
        /\ pc[c] = "enqueue" =>
              CommandOf(c) = Command("EnqueueTask", NewTask(walk[c].next, walk[c].phase))
    BY DEF CommandOf, Command
  <1>5. GoodLog(log')
    <2>1. CASE pc[c] = "enqueue"
      BY <1>1, <1>4, <2>1, EnqueueEntryGood DEF TaskInv
    <2>2. CASE pc[c] \in {"fail", "advance", "complete"}
      <3>1. GoodEntry(log', Len(log) + 1)
        BY <1>2, <1>4, <2>2 DEF GoodEntry
      <3> QED
        BY <1>2, <3>1, GoodLogGrows DEF TaskInv
    <2>3. CASE pc[c] = "dispatch"
      <3>1. QueuedTask(log, hand[c])
        BY <1>1, <2>3 DEF HandlerTask
      <3>2. /\ TypedTask(log', hand[c]) /\ MadeBy(log', hand[c])
            /\ hand[c].obj < Len(log) + 1
        BY <1>2, <3>1, TaskGrows DEF QueuedTask, MadeBy
      <3>3. GoodEntry(log', Len(log) + 1)
        BY <1>2, <1>4, <2>3, <3>2 DEF GoodEntry
      <3> QED
        BY <1>2, <3>3, GoodLogGrows DEF TaskInv
    <2> QED
      BY <1>1, <2>1, <2>2, <2>3 DEF Proposing
  <1>6. /\ \A d \in Workers \ {c} : sameHandler(d)
        /\ TasksPerNode' /\ wait'[c] = Len(log) + 1
    BY <1>1, <1>3 DEF TaskInv, TasksPerNode, sameHandler
  <1>7. ASSUME NEW m \in Nodes PROVE Holding(m) \subseteq Holding(m)'
    <2>1. applied'[m] = applied[m] /\ applied[m] \in 0..Len(log)
      BY <1>3, NodeNumbers DEF sameTasks
    <2>2. ~Answered(m, wait[c])' /\ ~Answered(m, wait[c])
      BY <1>1, <1>2, <1>6, <2>1 DEF Answered
    <2>3. \A d \in Workers : Holds(d, m) => Holds(d, m)' /\ hand'[d] = hand[d]
      BY <1>1, <1>6, <2>1, <2>2 DEF Holds, sameHandler, Answered
    <2> QED
      BY <2>3 DEF Holding
  <1>8. HandlerTask(c)'
    <2>1. /\ TypedTask(log', hand[c])
          /\ QueuedTask(log, hand[c]) => QueuedTask(log', hand[c])
      BY <1>1, <1>2, TaskGrows DEF HandlerTask
    <2>2. wait'[c] \in 0..Len(log')
      BY <1>2, <1>6
    <2> QED
      BY <1>1, <1>2, <1>4, <1>6, <2>1, <2>2 DEF HandlerTask
  <1> QED
    BY <1>2, <1>3, <1>5, <1>6, <1>7, <1>8, OneHandlerTasks

\* What neither a node's tasks nor the handlers show.
LEMMA NoTaskMoved ==
  ASSUME TaskInv, LogInv, Grown(log, log'), GoodLog(log'),
         UNCHANGED <<applied, failedTasks, taskVars, snapVars, spoiled, clientVars>>
  PROVE  TaskInv'
  <1>1. /\ \A m \in Nodes : sameTasks(m)
        /\ \A c \in Workers : sameHandler(c)
        /\ TasksPerNode'
    BY DEF TaskInv, TasksPerNode, sameTasks, sameHandler, taskVars, snapVars, clientVars
  <1>2. \A m \in Nodes : Holding(m) \subseteq Holding(m)'
    BY <1>1, HoldsFrame DEF sameTasks
  <1>3. \A m \in Nodes : AllTasks(m)'
    BY <1>1, <1>2, NodeFrame DEF TaskInv
  <1>4. \A c \in Workers : HandlerTask(c)'
    BY <1>1, HandlerFrame DEF TaskInv
  <1> QED
    BY <1>1, <1>3, <1>4 DEF TaskInv

LEMMA StreamTasks ==
  ASSUME TaskInv, LogInv, NEW k, Stream(k)
  PROVE  TaskInv'
  <1>1. UNCHANGED <<applied, failedTasks, taskVars, snapVars, spoiled, clientVars>>
    BY DEF Stream, StreamChunk, StreamGoesOn, StreamEnds, fsmVars
  <1>2. CASE UNCHANGED log
    BY <1>1, <1>2, NothingAppended, NoTaskMoved DEF TaskInv
  <1>3. CASE log' # log
    <2>1. log' = Append(log, Command("EnqueueTask", NewTask(stream[k].next, 0)))
      BY <1>3 DEF Stream, StreamChunk, StreamGoesOn, StreamEnds
    <2>2. GoodLog(log')
      BY <2>1, EnqueueEntryGood DEF TaskInv
    <2>3. Grown(log, log')
      BY <2>1, OneAppended
    <2> QED
      BY <1>1, <2>2, <2>3, NoTaskMoved
  <1> QED
    BY <1>2, <1>3

LEMMA OutsideTasks ==
  ASSUME TaskInv, LogInv, NEW n \in Nodes, Elect(n) \/ SubmitJob(n)
  PROVE  TaskInv'
  <1>1. UNCHANGED <<log, applied, failedTasks, taskVars, snapVars, spoiled, clientVars>>
    BY DEF Elect, SubmitJob, fsmVars
  <1> QED
    BY <1>1, NothingAppended, NoTaskMoved DEF TaskInv

(***************************************************************************)
(* Steps at one node, outside the log                                      *)
(***************************************************************************)
\* A node's snapshots, when neither they nor its inFlight are touched.
LEMMA SnapshotsSame ==
  ASSUME NEW n, AllTasks(n), UNCHANGED log, applied'[n] = applied[n],
         replayTo'[n] = replayTo[n], snap'[n] = snap[n], taking'[n] = taking[n],
         inFlight'[n] = inFlight[n]
  PROVE  /\ StoredTasks(log, snap[n])'
         /\ taking'[n] # NoSnapshot => TakenTasks(n)'
  BY DEF AllTasks, StoredTasks, TakenTasks, Horizon, PersistedInFlight

\* What is under way is good for the horizon that the node has after the step.
TakenFor(n, h) ==
    /\ {"upto", "JobStatus", "spoiled", "live"} \subseteq DOMAIN taking[n]
    /\ taking[n].index > snap[n].index =>
          GoodTasks(log, taking[n].index, h, taking[n].failedTasks, taking[n].JobStatus,
                    PersistedInFlight(n), {}, taking[n].spoiled)

\* A task leaves the inFlight that the snapshot under way shares.
LEMMA TakenTorn ==
  ASSUME LogInv, NEW n \in Nodes, UNCHANGED log, snap'[n] = snap[n], Tear(n),
         inFlight'[n] \subseteq inFlight[n],
         NEW h, Horizon(n)' = h,
         taking[n] # NoSnapshot => taking[n].index <= applied'[n] /\ TakenFor(n, h)
  PROVE  taking'[n] # NoSnapshot => TakenTasks(n)'
  <1>1. ASSUME ~Shared(n), taking[n] # NoSnapshot PROVE TakenTasks(n)'
    <2>1. taking' = taking /\ ~taking[n].live
      BY <1>1 DEF Tear, Shared
    <2> QED
      BY <1>1, <2>1 DEF TakenFor, TakenTasks, PersistedInFlight
  <1>2. ASSUME Shared(n) PROVE TakenTasks(n)'
    <2> DEFINE s == [taking[n] EXCEPT !.spoiled = @ \cup {"Dropped"}]
    <2>1. /\ taking[n] # NoSnapshot /\ TakenFor(n, h) /\ taking[n].index <= applied'[n]
          /\ taking[n].live /\ GoodImage(log, taking[n]) /\ DOMAIN taking = Nodes
      BY <1>2 DEF Shared, LogInv, GoodSnapshots, PerNode
    <2>2. taking'[n] = s
      BY <1>2, <2>1 DEF Tear
    <2>3. /\ DOMAIN s = DOMAIN taking[n] /\ s.live = taking[n].live
          /\ s.index = taking[n].index /\ s.failedTasks = taking[n].failedTasks
          /\ s.JobStatus = taking[n].JobStatus
          /\ s.spoiled = taking[n].spoiled \cup {"Dropped"}
      BY <2>1 DEF TakenFor, GoodImage, ImageFields
    <2> HIDE DEF s
    <2>4. ASSUME taking[n].index > snap[n].index
          PROVE  GoodTasks(log, s.index, h, s.failedTasks, s.JobStatus, inFlight'[n], {},
                           s.spoiled)
      <3>1. GoodTasks(log, taking[n].index, h, taking[n].failedTasks,
                      taking[n].JobStatus, inFlight[n], {}, taking[n].spoiled)
        BY <2>1, <2>4 DEF TakenFor, PersistedInFlight
      <3>2. taking[n].index \in Nat /\ taking[n].failedTasks \in Nat
        BY <2>1, NodeNumbers
      <3>3. inFlight'[n] \in SUBSET inFlight[n]
        OBVIOUS
      <3>4. GoodTasks(log, taking[n].index, h, taking[n].failedTasks,
                      taking[n].JobStatus, inFlight'[n], {}, taking[n].spoiled \cup {"Dropped"})
        BY <3>1, <3>2, <3>3, GoodTasksTorn
      <3> QED
        BY <2>3, <3>4
    <2>5. PersistedInFlight(n)' = inFlight'[n]
      BY <2>1, <2>2, <2>3 DEF PersistedInFlight
    <2> QED
      BY <2>1, <2>2, <2>3, <2>4, <2>5 DEF TakenTasks, TakenFor
  <1>3. ~Shared(n) => taking' = taking
    BY DEF Tear
  <1>4. taking'[n] # NoSnapshot => taking[n] # NoSnapshot
    BY <1>3 DEF Shared
  <1> QED
    BY <1>1, <1>2, <1>4

LEMMA SnapshotsTorn ==
  ASSUME LogInv, NEW n \in Nodes, AllTasks(n), UNCHANGED log, applied'[n] = applied[n],
         replayTo'[n] = replayTo[n], snap'[n] = snap[n], Tear(n),
         inFlight'[n] \subseteq inFlight[n]
  PROVE  /\ StoredTasks(log, snap[n])'
         /\ taking'[n] # NoSnapshot => TakenTasks(n)'
  <1> DEFINE h == Later(applied'[n], replayTo'[n])
  <1>1. StoredTasks(log, snap[n])' /\ Horizon(n)' = h
    BY DEF AllTasks, StoredTasks, Horizon
  <1>2. taking[n] # NoSnapshot => taking[n].index <= applied'[n] /\ TakenFor(n, h)
    BY DEF AllTasks, TakenTasks, TakenFor, Horizon
  <1> HIDE DEF h
  <1> QED
    BY <1>1, <1>2, TakenTorn

\* At the other nodes nothing changes, nor for the handlers there.
LEMMA ElsewhereSame ==
  ASSUME NEW n \in Nodes, NEW c,
         \A m \in Nodes \ {n} : sameTasks(m),
         \A d \in Workers \ {c} : sameHandler(d),
         \A m \in Nodes \ {n} : ~Holds(c, m)
  PROVE  \A m \in Nodes \ {n} : sameTasks(m) /\ Holding(m) \subseteq Holding(m)'
  <1>1. ASSUME NEW m \in Nodes \ {n} PROVE Holding(m) \subseteq Holding(m)'
    <2>1. \A d \in Workers : Holds(d, m) => sameHandler(d)
      OBVIOUS
    <2> QED
      BY <2>1, HoldsFrame DEF sameTasks
  <1> QED
    BY <1>1

\* A task goes from the queue into a handler's hands.
LEMMA TakeTasks ==
  ASSUME TaskInv, LogInv, NEW c \in Workers, NEW n \in Nodes, TakeTask(c, n)
  PROVE  TaskInv'
  <1>1. /\ UNCHANGED <<log, fsmVars, inFlight, snapVars, spoiled>>
        /\ pc[c] = "idle" /\ Len(log) \in Nat /\ AllTasks(n)
    BY LenProperties DEF TakeTask, LogInv, TaskInv
  <1>2. PICK t \in JobStatus[n] :
            /\ JobStatus' = [JobStatus EXCEPT ![n] = @ \ {t}]
            /\ Enter(c, n, "dispatch", [t EXCEPT !.PhaseIdx = phaseIdx[n]])
    BY DEF TakeTask
  <1> DEFINE u == [t EXCEPT !.PhaseIdx = phaseIdx[n]]
  <1>3. QueuedTask(log, u) /\ u.obj = t.obj /\ u.TaskId = t.TaskId
    <2>1. QueuedTask(log, t)
      BY <1>1 DEF AllTasks, NodeTasks, GoodTasks
    <2> QED
      BY <2>1, InPhaseQueued
  <1>4. Enter(c, n, "dispatch", u)
    BY <1>2
  <1> HIDE DEF u
  <1>5. /\ HandlerTask(c)' /\ \A d \in Workers \ {c} : sameHandler(d)
        /\ DOMAIN pc' = Workers /\ DOMAIN at' = Workers /\ DOMAIN hand' = Workers
        /\ DOMAIN wait' = Workers
        /\ pc'[c] = "dispatch" /\ at'[c] = n /\ hand'[c] = u /\ wait'[c] = 0
    <2>1. TypedTask(log', u) /\ QueuedTask(log', u)
      BY <1>1, <1>3 DEF QueuedTask
    <2>2. "dispatch" \in Proposing
      BY DEF Proposing
    <2> QED
      BY <1>1, <1>4, <2>1, <2>2, EnterTask
  <1>6. /\ \A m \in Nodes \ {n} : sameTasks(m)
        /\ applied'[n] = applied[n] /\ replayTo'[n] = replayTo[n]
        /\ failedTasks'[n] = failedTasks[n] /\ inFlight'[n] = inFlight[n]
        /\ spoiled'[n] = spoiled[n] /\ snap'[n] = snap[n] /\ taking'[n] = taking[n]
        /\ JobStatus'[n] = JobStatus[n] \ {t}
        /\ TasksPerNode'
    BY <1>1, <1>2, <1>5 DEF TaskInv, TasksPerNode, sameTasks, fsmVars, snapVars
  <1>7. \A m \in Nodes : ~Holds(c, m)
    BY <1>1 DEF Holds
  <1>8. Holding(n) \cup {u} \subseteq Holding(n)'
    <2>1. Holding(n) \subseteq Holding(n)'
      BY <1>5, <1>6, <1>7, HoldsFrame
    <2>2. u.obj # 0
      BY <1>1, <1>3 DEF QueuedTask, MadeBy
    <2>3. Holds(c, n)'
      BY <1>5, <2>2 DEF Holds, Answered
    <2> QED
      BY <1>5, <2>1, <2>3 DEF Holding
  <1>9. AllTasks(n)'
    <2>1. NodeTasks(n)'
      <3> DEFINE J2 == JobStatus[n] \ {t}
                 H2 == Holding(n)'
      <3>1. GoodTasks(log, applied[n], replayTo[n], failedTasks[n], JobStatus[n], inFlight[n],
                      Holding(n), spoiled[n])
        BY <1>1 DEF AllTasks, NodeTasks
      <3>2. Ids(JobStatus[n] \cup inFlight[n] \cup Holding(n)) \subseteq Ids(J2 \cup inFlight[n] \cup H2)
        BY <1>3, <1>8 DEF Ids
      <3>3. applied[n] \in Nat /\ failedTasks[n] \in Nat /\ spoiled[n] \in SUBSET Mishaps
        BY <3>1, NodeNumbers DEF GoodTasks
      <3>4. J2 \in SUBSET JobStatus[n] /\ inFlight[n] \in SUBSET inFlight[n]
        OBVIOUS
      <3> HIDE DEF J2, H2
      <3>5. GoodTasks(log, applied[n], replayTo[n], failedTasks[n], J2, inFlight[n], H2, spoiled[n])
        BY <3>1, <3>2, <3>3, <3>4, GoodTasksMove
      <3> QED
        BY <1>1, <1>6, <3>5 DEF NodeTasks, J2, H2
    <2> QED
      BY <1>1, <1>6, <2>1, SnapshotsSame DEF AllTasks
  <1>10. \A d \in Workers : HandlerTask(d)'
    BY <1>1, <1>5, NothingAppended, HandlerFrame DEF TaskInv
  <1>11. \A m \in Nodes \ {n} : sameTasks(m) /\ Holding(m) \subseteq Holding(m)'
    BY <1>5, <1>6, <1>7, ElsewhereSame
  <1> QED
    BY <1>1, <1>6, <1>9, <1>10, <1>11, OneNodeTasks

\* A handler at n is the only one that may let go of a task.
LEMMA LetsGo ==
  ASSUME NEW n, NEW c \in Workers, applied'[n] = applied[n],
         \A d \in Workers \ {c} : sameHandler(d)
  PROVE  Ids(Holding(n)) \subseteq Ids(Holding(n)') \cup {hand[c].TaskId}
  <1> SUFFICES ASSUME NEW d \in Workers, Holds(d, n), d # c
               PROVE  hand[d].TaskId \in Ids(Holding(n)')
    BY DEF Ids, Holding
  <1>1. Holds(d, n)' /\ hand'[d] = hand[d]
    BY DEF Holds, sameHandler, Answered
  <1>2. hand[d] \in Holding(n)'
    BY <1>1 DEF Holding
  <1> QED
    BY <1>2 DEF Ids

\* The task of a failed proposal goes back into the queue.
LEMMA DispatchFailedTasks ==
  ASSUME TaskInv, LogInv, NEW c \in Workers, DispatchFailed(c), NEW n \in Nodes, n = at[c]
  PROVE  TaskInv'
  <1> DEFINE t == hand[c]
             more == IF t.obj \in Objs(inFlight[n] \cup JobStatus[n]) THEN {"Doubled"} ELSE {}
  <1>1. /\ pc[c] = "dispatch" /\ Leave(c)
        /\ JobStatus' = [JobStatus EXCEPT ![n] = @ \cup {Undispatched(t)}]
        /\ spoiled' = [spoiled EXCEPT ![n] = @ \cup more]
        /\ UNCHANGED <<log, fsmVars, inFlight, snapVars>>
    BY DEF DispatchFailed, Spoil
  <1>2. HandlerTask(c) /\ Len(log) \in Nat
    BY LenProperties DEF TaskInv, LogInv
  <1>3. QueuedTask(log, t)
    BY <1>1, <1>2 DEF HandlerTask
  <1> HIDE DEF t, more
  <1>4. /\ HandlerTask(c)' /\ \A d \in Workers \ {c} : sameHandler(d)
        /\ DOMAIN pc' = Workers /\ DOMAIN at' = Workers /\ DOMAIN hand' = Workers
        /\ DOMAIN wait' = Workers
    BY <1>1, LeaveTask
  <1>5. /\ \A m \in Nodes \ {n} : sameTasks(m)
        /\ applied'[n] = applied[n] /\ replayTo'[n] = replayTo[n]
        /\ failedTasks'[n] = failedTasks[n] /\ inFlight'[n] = inFlight[n]
        /\ snap'[n] = snap[n] /\ taking'[n] = taking[n]
        /\ JobStatus'[n] = JobStatus[n] \cup {Undispatched(t)}
        /\ spoiled'[n] = spoiled[n] \cup more
        /\ TasksPerNode'
    BY <1>1, <1>4 DEF TaskInv, TasksPerNode, sameTasks, fsmVars, snapVars
  <1>6. AllTasks(n)
    BY DEF TaskInv
  <1>7. NodeTasks(n)'
    <2> DEFINE H2 == Holding(n)'
               mishaps2 == spoiled[n] \cup more
    <2>1. GoodTasks(log, applied[n], replayTo[n], failedTasks[n], JobStatus[n], inFlight[n],
                    Holding(n), spoiled[n])
      BY <1>6 DEF AllTasks, NodeTasks
    <2>2. Ids(Holding(n)) \subseteq Ids(H2) \cup {t.TaskId}
      BY <1>4, <1>5, LetsGo DEF t
    <2>3. applied[n] \in Nat /\ failedTasks[n] \in Nat
      BY NodeNumbers
    <2>4. mishaps2 = spoiled[n] \cup (IF t.obj \in Objs(inFlight[n] \cup JobStatus[n])
                                      THEN {"Doubled"} ELSE {})
      BY DEF more
    <2> HIDE DEF H2, mishaps2
    <2>5. GoodTasks(log, applied[n], replayTo[n], failedTasks[n],
                    JobStatus[n] \cup {Undispatched(t)}, inFlight[n], H2, mishaps2)
      BY <1>2, <1>3, <2>1, <2>2, <2>3, <2>4, GoodTasksPutBack
    <2> QED
      BY <1>1, <1>5, <2>5 DEF NodeTasks, H2, mishaps2
  <1>8. AllTasks(n)'
    BY <1>1, <1>5, <1>6, <1>7, SnapshotsSame DEF AllTasks
  <1>9. \A d \in Workers : HandlerTask(d)'
    BY <1>1, <1>4, NothingAppended, HandlerFrame DEF TaskInv
  <1>10. \A m \in Nodes \ {n} : sameTasks(m) /\ Holding(m) \subseteq Holding(m)'
    <2>1. \A m \in Nodes \ {n} : ~Holds(c, m)
      BY DEF Holds
    <2> QED
      BY <1>4, <1>5, <2>1, ElsewhereSame
  <1> QED
    BY <1>1, <1>5, <1>8, <1>9, <1>10, OneNodeTasks

\* NoticeResult takes the record it found into its hands.
LEMMA AcceptTasks ==
  ASSUME TaskInv, LogInv, NEW c \in Workers, NEW n \in Nodes, NEW msg, AcceptReport(c, n, msg)
  PROVE  TaskInv'
  <1>1. /\ UNCHANGED <<log, fsmVars, JobStatus, snap, replayTo, spoiled>>
        /\ pc[c] = "run" /\ Len(log) \in Nat /\ AllTasks(n) /\ Tear(n)
    BY LenProperties DEF AcceptReport, LogInv, TaskInv
  <1>2. PICK t \in inFlight[n] :
            /\ inFlight' = [inFlight EXCEPT ![n] = @ \ {t}]
            /\ Enter(c, n, Proposal(msg), t)
    BY DEF AcceptReport, Reported, WithId
  <1>3. SentTask(log, t)
    BY <1>1 DEF AllTasks, NodeTasks, GoodTasks, SentTasks
  <1>4. Proposal(msg) \in {"complete", "fail"}
    BY DEF Proposal
  <1>5. /\ HandlerTask(c)' /\ \A d \in Workers \ {c} : sameHandler(d)
        /\ DOMAIN pc' = Workers /\ DOMAIN at' = Workers /\ DOMAIN hand' = Workers
        /\ DOMAIN wait' = Workers
        /\ pc'[c] = Proposal(msg) /\ at'[c] = n /\ hand'[c] = t /\ wait'[c] = 0
    <2>1. TypedTask(log', t)
      BY <1>1, <1>3 DEF SentTask
    <2>2. Proposal(msg) \in Proposing /\ Proposal(msg) # "dispatch"
      BY <1>4 DEF Proposing
    <2> QED
      BY <1>1, <1>2, <2>1, <2>2, EnterTask
  <1>6. /\ DOMAIN taking' = Nodes /\ \A m \in Nodes \ {n} : taking'[m] = taking[m]
    BY <1>1, TakingTouched
  <1>7. /\ \A m \in Nodes \ {n} : sameTasks(m)
        /\ applied'[n] = applied[n] /\ replayTo'[n] = replayTo[n]
        /\ failedTasks'[n] = failedTasks[n] /\ JobStatus'[n] = JobStatus[n]
        /\ spoiled'[n] = spoiled[n] /\ snap'[n] = snap[n]
        /\ inFlight'[n] = inFlight[n] \ {t}
        /\ TasksPerNode'
    <2>1. DOMAIN inFlight = Nodes
      BY DEF LogInv, PerNode
    <2> QED
      BY <1>1, <1>2, <1>5, <1>6, <2>1 DEF TaskInv, TasksPerNode, sameTasks, fsmVars
  <1>8. \A m \in Nodes : ~Holds(c, m)
    BY <1>1 DEF Holds
  <1>9. Holding(n) \cup {t} \subseteq Holding(n)'
    <2>1. Holding(n) \subseteq Holding(n)'
      BY <1>5, <1>7, <1>8, HoldsFrame
    <2>2. t.obj # 0
      BY <1>1, <1>3 DEF SentTask, MadeBy
    <2>3. Holds(c, n)'
      BY <1>4, <1>5, <2>2 DEF Holds, Answered
    <2> QED
      BY <1>5, <2>1, <2>3 DEF Holding
  <1>10. AllTasks(n)'
    <2>1. NodeTasks(n)'
      <3> DEFINE F2 == inFlight[n] \ {t}
                 H2 == Holding(n)'
      <3>1. GoodTasks(log, applied[n], replayTo[n], failedTasks[n], JobStatus[n], inFlight[n],
                      Holding(n), spoiled[n])
        BY <1>1 DEF AllTasks, NodeTasks
      <3>2. Ids(JobStatus[n] \cup inFlight[n] \cup Holding(n)) \subseteq Ids(JobStatus[n] \cup F2 \cup H2)
        BY <1>9 DEF Ids
      <3>3. applied[n] \in Nat /\ failedTasks[n] \in Nat /\ spoiled[n] \in SUBSET Mishaps
        BY <3>1, NodeNumbers DEF GoodTasks
      <3>4. F2 \in SUBSET inFlight[n] /\ JobStatus[n] \in SUBSET JobStatus[n]
        OBVIOUS
      <3> HIDE DEF F2, H2
      <3>5. GoodTasks(log, applied[n], replayTo[n], failedTasks[n], JobStatus[n], F2, H2, spoiled[n])
        BY <3>1, <3>2, <3>3, <3>4, GoodTasksMove
      <3> QED
        BY <1>1, <1>7, <3>5 DEF NodeTasks, F2, H2
    <2>2. inFlight'[n] \subseteq inFlight[n]
      BY <1>7
    <2> QED
      BY <1>1, <1>7, <2>1, <2>2, SnapshotsTorn DEF AllTasks
  <1>11. \A d \in Workers : HandlerTask(d)'
    BY <1>1, <1>5, NothingAppended, HandlerFrame DEF TaskInv
  <1>12. \A m \in Nodes \ {n} : sameTasks(m) /\ Holding(m) \subseteq Holding(m)'
    BY <1>5, <1>7, <1>8, ElsewhereSame
  <1> QED
    BY <1>1, <1>7, <1>10, <1>11, <1>12, OneNodeTasks

\* What a report's handler still holds is lost when it returns.
LEMMA ReturnTasks ==
  ASSUME TaskInv, LogInv, NEW c \in Workers, ReturnReport(c), NEW n \in Nodes, n = at[c]
  PROVE  TaskInv'
  <1> DEFINE more == IF hand[c].obj # 0 /\ (pc[c] = "fail" \/ Refused(n, wait[c]))
                     THEN {"Dropped"} ELSE {}
  <1>1. /\ pc[c] \in {"complete", "fail"} /\ Leave(c)
        /\ Answered(n, wait[c]) \/ Refused(n, wait[c])
        /\ spoiled' = [spoiled EXCEPT ![n] = @ \cup more]
        /\ UNCHANGED <<log, fsmVars, taskVars, snapVars>>
    BY DEF ReturnReport, Spoil
  <1>2. Holds(c, n) => more = {"Dropped"}
    BY <1>1 DEF Holds
  <1>3. more \in {{}, {"Dropped"}} /\ \A m \in Nodes \ {n} : ~Holds(c, m)
    BY DEF Holds
  <1> HIDE DEF more
  <1>4. /\ HandlerTask(c)' /\ \A d \in Workers \ {c} : sameHandler(d)
        /\ DOMAIN pc' = Workers /\ DOMAIN at' = Workers /\ DOMAIN hand' = Workers
        /\ DOMAIN wait' = Workers
    BY <1>1, LeaveTask
  <1>5. /\ \A m \in Nodes \ {n} : sameTasks(m)
        /\ applied'[n] = applied[n] /\ replayTo'[n] = replayTo[n]
        /\ failedTasks'[n] = failedTasks[n] /\ inFlight'[n] = inFlight[n]
        /\ snap'[n] = snap[n] /\ taking'[n] = taking[n] /\ JobStatus'[n] = JobStatus[n]
        /\ spoiled'[n] = spoiled[n] \cup more
        /\ TasksPerNode'
    BY <1>1, <1>4 DEF TaskInv, TasksPerNode, sameTasks, fsmVars, taskVars, snapVars
  <1>6. AllTasks(n)
    BY DEF TaskInv
  <1>7. NodeTasks(n)'
    <2> DEFINE H2 == Holding(n)'
    <2>1. GoodTasks(log, applied[n], replayTo[n], failedTasks[n], JobStatus[n], inFlight[n],
                    Holding(n), spoiled[n])
      BY <1>6 DEF AllTasks, NodeTasks
    <2>2. applied[n] \in Nat /\ failedTasks[n] \in Nat /\ inFlight[n] \in SUBSET inFlight[n]
      BY NodeNumbers
    <2>3. ASSUME more = {"Dropped"}
          PROVE  GoodTasks(log, applied[n], replayTo[n], failedTasks[n], JobStatus[n],
                           inFlight[n], H2, spoiled[n] \cup more)
      <3> HIDE DEF H2
      <3> QED
        BY <2>1, <2>2, <2>3, GoodTasksTorn
    <2>4. ASSUME more = {}
          PROVE  GoodTasks(log, applied[n], replayTo[n], failedTasks[n], JobStatus[n],
                           inFlight[n], H2, spoiled[n] \cup more)
      <3>1. \A d \in Workers : Holds(d, n) => sameHandler(d)
        BY <1>2, <1>4, <2>4
      <3>2. Ids(Holding(n)) \subseteq Ids(H2)
        <4>1. Holding(n) \subseteq Holding(n)'
          BY <1>5, <3>1, HoldsFrame
        <4> QED
          BY <4>1 DEF Ids
      <3>3. spoiled[n] \cup more = spoiled[n]
        BY <2>4
      <3> HIDE DEF H2
      <3>4. GoodTasks(log, applied[n], replayTo[n], failedTasks[n], JobStatus[n],
                      inFlight[n], H2, spoiled[n])
        BY <2>1, <2>2, <3>2, GoodTasksFound
      <3> QED
        BY <3>3, <3>4
    <2> QED
      BY <1>1, <1>3, <1>5, <2>3, <2>4 DEF NodeTasks
  <1>8. AllTasks(n)'
    BY <1>1, <1>5, <1>6, <1>7, SnapshotsSame DEF AllTasks
  <1>9. \A d \in Workers : HandlerTask(d)'
    BY <1>1, <1>4, NothingAppended, HandlerFrame DEF TaskInv
  <1>10. \A m \in Nodes \ {n} : sameTasks(m) /\ Holding(m) \subseteq Holding(m)'
    BY <1>3, <1>4, <1>5, ElsewhereSame
  <1> QED
    BY <1>1, <1>5, <1>8, <1>9, <1>10, OneNodeTasks

\* The sweeper, and CmdFailTask, at the tasks in flight.
LEMMA GiveUpTasks ==
  ASSUME TaskInv, LogInv, NEW n \in Nodes, NEW S \in SUBSET inFlight[n], GiveUpOrRequeue(n, S)
  PROVE  /\ GoodTasks(log, applied[n], replayTo[n], failedTasks'[n], JobStatus'[n],
                      inFlight'[n], Holding(n), spoiled[n])
         /\ inFlight'[n] = inFlight[n] \ S /\ failedTasks'[n] \in Nat
         /\ DOMAIN JobStatus' = Nodes
         /\ \A m \in Nodes \ {n} : /\ failedTasks'[m] = failedTasks[m]
                                   /\ inFlight'[m] = inFlight[m]
                                   /\ JobStatus'[m] = JobStatus[m]
  <1> DEFINE gone == {t \in S : Exhausted(t)}
             again == {Retried(t) : t \in S \ gone}
  <1>1. /\ inFlight' = [inFlight EXCEPT ![n] = @ \ S]
        /\ JobStatus' = [JobStatus EXCEPT ![n] = @ \cup again]
        /\ failedTasks' = [failedTasks EXCEPT ![n] = @ + Cardinality(gone)]
    BY DEF GiveUpOrRequeue
  <1>2. /\ Len(log) \in Nat /\ applied[n] \in Nat /\ failedTasks[n] \in Nat
        /\ IsFiniteSet(inFlight[n]) /\ PerNode
    BY NodeNumbers
  <1>3. GoodTasks(log, applied[n], replayTo[n], failedTasks[n], JobStatus[n], inFlight[n],
                  Holding(n), spoiled[n])
    BY DEF TaskInv, AllTasks, NodeTasks
  <1>4. GoodTasks(log, applied[n], replayTo[n], failedTasks[n] + Cardinality(gone),
                  JobStatus[n] \cup again, inFlight[n] \ S, Holding(n), spoiled[n])
    BY <1>2, <1>3, GoodTasksGiveUp
  <1>5. Cardinality(gone) \in Nat
    <2>1. IsFiniteSet(gone)
      BY <1>2, FS_Subset
    <2> QED
      BY <2>1, FS_CardinalityType
  <1> HIDE DEF gone, again
  <1>6. /\ failedTasks'[n] = failedTasks[n] + Cardinality(gone)
        /\ JobStatus'[n] = JobStatus[n] \cup again /\ inFlight'[n] = inFlight[n] \ S
        /\ DOMAIN JobStatus' = Nodes
        /\ \A m \in Nodes \ {n} : /\ failedTasks'[m] = failedTasks[m]
                                  /\ inFlight'[m] = inFlight[m]
                                  /\ JobStatus'[m] = JobStatus[m]
    BY <1>1, <1>2 DEF TaskInv, TasksPerNode, PerNode
  <1> QED
    BY <1>2, <1>4, <1>5, <1>6

LEMMA SweepTasks ==
  ASSUME TaskInv, LogInv, NEW n \in Nodes, Sweep(n)
  PROVE  TaskInv'
  <1>1. PICK S \in SUBSET inFlight[n] : GiveUpOrRequeue(n, S)
    BY DEF Sweep
  <1>2. /\ UNCHANGED <<log, applied, snap, replayTo, spoiled, clientVars>> /\ Tear(n)
    BY DEF Sweep
  <1>3. /\ GoodTasks(log, applied[n], replayTo[n], failedTasks'[n], JobStatus'[n],
                     inFlight'[n], Holding(n), spoiled[n])
        /\ inFlight'[n] = inFlight[n] \ S /\ DOMAIN JobStatus' = Nodes
        /\ \A m \in Nodes \ {n} : /\ failedTasks'[m] = failedTasks[m]
                                  /\ inFlight'[m] = inFlight[m]
                                  /\ JobStatus'[m] = JobStatus[m]
    BY <1>1, GiveUpTasks
  <1>4. \A m \in Nodes \ {n} : taking'[m] = taking[m]
    BY <1>2, TakingTouched
  <1>5. /\ \A m \in Nodes \ {n} : sameTasks(m)
        /\ TasksPerNode' /\ \A c \in Workers : sameHandler(c)
    BY <1>2, <1>3, <1>4 DEF TaskInv, TasksPerNode, sameTasks, sameHandler, clientVars
  <1>6. \A m \in Nodes : Holding(m)' = Holding(m)
    BY <1>2 DEF Holding, Holds, Answered, clientVars
  <1>7. AllTasks(n)'
    <2>1. NodeTasks(n)'
      BY <1>2, <1>3, <1>6 DEF NodeTasks
    <2>2. inFlight'[n] \subseteq inFlight[n] /\ AllTasks(n)
      BY <1>3 DEF TaskInv
    <2> QED
      BY <1>2, <2>1, <2>2, SnapshotsTorn DEF AllTasks
  <1>8. \A c \in Workers : HandlerTask(c)'
    BY <1>2, <1>5, NothingAppended, HandlerFrame DEF TaskInv
  <1> QED
    BY <1>2, <1>5, <1>6, <1>7, <1>8, OneNodeTasks

(***************************************************************************)
(* Apply                                                                   *)
(***************************************************************************)
\* A handler lets go of its task when its own command is applied.
LEMMA HoldingNext ==
  ASSUME TaskInv, LogInv, NEW n \in Nodes, applied'[n] = applied[n] + 1, UNCHANGED clientVars
  PROVE  /\ Ids(Holding(n)) \subseteq Ids(Holding(n)') \cup {log[applied[n] + 1].task.TaskId}
         /\ log[applied[n] + 1].type \notin {"DispatchTask", "CompleteTask"} =>
               Ids(Holding(n)) \subseteq Ids(Holding(n)')
  <1>1. applied[n] \in Nat /\ Len(log) \in Nat
    BY NodeNumbers
  <1>2. ASSUME NEW d \in Workers, Holds(d, n), ~Holds(d, n)'
        PROVE  /\ log[applied[n] + 1].type \in {"DispatchTask", "CompleteTask"}
               /\ log[applied[n] + 1].task.TaskId = hand[d].TaskId
    <2>1. /\ pc[d] \in {"dispatch", "complete"}
          /\ wait[d] > 0 /\ ~(applied[n] >= wait[d]) /\ applied[n] + 1 >= wait[d]
      BY <1>2 DEF Holds, Answered, clientVars
    <2>2. HandlerTask(d)
      BY DEF TaskInv
    <2>3. wait[d] \in Int
      BY <1>1, <2>2 DEF HandlerTask, Failed
    <2>4. wait[d] = applied[n] + 1
      BY <1>1, <2>1, <2>3
    <2> QED
      BY <2>1, <2>2, <2>4 DEF HandlerTask
  <1>3. ASSUME NEW d \in Workers, Holds(d, n)'
        PROVE  hand[d].TaskId \in Ids(Holding(n)')
    <2>1. hand[d] = hand'[d]
      BY DEF clientVars
    <2>2. hand'[d] \in Holding(n)'
      BY <1>3 DEF Holding
    <2> QED
      BY <2>1, <2>2 DEF Ids
  <1>4. \A id \in Ids(Holding(n)) : \E d \in Workers : Holds(d, n) /\ id = hand[d].TaskId
    BY DEF Ids, Holding
  <1> QED
    BY <1>2, <1>3, <1>4

\* What a snapshot under way shows, seen one entry further ahead.
LEMMA TakenAhead ==
  ASSUME LogInv, NEW n \in Nodes, AllTasks(n), taking[n] # NoSnapshot, applied[n] < Len(log)
  PROVE  /\ TakenTasks(n) /\ taking[n].index \in Nat /\ taking[n].failedTasks \in Nat
         /\ applied[n] \in Nat /\ Len(log) \in Nat /\ snap[n].index \in Nat
         /\ Later(applied[n] + 1, replayTo[n]) \in 0..Len(log)
         /\ applied[n] + 1 <= Later(applied[n] + 1, replayTo[n])
         /\ taking[n].index > snap[n].index =>
               GoodTasks(log, taking[n].index, Later(applied[n] + 1, replayTo[n]),
                         taking[n].failedTasks, taking[n].JobStatus, PersistedInFlight(n), {},
                         taking[n].spoiled)
  <1>1. /\ TakenTasks(n) /\ taking[n].index \in Nat /\ taking[n].failedTasks \in Nat
        /\ applied[n] \in Nat /\ Len(log) \in Nat /\ snap[n].index \in Nat
    BY NodeNumbers DEF AllTasks
  <1>2. replayTo[n] \in 0..Len(log)
    BY DEF AllTasks, NodeTasks, GoodTasks
  <1> DEFINE h == Later(applied[n], replayTo[n])
             h2 == Later(applied[n] + 1, replayTo[n])
  <1>3. h2 \in 0..Len(log) /\ applied[n] + 1 <= h2 /\ h <= h2
    BY <1>1, <1>2 DEF Later
  <1>4. h = Horizon(n)
    BY DEF Horizon
  <1> HIDE DEF h, h2
  <1>5. ASSUME taking[n].index > snap[n].index
        PROVE  GoodTasks(log, taking[n].index, h2, taking[n].failedTasks, taking[n].JobStatus,
                         PersistedInFlight(n), {}, taking[n].spoiled)
    <2>1. GoodTasks(log, taking[n].index, h, taking[n].failedTasks, taking[n].JobStatus,
                    PersistedInFlight(n), {}, taking[n].spoiled)
      BY <1>1, <1>4, <1>5 DEF TakenTasks
    <2> QED
      BY <1>1, <1>3, <2>1, GoodTasksAhead
  <1> QED
    BY <1>1, <1>3, <1>5 DEF h2

\* An entry is applied at n, and its effects there are good.
LEMMA OneApplied ==
  ASSUME TaskInv, LogInv, NEW n \in Nodes,
         applied' = [applied EXCEPT ![n] = applied[n] + 1],
         UNCHANGED <<log, clientVars, replayTo, snap, spoiled>>, DOMAIN JobStatus' = Nodes,
         \A m \in Nodes \ {n} : /\ failedTasks'[m] = failedTasks[m]
                                /\ JobStatus'[m] = JobStatus[m]
                                /\ inFlight'[m] = inFlight[m] /\ taking'[m] = taking[m],
         NodeTasks(n)', taking'[n] # NoSnapshot => TakenTasks(n)'
  PROVE  TaskInv'
  <1>1. \A m \in Nodes \ {n} : sameTasks(m)
    BY DEF LogInv, PerNode, sameTasks
  <1>2. (\A c \in Workers : sameHandler(c)) /\ TasksPerNode'
    BY DEF sameHandler, clientVars, TaskInv, TasksPerNode
  <1>3. \A m \in Nodes \ {n} : Holding(m) \subseteq Holding(m)'
    BY <1>1, <1>2, HoldsFrame DEF sameTasks
  <1>4. AllTasks(n)'
    BY DEF TaskInv, AllTasks, StoredTasks
  <1>5. \A c \in Workers : HandlerTask(c)'
    BY <1>2, NothingAppended, HandlerFrame DEF TaskInv
  <1> QED
    BY <1>1, <1>2, <1>3, <1>4, <1>5, OneNodeTasks

LEMMA ApplyEnqueueTasks ==
  ASSUME TaskInv, LogInv, NEW n \in Nodes, ApplyEnqueueTask(n)
  PROVE  TaskInv'
  <1> DEFINE t == [Entry(n).task EXCEPT !.obj = applied[n] + 1]
  <1>1. /\ Applies(n, "EnqueueTask")
        /\ JobStatus' = [JobStatus EXCEPT ![n] = @ \cup {t}]
        /\ UNCHANGED <<log, clientVars, replayTo, snap, spoiled, failedTasks, inFlight, taking>>
    BY DEF ApplyEnqueueTask, snapVars
  <1>2. /\ Len(log) \in Nat /\ applied[n] \in Nat /\ applied[n] < Len(log)
        /\ log[applied[n] + 1].type = "EnqueueTask"
        /\ applied' = [applied EXCEPT ![n] = applied[n] + 1] /\ PerNode
    BY <1>1, AboutToApply
  <1>3. QueuedTask(log, t) /\ t.obj = applied[n] + 1 /\ t.TaskId = log[applied[n] + 1].task.TaskId
    <2>1. applied[n] + 1 \in 1..Len(log)
      BY <1>2
    <2>2. TypedTask(log, log[applied[n] + 1].task) /\ log[applied[n] + 1].task.DispatchedAt = 0
      BY <1>2, <2>1 DEF TaskInv, GoodLog, GoodEntry
    <2>3. TypedTask(log, t) /\ t.obj = applied[n] + 1 /\ t.DispatchedAt = 0
          /\ t.TaskId = log[applied[n] + 1].task.TaskId
      BY <2>1, <2>2 DEF TypedTask, NoTask, Entry
    <2> QED
      BY <1>2, <2>1, <2>3 DEF QueuedTask, MadeBy
  <1> HIDE DEF t
  <1>4. /\ JobStatus'[n] = JobStatus[n] \cup {t} /\ DOMAIN JobStatus' = Nodes
        /\ \A m \in Nodes \ {n} : JobStatus'[m] = JobStatus[m]
        /\ applied'[n] = applied[n] + 1
    BY <1>1, <1>2 DEF TaskInv, TasksPerNode, PerNode
  <1>5. NodeTasks(n)'
    <2> DEFINE H2 == Holding(n)'
    <2>1. GoodTasks(log, applied[n], replayTo[n], failedTasks[n], JobStatus[n], inFlight[n],
                    Holding(n), spoiled[n])
      BY DEF TaskInv, AllTasks, NodeTasks
    <2>2. Ids(Holding(n)) \subseteq Ids(H2)
      BY <1>1, <1>2, <1>4, HoldingNext
    <2>3. failedTasks[n] \in Nat /\ applied[n] + 1 \in Nat
      BY <1>2, NodeNumbers
    <2>4. GoodTasks(log, applied[n] + 1, replayTo[n], failedTasks[n], JobStatus[n] \cup {t},
                    inFlight[n], Holding(n), spoiled[n])
      BY <1>2, <1>3, <2>1, <2>3, GoodTasksEnqueue
    <2> HIDE DEF H2
    <2>5. GoodTasks(log, applied[n] + 1, replayTo[n], failedTasks[n], JobStatus[n] \cup {t},
                    inFlight[n], H2, spoiled[n])
      BY <2>2, <2>3, <2>4, GoodTasksFound
    <2> QED
      BY <1>1, <1>4, <2>5 DEF NodeTasks, H2
  <1>6. ASSUME taking'[n] # NoSnapshot PROVE TakenTasks(n)'
    <2>1. Horizon(n)' = Later(applied[n] + 1, replayTo[n])
          /\ PersistedInFlight(n)' = PersistedInFlight(n)
      BY <1>1, <1>4 DEF Horizon, PersistedInFlight
    <2> QED
      BY <1>1, <1>2, <1>4, <1>6, <2>1, TakenAhead DEF TakenTasks, TaskInv
  <1> QED
    BY <1>1, <1>2, <1>4, <1>5, <1>6, OneApplied

LEMMA ApplyDispatchTasks ==
  ASSUME TaskInv, LogInv, NEW n \in Nodes, ApplyDispatchTask(n)
  PROVE  TaskInv'
  <1> DEFINE t == [Entry(n).task EXCEPT !.DispatchedAt = applied[n] + 1]
             F2 == (inFlight[n] \ WithId(inFlight[n], t.TaskId)) \cup {t}
             J2 == JobStatus[n] \ WithId(JobStatus[n], t.TaskId)
  <1>1. /\ Applies(n, "DispatchTask")
        /\ inFlight' = [inFlight EXCEPT ![n] = F2]
        /\ JobStatus' = [JobStatus EXCEPT ![n] = J2]
        /\ UNCHANGED <<log, clientVars, replayTo, snap, spoiled, failedTasks, taking>>
    BY DEF ApplyDispatchTask, snapVars, removeFromQueue
  <1>2. /\ Len(log) \in Nat /\ applied[n] \in Nat /\ applied[n] < Len(log)
        /\ log[applied[n] + 1].type = "DispatchTask"
        /\ applied' = [applied EXCEPT ![n] = applied[n] + 1] /\ PerNode
    BY <1>1, AboutToApply
  <1>3. /\ SentTask(log, t) /\ t.DispatchedAt = applied[n] + 1
        /\ t.TaskId = log[applied[n] + 1].task.TaskId
    <2> DEFINE e == log[applied[n] + 1].task
    <2>1. applied[n] + 1 \in 1..Len(log)
      BY <1>2
    <2>2. TypedTask(log, e) /\ MadeBy(log, e) /\ e.obj < applied[n] + 1
      BY <1>2, <2>1 DEF TaskInv, GoodLog, GoodEntry
    <2>3. /\ TypedTask(log, t) /\ t.obj = e.obj /\ t.DispatchedAt = applied[n] + 1
          /\ t.TaskId = e.TaskId
      BY <2>1, <2>2 DEF TypedTask, NoTask, Entry
    <2> HIDE DEF t
    <2>4. Dispatches(log[applied[n] + 1], t.obj)
      BY <1>2, <2>3 DEF Dispatches
    <2> QED
      BY <2>2, <2>3, <2>4 DEF SentTask, MadeBy
  <1>4. /\ inFlight'[n] = F2 /\ JobStatus'[n] = J2 /\ DOMAIN JobStatus' = Nodes
        /\ \A m \in Nodes \ {n} : JobStatus'[m] = JobStatus[m] /\ inFlight'[m] = inFlight[m]
        /\ applied'[n] = applied[n] + 1
    BY <1>1, <1>2 DEF TaskInv, TasksPerNode, PerNode
  <1> HIDE DEF t
  <1>5. NodeTasks(n)'
    <2> DEFINE H2 == Holding(n)'
    <2>1. GoodTasks(log, applied[n], replayTo[n], failedTasks[n], JobStatus[n], inFlight[n],
                    Holding(n), spoiled[n])
      BY DEF TaskInv, AllTasks, NodeTasks
    <2>2. Ids(Holding(n)) \subseteq Ids(H2) \cup {t.TaskId}
      BY <1>1, <1>3, <1>4, HoldingNext
    <2>3. failedTasks[n] \in Nat
      BY NodeNumbers
    <2> HIDE DEF H2
    <2>4. GoodTasks(log, applied[n] + 1, replayTo[n], failedTasks[n], J2, F2, H2, spoiled[n])
      BY <1>2, <1>3, <2>1, <2>2, <2>3, GoodTasksDispatch
    <2> HIDE DEF J2, F2
    <2> QED
      BY <1>1, <1>4, <2>4 DEF NodeTasks, H2
  <1>6. ASSUME taking'[n] # NoSnapshot PROVE TakenTasks(n)'
    <2> DEFINE h2 == Later(applied[n] + 1, replayTo[n])
    <2>1. taking[n] # NoSnapshot /\ AllTasks(n)
      BY <1>1, <1>6 DEF TaskInv
    <2>2. /\ TakenTasks(n) /\ taking[n].index \in Nat /\ taking[n].failedTasks \in Nat
          /\ h2 \in 0..Len(log) /\ applied[n] + 1 <= h2
          /\ taking[n].index > snap[n].index =>
                GoodTasks(log, taking[n].index, h2, taking[n].failedTasks, taking[n].JobStatus,
                          PersistedInFlight(n), {}, taking[n].spoiled)
      BY <1>2, <2>1, TakenAhead
    <2>3. Horizon(n)' = h2
      BY <1>1, <1>4 DEF Horizon
    <2> HIDE DEF h2, F2
    <2>4. /\ taking[n].live => PersistedInFlight(n) = inFlight[n] /\ PersistedInFlight(n)' = F2
          /\ ~taking[n].live => PersistedInFlight(n)' = PersistedInFlight(n)
      BY <1>1, <1>4 DEF PersistedInFlight
    <2>5. taking[n].index <= applied[n] /\ taking[n].index <= applied[n] + 1
      BY <1>2, <2>2 DEF TakenTasks
    <2>6. ASSUME taking[n].live, taking[n].index > snap[n].index
          PROVE  GoodTasks(log, taking[n].index, h2, taking[n].failedTasks, taking[n].JobStatus,
                           F2, {}, taking[n].spoiled)
      <3>1. t.DispatchedAt \in (taking[n].index + 1)..h2
        BY <1>2, <1>3, <2>2, <2>5
      <3>2. GoodTasks(log, taking[n].index, h2, taking[n].failedTasks, taking[n].JobStatus,
                      inFlight[n], {}, taking[n].spoiled)
        BY <2>2, <2>4, <2>6
      <3> QED
        BY <1>2, <1>3, <2>2, <3>1, <3>2, GoodTasksLateDispatch DEF F2
    <2> QED
      BY <1>1, <1>4, <2>2, <2>3, <2>4, <2>5, <2>6 DEF TakenTasks
  <1> HIDE DEF F2, J2
  <1> QED
    BY <1>1, <1>2, <1>4, <1>5, <1>6, OneApplied

LEMMA ApplyCompleteTasks ==
  ASSUME TaskInv, LogInv, NEW n \in Nodes, ApplyCompleteTask(n)
  PROVE  TaskInv'
  <1> DEFINE id == Entry(n).task.TaskId
             F2 == inFlight[n] \ WithId(inFlight[n], id)
  <1>1. /\ Applies(n, "CompleteTask")
        /\ inFlight' = [inFlight EXCEPT ![n] = F2]
        /\ UNCHANGED <<log, clientVars, replayTo, snap, spoiled, failedTasks, taking, JobStatus>>
    BY DEF ApplyCompleteTask, snapVars
  <1>2. /\ Len(log) \in Nat /\ applied[n] \in Nat /\ applied[n] < Len(log)
        /\ log[applied[n] + 1].type = "CompleteTask"
        /\ applied' = [applied EXCEPT ![n] = applied[n] + 1] /\ PerNode
    BY <1>1, AboutToApply
  <1>3. id = log[applied[n] + 1].task.TaskId
    BY DEF Entry
  <1>4. /\ inFlight'[n] = F2 /\ JobStatus'[n] = JobStatus[n] /\ DOMAIN JobStatus' = Nodes
        /\ \A m \in Nodes \ {n} : JobStatus'[m] = JobStatus[m] /\ inFlight'[m] = inFlight[m]
        /\ applied'[n] = applied[n] + 1
    BY <1>1, <1>2 DEF TaskInv, TasksPerNode, PerNode
  <1> HIDE DEF id
  <1>5. NodeTasks(n)'
    <2> DEFINE H2 == Holding(n)'
    <2>1. GoodTasks(log, applied[n], replayTo[n], failedTasks[n], JobStatus[n], inFlight[n],
                    Holding(n), spoiled[n])
      BY DEF TaskInv, AllTasks, NodeTasks
    <2>2. Ids(Holding(n)) \subseteq Ids(H2) \cup {id}
      BY <1>1, <1>3, <1>4, HoldingNext
    <2>3. failedTasks[n] \in Nat
      BY NodeNumbers
    <2> HIDE DEF H2
    <2>4. GoodTasks(log, applied[n] + 1, replayTo[n], failedTasks[n], JobStatus[n], F2, H2,
                    spoiled[n])
      BY <1>2, <1>3, <2>1, <2>2, <2>3, GoodTasksComplete
    <2> HIDE DEF F2
    <2> QED
      BY <1>1, <1>4, <2>4 DEF NodeTasks, H2
  <1>6. ASSUME taking'[n] # NoSnapshot PROVE TakenTasks(n)'
    <2> DEFINE h2 == Later(applied[n] + 1, replayTo[n])
               j == applied[n] + 1
    <2>1. taking[n] # NoSnapshot /\ AllTasks(n)
      BY <1>1, <1>6 DEF TaskInv
    <2>2. /\ TakenTasks(n) /\ taking[n].index \in Nat /\ taking[n].failedTasks \in Nat
          /\ h2 \in 0..Len(log) /\ j <= h2
          /\ taking[n].index > snap[n].index =>
                GoodTasks(log, taking[n].index, h2, taking[n].failedTasks, taking[n].JobStatus,
                          PersistedInFlight(n), {}, taking[n].spoiled)
      BY <1>2, <2>1, TakenAhead
    <2>3. Horizon(n)' = h2
      BY <1>1, <1>4 DEF Horizon
    <2> HIDE DEF h2, F2
    <2>4. /\ taking[n].live => PersistedInFlight(n) = inFlight[n] /\ PersistedInFlight(n)' = F2
          /\ ~taking[n].live => PersistedInFlight(n)' = PersistedInFlight(n)
      BY <1>1, <1>4 DEF PersistedInFlight
    <2>5. taking[n].index <= applied[n] /\ taking[n].index <= j
      BY <1>2, <2>2 DEF TakenTasks
    <2>6. ASSUME taking[n].live, taking[n].index > snap[n].index
          PROVE  GoodTasks(log, taking[n].index, h2, taking[n].failedTasks, taking[n].JobStatus,
                           F2, {}, taking[n].spoiled)
      <3>1. j \in (taking[n].index + 1)..h2
        BY <1>2, <2>2, <2>5
      <3>2. GoodTasks(log, taking[n].index, h2, taking[n].failedTasks, taking[n].JobStatus,
                      inFlight[n], {}, taking[n].spoiled)
        BY <2>2, <2>4, <2>6
      <3>3. log[j].type = "CompleteTask" /\ id = log[j].task.TaskId
        BY <1>2, <1>3
      <3> HIDE DEF j
      <3> QED
        BY <1>2, <2>2, <3>1, <3>2, <3>3, GoodTasksLateComplete DEF F2
    <2> QED
      BY <1>1, <1>4, <2>2, <2>3, <2>4, <2>5, <2>6 DEF TakenTasks
  <1> HIDE DEF F2
  <1> QED
    BY <1>1, <1>2, <1>4, <1>5, <1>6, OneApplied

LEMMA ApplyFailTasks ==
  ASSUME TaskInv, LogInv, NEW n \in Nodes, ApplyFailTask(n)
  PROVE  TaskInv'
  <1> DEFINE S == WithId(inFlight[n], Entry(n).task.TaskId)
             h2 == Later(applied[n] + 1, replayTo[n])
  <1>1. /\ Applies(n, "FailTask") /\ GiveUpOrRequeue(n, S) /\ S \in SUBSET inFlight[n]
        /\ UNCHANGED <<log, clientVars, replayTo, snap, spoiled>>
        /\ IF S = {} THEN UNCHANGED taking ELSE Tear(n)
    BY DEF ApplyFailTask, WithId
  <1> HIDE DEF S
  <1>2. /\ Len(log) \in Nat /\ applied[n] \in Nat /\ applied[n] < Len(log)
        /\ log[applied[n] + 1].type = "FailTask"
        /\ applied' = [applied EXCEPT ![n] = applied[n] + 1] /\ PerNode
        /\ applied'[n] = applied[n] + 1
    BY <1>1, AboutToApply DEF PerNode
  <1>3. /\ GoodTasks(log, applied[n], replayTo[n], failedTasks'[n], JobStatus'[n],
                     inFlight'[n], Holding(n), spoiled[n])
        /\ inFlight'[n] = inFlight[n] \ S /\ failedTasks'[n] \in Nat
        /\ DOMAIN JobStatus' = Nodes
        /\ \A m \in Nodes \ {n} : /\ failedTasks'[m] = failedTasks[m]
                                  /\ inFlight'[m] = inFlight[m]
                                  /\ JobStatus'[m] = JobStatus[m]
    BY <1>1, GiveUpTasks
  <1>4. \A m \in Nodes \ {n} : taking'[m] = taking[m]
    BY <1>1, TakingTouched
  <1>5. NodeTasks(n)'
    <2> DEFINE H2 == Holding(n)'
               F2 == inFlight'[n]
               J2 == JobStatus'[n]
               failed == failedTasks'[n]
    <2>1. Ids(Holding(n)) \subseteq Ids(H2)
      BY <1>1, <1>2, HoldingNext
    <2>2. applied[n] + 1 \in Nat
      BY <1>2
    <2> HIDE DEF H2, F2, J2, failed
    <2>3. /\ GoodTasks(log, applied[n], replayTo[n], failed, J2, F2, Holding(n), spoiled[n])
          /\ failed \in Nat
      BY <1>3 DEF F2, J2, failed
    <2>4. GoodTasks(log, applied[n] + 1, replayTo[n], failed, J2, F2, Holding(n), spoiled[n])
      BY <1>2, <2>3, GoodTasksSkip
    <2>5. GoodTasks(log, applied[n] + 1, replayTo[n], failed, J2, F2, H2, spoiled[n])
      BY <2>1, <2>2, <2>3, <2>4, GoodTasksFound
    <2> QED
      BY <1>1, <1>2, <2>5 DEF NodeTasks, H2, F2, J2, failed
  <1>6. taking'[n] # NoSnapshot => TakenTasks(n)'
    <2>1. Horizon(n)' = h2
      BY <1>1, <1>2 DEF Horizon
    <2>2. taking[n] # NoSnapshot => taking[n].index <= applied'[n] /\ TakenFor(n, h2)
      <3> SUFFICES ASSUME taking[n] # NoSnapshot
                   PROVE  taking[n].index <= applied'[n] /\ TakenFor(n, h2)
        OBVIOUS
      <3>1. /\ TakenTasks(n) /\ taking[n].index \in Nat
            /\ taking[n].index > snap[n].index =>
                  GoodTasks(log, taking[n].index, h2, taking[n].failedTasks,
                            taking[n].JobStatus, PersistedInFlight(n), {}, taking[n].spoiled)
        BY <1>2, TakenAhead DEF TaskInv
      <3> HIDE DEF h2
      <3> QED
        BY <1>2, <3>1 DEF TakenTasks, TakenFor
    <2> HIDE DEF h2
    <2>3. CASE S = {}
      <3>1. taking' = taking /\ inFlight'[n] = inFlight[n]
        BY <1>1, <1>3, <2>3
      <3>2. PersistedInFlight(n)' = PersistedInFlight(n)
        BY <3>1 DEF PersistedInFlight
      <3> QED
        BY <1>1, <2>1, <2>2, <3>1, <3>2 DEF TakenFor, TakenTasks
    <2>4. CASE S # {}
      <3>1. Tear(n) /\ inFlight'[n] \subseteq inFlight[n]
        BY <1>1, <1>3, <2>4
      <3> QED
        BY <1>1, <2>1, <2>2, <3>1, TakenTorn
    <2> QED
      BY <2>3, <2>4
  <1> QED
    BY <1>1, <1>2, <1>3, <1>4, <1>5, <1>6, OneApplied

\* Detach keeps what the snapshot under way would have stored.
LEMMA TakenDetached ==
  ASSUME LogInv, NEW n \in Nodes, Detach(n), taking'[n] # NoSnapshot,
         {"upto", "JobStatus", "spoiled", "live"} \subseteq DOMAIN taking[n]
  PROVE  /\ taking[n] # NoSnapshot
         /\ DOMAIN taking'[n] = DOMAIN taking[n]
         /\ taking'[n].index = taking[n].index
         /\ taking'[n].failedTasks = taking[n].failedTasks
         /\ taking'[n].JobStatus = taking[n].JobStatus
         /\ taking'[n].spoiled = taking[n].spoiled
         /\ PersistedInFlight(n)' = PersistedInFlight(n)
  <1>1. CASE Shared(n)
    <2>1. /\ taking[n] # NoSnapshot /\ taking[n].live /\ GoodImage(log, taking[n])
          /\ DOMAIN taking = Nodes
          /\ taking' = [taking EXCEPT ![n].live = FALSE, ![n].inFlight = inFlight[n]]
      BY <1>1 DEF Shared, Detach, LogInv, GoodSnapshots, PerNode
    <2>2. taking'[n] = [taking[n] EXCEPT !.live = FALSE, !.inFlight = inFlight[n]]
      BY <2>1
    <2>3. /\ DOMAIN taking'[n] = DOMAIN taking[n] /\ taking'[n].live = FALSE
          /\ taking'[n].inFlight = inFlight[n]
          /\ taking'[n].index = taking[n].index
          /\ taking'[n].failedTasks = taking[n].failedTasks
          /\ taking'[n].JobStatus = taking[n].JobStatus
          /\ taking'[n].spoiled = taking[n].spoiled
      BY <2>1, <2>2 DEF GoodImage, ImageFields
    <2>4. PersistedInFlight(n)' = PersistedInFlight(n)
      BY <2>1, <2>3 DEF PersistedInFlight
    <2> QED
      BY <2>1, <2>3, <2>4
  <1>2. CASE ~Shared(n)
    <2>1. taking' = taking
      BY <1>2 DEF Detach
    <2>2. taking[n] # NoSnapshot /\ ~taking[n].live
      BY <1>2, <2>1 DEF Shared
    <2> QED
      BY <2>1, <2>2 DEF PersistedInFlight
  <1> QED
    BY <1>1, <1>2

LEMMA ApplyAdvanceTasks ==
  ASSUME TaskInv, LogInv, NEW n \in Nodes, ApplyAdvancePhase(n)
  PROVE  TaskInv'
  <1>1. /\ Applies(n, "AdvancePhase") /\ Detach(n)
        /\ failedTasks' = [failedTasks EXCEPT ![n] = 0]
        /\ inFlight' = [inFlight EXCEPT ![n] = {}]
        /\ UNCHANGED <<log, clientVars, replayTo, snap, spoiled, JobStatus>>
    BY DEF ApplyAdvancePhase
  <1>2. /\ Len(log) \in Nat /\ applied[n] \in Nat /\ applied[n] < Len(log)
        /\ log[applied[n] + 1].type = "AdvancePhase"
        /\ applied' = [applied EXCEPT ![n] = applied[n] + 1] /\ PerNode
        /\ applied'[n] = applied[n] + 1
    BY <1>1, AboutToApply DEF PerNode
  <1>3. /\ failedTasks'[n] = 0 /\ inFlight'[n] = {} /\ DOMAIN JobStatus' = Nodes
        /\ \A m \in Nodes \ {n} : /\ failedTasks'[m] = failedTasks[m]
                                  /\ inFlight'[m] = inFlight[m]
                                  /\ JobStatus'[m] = JobStatus[m]
    BY <1>1, <1>2 DEF PerNode, TaskInv, TasksPerNode
  <1>4. \A m \in Nodes \ {n} : taking'[m] = taking[m]
    BY <1>1, TakingTouched
  <1>5. NodeTasks(n)'
    <2> DEFINE H2 == Holding(n)'
    <2>1. GoodTasks(log, applied[n], replayTo[n], failedTasks[n], JobStatus[n], inFlight[n],
                    Holding(n), spoiled[n])
      BY DEF TaskInv, AllTasks, NodeTasks
    <2> HIDE DEF H2
    <2>2. GoodTasks(log, applied[n] + 1, replayTo[n], 0, JobStatus[n], {}, H2, spoiled[n])
      BY <1>2, <2>1, GoodTasksAdvance
    <2> QED
      BY <1>1, <1>2, <1>3, <2>2 DEF NodeTasks, H2
  <1>6. ASSUME taking'[n] # NoSnapshot PROVE TakenTasks(n)'
    <2> DEFINE h2 == Later(applied[n] + 1, replayTo[n])
    <2>1. taking[n] # NoSnapshot
      BY <1>1, <1>6 DEF Detach, Shared
    <2>2. /\ TakenTasks(n) /\ taking[n].index \in Nat
          /\ taking[n].index > snap[n].index =>
                GoodTasks(log, taking[n].index, h2, taking[n].failedTasks,
                          taking[n].JobStatus, PersistedInFlight(n), {}, taking[n].spoiled)
      BY <1>2, <2>1, TakenAhead DEF TaskInv
    <2>3. {"upto", "JobStatus", "spoiled", "live"} \subseteq DOMAIN taking[n]
          /\ taking[n].index <= applied[n]
      BY <2>2 DEF TakenTasks
    <2>4. Horizon(n)' = h2
      BY <1>1, <1>2 DEF Horizon
    <2>5. /\ DOMAIN taking'[n] = DOMAIN taking[n]
          /\ taking'[n].index = taking[n].index
          /\ taking'[n].failedTasks = taking[n].failedTasks
          /\ taking'[n].JobStatus = taking[n].JobStatus
          /\ taking'[n].spoiled = taking[n].spoiled
          /\ PersistedInFlight(n)' = PersistedInFlight(n)
      BY <1>1, <1>6, <2>3, TakenDetached
    <2> HIDE DEF h2
    <2>6. taking[n].index <= applied'[n] /\ snap'[n] = snap[n] /\ log' = log
      BY <1>1, <1>2, <2>2, <2>3
    <2> QED
      BY <2>2, <2>3, <2>4, <2>5, <2>6 DEF TakenTasks
  <1> QED
    BY <1>1, <1>2, <1>3, <1>4, <1>5, <1>6, OneApplied

(***************************************************************************)
(* Snapshot, Persist, Restore                                              *)
(***************************************************************************)
\* Handlers and their tasks, at every node, when nothing is applied.
LEMMA HandlersSame ==
  ASSUME TaskInv, LogInv, UNCHANGED <<log, clientVars>>
  PROVE  /\ \A c \in Workers : sameHandler(c) /\ HandlerTask(c)'
         /\ DOMAIN pc' = Workers /\ DOMAIN at' = Workers /\ DOMAIN hand' = Workers
         /\ DOMAIN wait' = Workers
         /\ \A m \in Nodes : applied'[m] = applied[m] => Holding(m) \subseteq Holding(m)'
  <1>1. \A c \in Workers : sameHandler(c)
    BY DEF sameHandler, clientVars
  <1>2. \A c \in Workers : HandlerTask(c)'
    BY <1>1, NothingAppended, HandlerFrame DEF TaskInv
  <1>3. \A m \in Nodes : applied'[m] = applied[m] => Holding(m) \subseteq Holding(m)'
    BY <1>1, HoldsFrame
  <1> QED
    BY <1>1, <1>2, <1>3 DEF clientVars, TaskInv, TasksPerNode

\* The snapshot shows neither what handlers hold nor the queue of a later moment.
LEMMA SnapshotTasks ==
  ASSUME TaskInv, LogInv, NEW n \in Nodes, Snapshot(n)
  PROVE  TaskInv'
  <1> DEFINE mishaps2 == spoiled[n] \cup (IF HeldAt(n) # {} THEN {"Dropped"} ELSE {})
             image ==
          [index |-> applied[n], phaseIdx |-> PhaseAt(n), phaseDone |-> phaseDone[n],
           failedTasks |-> failedTasks[n], NumTasks |-> NumTasks[n],
           phaseUUIDs |-> phaseUUIDs[n], sourceDone |-> sourceDone[n],
           JobStatus |-> JobStatus[n], live |-> TRUE, inFlight |-> {},
           upto |-> applied[n], spoiled |-> mishaps2]
  <1>1. /\ taking' = [taking EXCEPT ![n] = image]
        /\ UNCHANGED <<log, fsmVars, taskVars, snap, replayTo, spoiled, clientVars>>
    BY DEF Snapshot
  <1>2. /\ {"upto", "JobStatus", "spoiled", "live"} \subseteq DOMAIN image
        /\ image.index = applied[n] /\ image.failedTasks = failedTasks[n]
        /\ image.JobStatus = JobStatus[n] /\ image.live = TRUE /\ image.spoiled = mishaps2
    OBVIOUS
  <1> HIDE DEF image, mishaps2
  <1>3. /\ Len(log) \in Nat /\ applied[n] \in 0..Len(log) /\ failedTasks[n] \in Nat
        /\ PerNode /\ AllTasks(n) /\ replayTo[n] \in 0..Len(log)
    BY NodeNumbers DEF TaskInv, AllTasks, NodeTasks, GoodTasks
  <1>4. /\ taking'[n] = image /\ inFlight'[n] = inFlight[n]
        /\ applied'[n] = applied[n] /\ replayTo'[n] = replayTo[n] /\ snap'[n] = snap[n]
        /\ failedTasks'[n] = failedTasks[n] /\ JobStatus'[n] = JobStatus[n]
        /\ spoiled'[n] = spoiled[n]
        /\ \A m \in Nodes \ {n} : sameTasks(m)
    BY <1>1, <1>3 DEF PerNode, sameTasks, fsmVars, taskVars
  <1>5. GoodTasks(log, applied[n], Horizon(n), failedTasks[n], JobStatus[n], inFlight[n], {},
                  mishaps2)
    <2> DEFINE h == Horizon(n)
    <2>1. h \in 0..Len(log) /\ replayTo[n] <= h
      BY <1>3 DEF Horizon, Later
    <2>2. GoodTasks(log, applied[n], replayTo[n], failedTasks[n], JobStatus[n], inFlight[n],
                    Holding(n), spoiled[n])
      BY <1>3 DEF AllTasks, NodeTasks
    <2> HIDE DEF h
    <2>3. GoodTasks(log, applied[n], h, failedTasks[n], JobStatus[n], inFlight[n],
                    Holding(n), spoiled[n])
      BY <1>3, <2>1, <2>2, GoodTasksAhead
    <2>4. CASE HeldAt(n) # {}
      <3>1. mishaps2 = spoiled[n] \cup {"Dropped"}
        BY <2>4 DEF mishaps2
      <3>2. inFlight[n] \in SUBSET inFlight[n] /\ applied[n] \in Nat
        BY <1>3
      <3>3. GoodTasks(log, applied[n], h, failedTasks[n], JobStatus[n], inFlight[n], {},
                      spoiled[n] \cup {"Dropped"})
        BY <1>3, <2>3, <3>2, GoodTasksTorn
      <3> QED
        BY <3>1, <3>3 DEF h
    <2>5. CASE HeldAt(n) = {}
      <3>1. mishaps2 = spoiled[n]
        BY <2>5 DEF mishaps2
      <3>2. Holding(n) = {}
        BY <2>5 DEF Holding, Holds, HeldAt
      <3> QED
        BY <2>3, <3>1, <3>2 DEF h
    <2> QED
      BY <2>4, <2>5
  <1>6. TakenTasks(n)'
    <2>1. Horizon(n)' = Horizon(n) /\ PersistedInFlight(n)' = inFlight[n]
      BY <1>2, <1>4 DEF Horizon, PersistedInFlight
    <2>2. applied[n] <= applied[n]
      BY <1>3
    <2> QED
      BY <1>1, <1>2, <1>4, <1>5, <2>1, <2>2 DEF TakenTasks
  <1>7. /\ \A c \in Workers : HandlerTask(c)'
        /\ \A m \in Nodes : Holding(m) \subseteq Holding(m)'
        /\ TasksPerNode'
    BY <1>1, <1>4, HandlersSame DEF TaskInv, TasksPerNode, taskVars, sameTasks
  <1>8. AllTasks(n)'
    <2>1. NodeTasks(n)'
      <3> DEFINE H2 == Holding(n)'
      <3>1. Ids(Holding(n)) \subseteq Ids(H2) /\ applied[n] \in Nat
        BY <1>3, <1>7 DEF Ids
      <3>2. GoodTasks(log, applied[n], replayTo[n], failedTasks[n], JobStatus[n], inFlight[n],
                      Holding(n), spoiled[n])
        BY <1>3 DEF AllTasks, NodeTasks
      <3> HIDE DEF H2
      <3>3. GoodTasks(log, applied[n], replayTo[n], failedTasks[n], JobStatus[n], inFlight[n],
                      H2, spoiled[n])
        BY <1>3, <3>1, <3>2, GoodTasksFound
      <3> QED
        BY <1>1, <1>4, <3>3 DEF NodeTasks, H2
    <2>2. StoredTasks(log, snap[n])'
      BY <1>1, <1>3, <1>4 DEF AllTasks, StoredTasks
    <2> QED
      BY <1>6, <2>1, <2>2 DEF AllTasks
  <1> QED
    BY <1>1, <1>4, <1>7, <1>8, OneNodeTasks

\* What is stored is the snapshot under way.
LEMMA PersistTasks ==
  ASSUME TaskInv, LogInv, NEW n \in Nodes, Persist(n)
  PROVE  TaskInv'
  <1> DEFINE upto == IF replayTo[n] > applied[n] THEN replayTo[n] ELSE applied[n]
             image == [taking[n] EXCEPT !.inFlight = PersistedInFlight(n),
                                        !.live = FALSE, !.upto = upto]
  <1>1. /\ taking' = [taking EXCEPT ![n] = NoSnapshot] /\ taking[n] # NoSnapshot
        /\ snap' = IF taking[n].index <= snap[n].index THEN snap
                   ELSE [snap EXCEPT ![n] = image]
        /\ UNCHANGED <<log, fsmVars, taskVars, replayTo, spoiled, clientVars>>
    BY DEF Persist
  <1>2. /\ Len(log) \in Nat /\ applied[n] \in 0..Len(log) /\ failedTasks[n] \in Nat
        /\ PerNode /\ AllTasks(n) /\ replayTo[n] \in 0..Len(log) /\ TakenTasks(n)
        /\ taking[n].index \in 0..Len(log) /\ snap[n].index \in 0..Len(log)
        /\ GoodImage(log, taking[n])
    BY <1>1, NodeNumbers DEF TaskInv, AllTasks, NodeTasks, GoodTasks, LogInv, GoodSnapshots
  <1>3. upto = Horizon(n) /\ taking[n].index <= upto
    BY <1>2 DEF Horizon, Later, TakenTasks
  <1> HIDE DEF upto
  <1>4. /\ DOMAIN image = DOMAIN taking[n]
        /\ image.index = taking[n].index /\ image.upto = upto
        /\ image.failedTasks = taking[n].failedTasks
        /\ image.JobStatus = taking[n].JobStatus /\ image.spoiled = taking[n].spoiled
        /\ image.inFlight = PersistedInFlight(n)
    BY <1>2 DEF TakenTasks, GoodImage, ImageFields
  <1> HIDE DEF image
  <1>5. taking[n].index > snap[n].index => StoredTasks(log, image)
    BY <1>2, <1>3, <1>4 DEF StoredTasks, TakenTasks
  <1>6. /\ taking'[n] = NoSnapshot
        /\ taking[n].index > snap[n].index => snap'[n] = image
        /\ ~(taking[n].index > snap[n].index) => snap'[n] = snap[n]
        /\ inFlight'[n] = inFlight[n]
        /\ applied'[n] = applied[n] /\ replayTo'[n] = replayTo[n]
        /\ failedTasks'[n] = failedTasks[n] /\ JobStatus'[n] = JobStatus[n]
        /\ spoiled'[n] = spoiled[n]
        /\ \A m \in Nodes \ {n} : sameTasks(m)
    BY <1>1, <1>2 DEF PerNode, sameTasks, fsmVars, taskVars
  <1>7. /\ \A c \in Workers : HandlerTask(c)'
        /\ \A m \in Nodes : Holding(m) \subseteq Holding(m)'
        /\ TasksPerNode'
    BY <1>1, <1>6, HandlersSame DEF TaskInv, TasksPerNode, taskVars, sameTasks
  <1>8. AllTasks(n)'
    <2>1. NodeTasks(n)'
      <3> DEFINE H2 == Holding(n)'
      <3>1. Ids(Holding(n)) \subseteq Ids(H2) /\ applied[n] \in Nat
        BY <1>2, <1>7 DEF Ids
      <3>2. GoodTasks(log, applied[n], replayTo[n], failedTasks[n], JobStatus[n], inFlight[n],
                      Holding(n), spoiled[n])
        BY <1>2 DEF AllTasks, NodeTasks
      <3> HIDE DEF H2
      <3>3. GoodTasks(log, applied[n], replayTo[n], failedTasks[n], JobStatus[n], inFlight[n],
                      H2, spoiled[n])
        BY <1>2, <3>1, <3>2, GoodTasksFound
      <3> QED
        BY <1>1, <1>6, <3>3 DEF NodeTasks, H2
    <2>2. StoredTasks(log', snap'[n])
      BY <1>1, <1>2, <1>5, <1>6 DEF AllTasks, StoredTasks
    <2> QED
      BY <1>6, <2>1, <2>2 DEF AllTasks
  <1> QED
    BY <1>1, <1>6, <1>7, <1>8, OneNodeTasks

\* A node that restores a stored snapshot is good, whatever its handlers hold.
LEMMA RestoreTasks ==
  ASSUME TaskInv, LogInv, UNCHANGED log, NEW n \in Nodes, NEW image, StoredTasks(log, image),
         image.index \in Nat, image.failedTasks \in Nat, Restore(n, image)
  PROVE  /\ NodeTasks(n)' /\ applied'[n] = image.index
         /\ DOMAIN replayTo' = Nodes /\ DOMAIN JobStatus' = Nodes /\ DOMAIN spoiled' = Nodes
         /\ \A m \in Nodes \ {n} :
               /\ applied'[m] = applied[m] /\ replayTo'[m] = replayTo[m]
               /\ failedTasks'[m] = failedTasks[m] /\ JobStatus'[m] = JobStatus[m]
               /\ inFlight'[m] = inFlight[m] /\ spoiled'[m] = spoiled[m]
  <1> DEFINE H2 == Holding(n)'
  <1>1. /\ applied' = [applied EXCEPT ![n] = image.index]
        /\ failedTasks' = [failedTasks EXCEPT ![n] = image.failedTasks]
        /\ inFlight' = [inFlight EXCEPT ![n] = image.inFlight]
        /\ JobStatus' = [JobStatus EXCEPT ![n] = image.JobStatus]
        /\ replayTo' = [replayTo EXCEPT ![n] = image.upto]
        /\ spoiled' = [spoiled EXCEPT ![n] = image.spoiled]
    BY DEF Restore
  <1>2. PerNode /\ TasksPerNode
    BY DEF LogInv, TaskInv
  <1>3. /\ applied'[n] = image.index /\ failedTasks'[n] = image.failedTasks
        /\ inFlight'[n] = image.inFlight /\ JobStatus'[n] = image.JobStatus
        /\ replayTo'[n] = image.upto /\ spoiled'[n] = image.spoiled
        /\ DOMAIN replayTo' = Nodes /\ DOMAIN JobStatus' = Nodes /\ DOMAIN spoiled' = Nodes
        /\ \A m \in Nodes \ {n} :
              /\ applied'[m] = applied[m] /\ replayTo'[m] = replayTo[m]
              /\ failedTasks'[m] = failedTasks[m] /\ JobStatus'[m] = JobStatus[m]
              /\ inFlight'[m] = inFlight[m] /\ spoiled'[m] = spoiled[m]
    BY <1>1, <1>2 DEF PerNode, TasksPerNode
  <1>4. Ids({}) \subseteq Ids(H2)
    BY DEF Ids
  <1> HIDE DEF H2
  <1>5. GoodTasks(log, image.index, image.upto, image.failedTasks, image.JobStatus,
                  image.inFlight, H2, image.spoiled)
    <2>1. GoodTasks(log, image.index, image.upto, image.failedTasks, image.JobStatus,
                    image.inFlight, {}, image.spoiled)
      BY DEF StoredTasks
    <2> QED
      BY <1>4, <2>1, GoodTasksFound
  <1>6. NodeTasks(n)'
    BY <1>3, <1>5 DEF NodeTasks, H2
  <1> QED
    BY <1>3, <1>6

LEMMA CrashTasks ==
  ASSUME TaskInv, LogInv, NEW n \in Nodes, Crash(n)
  PROVE  TaskInv'
  <1>1. /\ Restore(n, snap[n])
        /\ taking' = [taking EXCEPT ![n] = NoSnapshot]
        /\ pc' = [c \in Workers |-> IF at[c] = n THEN "idle" ELSE pc[c]]
        /\ at' = [c \in Workers |-> IF at[c] = n THEN NoNode ELSE at[c]]
        /\ hand' = [c \in Workers |-> IF at[c] = n THEN NoTask ELSE hand[c]]
        /\ wait' = [c \in Workers |-> IF at[c] = n THEN 0 ELSE wait[c]]
        /\ UNCHANGED <<log, snap>>
    BY DEF Crash
  <1>2. /\ Len(log) \in Nat /\ PerNode /\ AllTasks(n)
        /\ snap[n].index \in Nat /\ snap[n].failedTasks \in Nat
    BY NodeNumbers DEF TaskInv
  <1>3. /\ NodeTasks(n)'
        /\ DOMAIN replayTo' = Nodes /\ DOMAIN JobStatus' = Nodes /\ DOMAIN spoiled' = Nodes
        /\ \A m \in Nodes \ {n} :
              /\ applied'[m] = applied[m] /\ replayTo'[m] = replayTo[m]
              /\ failedTasks'[m] = failedTasks[m] /\ JobStatus'[m] = JobStatus[m]
              /\ inFlight'[m] = inFlight[m] /\ spoiled'[m] = spoiled[m]
    <2>1. StoredTasks(log, snap[n])
      BY <1>2 DEF AllTasks
    <2> QED
      BY <1>1, <1>2, <2>1, RestoreTasks
  <1>4. taking'[n] = NoSnapshot /\ \A m \in Nodes \ {n} : sameTasks(m)
    BY <1>1, <1>2, <1>3 DEF PerNode, sameTasks
  <1>5. AllTasks(n)'
    BY <1>1, <1>2, <1>3, <1>4 DEF AllTasks, StoredTasks
  <1>6. ASSUME NEW c \in Workers PROVE HandlerTask(c)'
    <2>1. CASE at[c] = n
      <3>1. pc'[c] = "idle" /\ at'[c] = NoNode /\ hand'[c] = NoTask /\ wait'[c] = 0
        BY <1>1, <2>1
      <3>2. TypedTask(log', NoTask)
        BY <1>1, <1>2, NoTaskTyped
      <3>3. 0 \in 0..Len(log') /\ NoNode \notin Nodes
        BY <1>1, <1>2, ClusterAssumption
      <3> QED
        BY <3>1, <3>2, <3>3 DEF HandlerTask, Proposing
    <2>2. CASE at[c] # n
      <3>1. sameHandler(c)
        BY <1>1, <2>2 DEF sameHandler
      <3> QED
        BY <1>1, <3>1, NothingAppended, HandlerFrame DEF TaskInv
    <2> QED
      BY <2>1, <2>2
  <1>7. \A m \in Nodes \ {n} : sameTasks(m) /\ Holding(m) \subseteq Holding(m)'
    <2>1. ASSUME NEW m \in Nodes \ {n} PROVE Holding(m) \subseteq Holding(m)'
      <3>1. \A c \in Workers : Holds(c, m) => sameHandler(c)
        BY <1>1 DEF Holds, sameHandler
      <3> QED
        BY <1>3, <3>1, HoldsFrame
    <2> QED
      BY <1>4, <2>1
  <1>8. TasksPerNode'
    BY <1>1, <1>3 DEF TasksPerNode
  <1> QED
    BY <1>1, <1>5, <1>6, <1>7, <1>8, OneNodeTasks

\* A snapshot under way is older than the one installed, which stays.
LEMMA InstallTasks ==
  ASSUME TaskInv, LogInv, NEW n \in Nodes, InstallSnapshot(n)
  PROVE  TaskInv'
  <1>1. PICK l \in Nodes : /\ snap[l].index > applied[n]
                           /\ snap' = [snap EXCEPT ![n] = snap[l]]
                           /\ Restore(n, snap[l]) /\ Detach(n)
                           /\ UNCHANGED <<log, clientVars>>
    BY DEF InstallSnapshot
  <1>2. /\ Len(log) \in Nat /\ PerNode /\ AllTasks(n) /\ applied[n] \in Nat
        /\ snap[l].index \in Nat /\ snap[l].failedTasks \in Nat
    BY NodeNumbers DEF TaskInv
  <1>3. StoredTasks(log, snap[l])
    BY DEF TaskInv, AllTasks
  <1>4. /\ NodeTasks(n)' /\ applied'[n] = snap[l].index
        /\ DOMAIN replayTo' = Nodes /\ DOMAIN JobStatus' = Nodes /\ DOMAIN spoiled' = Nodes
        /\ \A m \in Nodes \ {n} :
              /\ applied'[m] = applied[m] /\ replayTo'[m] = replayTo[m]
              /\ failedTasks'[m] = failedTasks[m] /\ JobStatus'[m] = JobStatus[m]
              /\ inFlight'[m] = inFlight[m] /\ spoiled'[m] = spoiled[m]
    BY <1>1, <1>2, <1>3, RestoreTasks
  <1>5. \A m \in Nodes \ {n} : taking'[m] = taking[m]
    BY <1>1, <1>2 DEF Detach, PerNode
  <1>6. snap'[n] = snap[l] /\ \A m \in Nodes \ {n} : sameTasks(m)
    BY <1>1, <1>2, <1>4, <1>5 DEF PerNode, sameTasks
  <1>7. ASSUME taking'[n] # NoSnapshot PROVE TakenTasks(n)'
    <2>1. taking[n] # NoSnapshot
      BY <1>1, <1>7 DEF Detach, Shared
    <2>2. TakenTasks(n) /\ taking[n].index \in Nat
      BY <1>2, <2>1, NodeNumbers DEF AllTasks
    <2>3. {"upto", "JobStatus", "spoiled", "live"} \subseteq DOMAIN taking[n]
          /\ taking[n].index <= applied[n]
      BY <2>2 DEF TakenTasks
    <2>4. DOMAIN taking'[n] = DOMAIN taking[n] /\ taking'[n].index = taking[n].index
      BY <1>1, <1>7, <2>3, TakenDetached
    <2>5. /\ taking'[n].index <= applied'[n]
          /\ ~(taking'[n].index > snap'[n].index)
      BY <1>1, <1>2, <1>4, <1>6, <2>2, <2>3, <2>4
    <2> QED
      BY <2>3, <2>4, <2>5 DEF TakenTasks
  <1>8. AllTasks(n)'
    BY <1>1, <1>3, <1>4, <1>6, <1>7 DEF AllTasks
  <1>9. /\ \A c \in Workers : HandlerTask(c)'
        /\ \A m \in Nodes \ {n} : sameTasks(m) /\ Holding(m) \subseteq Holding(m)'
        /\ TasksPerNode'
    BY <1>1, <1>4, <1>6, HandlersSame DEF TasksPerNode, sameTasks
  <1> QED
    BY <1>1, <1>8, <1>9, OneNodeTasks

(***************************************************************************)
(* The invariant holds                                                     *)
(***************************************************************************)
LEMMA TaskInit == Init => TaskInv
  <1> SUFFICES ASSUME Init PROVE TaskInv
    OBVIOUS
  <1>1. Len(log) = 0 /\ \A i : i \notin 1..Len(log)
    BY EmptySeq DEF Init
  <1>2. OpenIds(log, 0, Later(0, 0)) = {}
    BY DEF OpenIds, OpenTo, Entries, Later
  <1>3. GoodTasks(log, 0, 0, 0, {}, {}, {}, {})
    <2> DEFINE X == OpenIds(log, 0, Later(0, 0)) \ Ids({} \cup {} \cup {})
    <2>1. X = {}
      BY <1>2
    <2> HIDE DEF X
    <2>2. Cardinality(X) <= 0
      <3>1. Cardinality(X) = 0
        BY <2>1, FS_EmptySet
      <3> QED
        BY <3>1
    <2>3. Kept(log, 0, Later(0, 0), {} \cup {} \cup {}, 0)
      BY <2>2 DEF Kept, X
    <2> QED
      BY <1>1, <2>3 DEF GoodTasks, SentTasks, Apart, Objs
  <1>4. ASSUME NEW n \in Nodes PROVE AllTasks(n)
    <2>1. Holding(n) = {}
      BY DEF Init, Holding, Holds, NoTask
    <2>2. NodeTasks(n)
      BY <1>3, <2>1 DEF Init, NodeTasks
    <2>3. StoredTasks(log, FirstSnapshot)
      BY <1>3 DEF StoredTasks, FirstSnapshot
    <2> QED
      BY <2>2, <2>3 DEF Init, AllTasks
  <1>5. ASSUME NEW c \in Workers PROVE HandlerTask(c)
    <2>1. Len(log) \in Nat /\ 0 \in 0..Len(log)
      BY <1>1
    <2>2. TypedTask(log, NoTask)
      BY <2>1, NoTaskTyped
    <2> QED
      BY <2>1, <2>2, ClusterAssumption DEF Init, HandlerTask, Proposing
  <1>6. GoodLog(log)
    BY <1>1 DEF GoodLog
  <1>7. TasksPerNode
    BY DEF Init, TasksPerNode
  <1> QED
    BY <1>4, <1>5, <1>6, <1>7 DEF TaskInv

LEMMA TaskStep == TaskInv /\ LogInv /\ [Next]_vars => TaskInv'
  <1> SUFFICES ASSUME TaskInv, LogInv, [Next]_vars PROVE TaskInv'
    OBVIOUS
  <1>1. ASSUME NEW n \in Nodes, Node(n) PROVE TaskInv'
    BY <1>1, ApplyEnqueueTasks, ApplyDispatchTasks, ApplyCompleteTasks, ApplyFailTasks,
       ApplyAdvanceTasks, SweepTasks, OutsideTasks DEF Node, Apply
  <1>2. ASSUME NEW n \in Nodes, Faults(n) PROVE TaskInv'
    BY <1>2, SnapshotTasks, PersistTasks, CrashTasks, InstallTasks, OutsideTasks DEF Faults
  <1>3. ASSUME NEW c \in Workers, Handler(c) PROVE TaskInv'
    <2>1. at[c] \in Nodes <=> pc[c] \in Proposing
      BY DEF TaskInv, HandlerTask
    <2>2. CASE Propose(c)
      BY <2>2, ProposeTasks
    <2>3. CASE Refuse(c) \/ ReadNextPhase(c) \/ EnqueueNext(c)
      BY <2>3, QuietHandlers
    <2>4. CASE Dispatched(c)
      BY <2>4, DispatchedTasks
    <2>5. CASE DispatchFailed(c)
      <3>1. at[c] \in Nodes
        BY <2>1, <2>5 DEF DispatchFailed, Proposing
      <3> QED
        BY <2>5, <3>1, DispatchFailedTasks
    <2>6. CASE AdvanceFailed(c) \/ GoSilent(c)
      BY <2>6, LeavesNothing DEF AdvanceFailed, GoSilent
    <2>7. CASE PanicOnAdvance(c)
      <3>1. at[c] \in Nodes /\ Crash(at[c])
        BY <2>1, <2>7 DEF PanicOnAdvance, Proposing
      <3> QED
        BY <3>1, CrashTasks
    <2>8. CASE ReturnReport(c)
      <3>1. at[c] \in Nodes
        BY <2>1, <2>8 DEF ReturnReport, Proposing
      <3> QED
        BY <2>8, <3>1, ReturnTasks
    <2> QED
      BY <1>3, <2>2, <2>3, <2>4, <2>5, <2>6, <2>7, <2>8 DEF Handler
  <1>4. ASSUME NEW c \in Workers, NEW n \in Nodes, Call(c, n) PROVE TaskInv'
    <2>1. CASE TakeTask(c, n)
      BY <2>1, TakeTasks
    <2>2. CASE PanicOnTask(c, n)
      BY <2>2, CrashTasks DEF PanicOnTask
    <2>3. CASE FindPhaseComplete(c, n) \/ AcceptLateSuccess(c, n)
      BY <2>3, CallsWithoutTask
    <2>4. ASSUME NEW msg, IgnoreReport(c, n, msg) PROVE TaskInv'
      BY <2>4, LeavesNothing DEF IgnoreReport
    <2>5. ASSUME NEW msg, AcceptReport(c, n, msg) PROVE TaskInv'
      BY <2>5, AcceptTasks
    <2> QED
      BY <1>4, <2>1, <2>2, <2>3, <2>4, <2>5 DEF Call
  <1>5. ASSUME NEW k, Stream(k) PROVE TaskInv'
    BY <1>5, StreamTasks
  <1>6. CASE UNCHANGED vars
    <2>1. UNCHANGED <<log, applied, failedTasks, taskVars, snapVars, spoiled, clientVars>>
      BY <1>6 DEF vars, fsmVars
    <2> QED
      BY <2>1, NothingAppended, NoTaskMoved DEF TaskInv
  <1> QED
    BY <1>1, <1>2, <1>3, <1>4, <1>5, <1>6 DEF Next

(***************************************************************************)
(* What is not replicated                                                  *)
(***************************************************************************)
LocalInv ==
    /\ leader \in Nodes \cup {NoNode}
    /\ DOMAIN ProcessAction = Nodes /\ \A n \in Nodes : ProcessAction[n] \in {NoJob, Job}
    /\ DOMAIN spent = DOMAIN Budget
    /\ \A what \in DOMAIN Budget : spent[what] \in 0..Budget[what]

\* What an action spends is within its bound.
LEMMA SpendKeeps ==
  ASSUME LocalInv, NEW what \in DOMAIN Budget, Spend(what)
  PROVE  /\ DOMAIN spent' = DOMAIN Budget
         /\ \A w \in DOMAIN Budget : spent'[w] \in 0..Budget[w]
  <1>1. /\ spent[what] \in 0..Budget[what] /\ spent[what] < Budget[what]
        /\ spent' = [spent EXCEPT ![what] = spent[what] + 1]
        /\ Budget[what] \in Nat
    BY BoundsAssumption DEF LocalInv, Spend, Budget
  <1>2. spent[what] + 1 \in 0..Budget[what]
    BY <1>1
  <1> QED
    BY <1>1, <1>2 DEF LocalInv

LEMMA LocalInit == Init => LocalInv
  <1> SUFFICES ASSUME Init PROVE LocalInv
    OBVIOUS
  <1>1. \A what \in DOMAIN Budget : Budget[what] \in Nat
    BY BoundsAssumption DEF Budget
  <1>2. \A what \in DOMAIN Budget : 0 \in 0..Budget[what]
    BY <1>1
  <1> QED
    BY <1>2 DEF Init, LocalInv

LEMMA LocalStep == LocalInv /\ [Next]_vars => LocalInv'
  <1> SUFFICES ASSUME LocalInv, [Next]_vars PROVE LocalInv'
    OBVIOUS
  <1>1. CASE UNCHANGED <<leader, ProcessAction, spent>>
    BY <1>1 DEF LocalInv
  <1>2. {"submits", "elections", "restarts", "snapshots", "sweeps", "polls"} \subseteq DOMAIN Budget
    BY DEF Budget
  <1>3. ASSUME NEW n, Crash(n) PROVE LocalInv'
    <2>1. /\ DOMAIN spent' = DOMAIN Budget
          /\ \A w \in DOMAIN Budget : spent'[w] \in 0..Budget[w]
      BY <1>2, <1>3, SpendKeeps DEF Crash
    <2> QED
      BY <1>3, <2>1 DEF Crash, LocalInv
  <1>4. ASSUME NEW n \in Nodes, Node(n) PROVE LocalInv'
    <2>1. CASE Apply(n)
      BY <1>1, <2>1 DEF Apply, ApplyEnqueueTask, ApplyDispatchTask, ApplyCompleteTask,
                        ApplyFailTask, ApplyAdvancePhase, localVars
    <2>2. CASE Sweep(n)
      <3>1. /\ DOMAIN spent' = DOMAIN Budget
            /\ \A w \in DOMAIN Budget : spent'[w] \in 0..Budget[w]
        BY <1>2, <2>2, SpendKeeps DEF Sweep
      <3> QED
        BY <2>2, <3>1 DEF Sweep, LocalInv
    <2>3. CASE SubmitJob(n)
      <3>1. /\ DOMAIN spent' = DOMAIN Budget
            /\ \A w \in DOMAIN Budget : spent'[w] \in 0..Budget[w]
        BY <1>2, <2>3, SpendKeeps DEF SubmitJob
      <3> QED
        BY <2>3, <3>1 DEF SubmitJob, LocalInv
    <2> QED
      BY <1>4, <2>1, <2>2, <2>3 DEF Node
  <1>5. ASSUME NEW n \in Nodes, Faults(n) PROVE LocalInv'
    <2>1. CASE Snapshot(n)
      <3>1. /\ DOMAIN spent' = DOMAIN Budget
            /\ \A w \in DOMAIN Budget : spent'[w] \in 0..Budget[w]
        BY <1>2, <2>1, SpendKeeps DEF Snapshot
      <3> QED
        BY <2>1, <3>1 DEF Snapshot, LocalInv, localVars
    <2>2. CASE Elect(n)
      <3>1. /\ DOMAIN spent' = DOMAIN Budget
            /\ \A w \in DOMAIN Budget : spent'[w] \in 0..Budget[w]
        BY <1>2, <2>2, SpendKeeps DEF Elect
      <3> QED
        BY <2>2, <3>1 DEF Elect, LocalInv, localVars
    <2>3. CASE Persist(n) \/ InstallSnapshot(n)
      BY <1>1, <2>3 DEF Persist, InstallSnapshot, localVars
    <2> QED
      BY <1>3, <1>5, <2>1, <2>2, <2>3 DEF Faults
  <1>6. ASSUME NEW c \in Workers, NEW n \in Nodes, Call(c, n) PROVE LocalInv'
    <2>1. CASE FindPhaseComplete(c, n)
      <3>1. /\ DOMAIN spent' = DOMAIN Budget
            /\ \A w \in DOMAIN Budget : spent'[w] \in 0..Budget[w]
        BY <1>2, <2>1, SpendKeeps DEF FindPhaseComplete, LocalInv
      <3> QED
        BY <2>1, <3>1 DEF FindPhaseComplete, LocalInv, localVars
    <2>2. CASE PanicOnTask(c, n)
      BY <1>3, <2>2 DEF PanicOnTask
    <2>3. CASE TakeTask(c, n) \/ AcceptLateSuccess(c, n)
      BY <1>1, <2>3 DEF TakeTask, AcceptLateSuccess, localVars
    <2>4. ASSUME NEW msg, IgnoreReport(c, n, msg) \/ AcceptReport(c, n, msg) PROVE LocalInv'
      BY <1>1, <2>4 DEF IgnoreReport, AcceptReport, localVars
    <2> QED
      BY <1>6, <2>1, <2>2, <2>3, <2>4 DEF Call
  <1>7. ASSUME NEW c \in Workers, Handler(c) PROVE LocalInv'
    <2>1. CASE PanicOnAdvance(c)
      BY <1>3, <2>1 DEF PanicOnAdvance
    <2>2. CASE ~PanicOnAdvance(c)
      BY <1>1, <1>7, <2>2 DEF Handler, Propose, Refuse, Dispatched, DispatchFailed, AdvanceFailed,
                              ReadNextPhase, EnqueueNext, ReturnReport, GoSilent, localVars
    <2> QED
      BY <2>1, <2>2
  <1>8. ASSUME NEW k, Stream(k) PROVE LocalInv'
    BY <1>1, <1>8 DEF Stream, StreamChunk, StreamGoesOn, StreamEnds, localVars
  <1>9. CASE UNCHANGED vars
    BY <1>1, <1>9 DEF vars, localVars
  <1> QED
    BY <1>4, <1>5, <1>6, <1>7, <1>8, <1>9 DEF Next

(***************************************************************************)
(* Theorems                                                                *)
(***************************************************************************)
\* Records that their ids tell apart are as many as their ids.
LEMMA AsManyIds ==
  ASSUME NEW F, IsFiniteSet(F), \A s, t \in F : s.TaskId = t.TaskId => s = t
  PROVE  Cardinality(F) = Cardinality(Ids(F))
  <1> DEFINE f == [t \in F |-> t.TaskId]
  <1>1. f \in Bijection(F, Ids(F))
    BY DEF Bijection, Injection, IsInjective, Surjection, Ids
  <1>2. ExistsBijection(F, Ids(F))
    BY <1>1 DEF ExistsBijection
  <1> QED
    BY <1>2, FS_Bijection

LEMMA InvariantsTyped == TaskInv /\ LogInv /\ LocalInv => TypeOK
  <1> SUFFICES ASSUME TaskInv, LogInv, LocalInv PROVE TypeOK
    OBVIOUS
  <1>1. ASSUME NEW n \in Nodes
        PROVE  /\ applied[n] \in Positions
               /\ phaseDone[n] \in Nat /\ failedTasks[n] \in 0..phaseDone[n]
               /\ ProcessAction[n] \in {NoJob, Job}
               /\ \A t \in JobStatus[n] : IsTask(t) /\ t.DispatchedAt = 0
               /\ \A t \in inFlight[n] : IsTask(t) /\ t.DispatchedAt > 0
               /\ Cardinality(inFlight[n]) = Cardinality(Ids(inFlight[n]))
               /\ snap[n].index <= snap[n].upto /\ spoiled[n] \subseteq Mishaps
    <2>1. /\ Len(log) \in Nat /\ applied[n] \in 0..Len(log) /\ failedTasks[n] \in Nat
          /\ IsFiniteSet(inFlight[n])
      BY NodeNumbers
    <2>2. phaseDone[n] \in Nat /\ failedTasks[n] \in 0..phaseDone[n]
      <3>1. phaseDone[n] = failedTasks[n] + Cardinality(CompletedHere(log, applied[n]))
        BY DEF LogInv, GoodNode, GoodState, FollowsLog, CompletedHere
      <3>2. Cardinality(CompletedHere(log, applied[n])) \in Nat
        BY <2>1, CompletedNext
      <3> QED
        BY <2>1, <3>1, <3>2
    <2>3. GoodTasks(log, applied[n], replayTo[n], failedTasks[n], JobStatus[n], inFlight[n],
                    Holding(n), spoiled[n])
      BY DEF TaskInv, AllTasks, NodeTasks
    <2>4. \A t : TypedTask(log, t) => IsTask(t)
      BY DEF TypedTask, IsTask, Positions
    <2>5. \A t \in JobStatus[n] : IsTask(t) /\ t.DispatchedAt = 0
      BY <2>3, <2>4 DEF GoodTasks, QueuedTask
    <2>6. \A t \in inFlight[n] : IsTask(t) /\ t.DispatchedAt > 0
      <3> SUFFICES ASSUME NEW t \in inFlight[n] PROVE IsTask(t) /\ t.DispatchedAt > 0
        OBVIOUS
      <3>1. SentTask(log, t)
        BY <2>3 DEF GoodTasks, SentTasks
      <3>2. t.obj \in 1..Len(log) /\ t.DispatchedAt > t.obj /\ t.DispatchedAt \in 0..Len(log)
        BY <3>1 DEF SentTask, MadeBy, TypedTask
      <3> QED
        BY <2>1, <2>4, <3>1, <3>2 DEF SentTask
    <2>7. Cardinality(inFlight[n]) = Cardinality(Ids(inFlight[n]))
      BY <2>1, <2>3, AsManyIds DEF GoodTasks, SentTasks
    <2>8. snap[n].index <= snap[n].upto /\ spoiled[n] \subseteq Mishaps
      BY <2>3 DEF TaskInv, AllTasks, StoredTasks, GoodTasks
    <2>9. ProcessAction[n] \in {NoJob, Job} /\ applied[n] \in Positions
      BY <2>1 DEF LocalInv, Positions
    <2> QED
      BY <2>2, <2>5, <2>6, <2>7, <2>8, <2>9
  <1>2. ASSUME NEW c \in Workers
        PROVE  /\ IsTask(hand[c])
               /\ at[c] \in Nodes <=> pc[c] \in Proposing
               /\ wait[c] \in Positions \cup {Failed}
    BY DEF TaskInv, HandlerTask, IsTask, TypedTask, Positions
  <1> QED
    BY <1>1, <1>2 DEF TypeOK, LocalInv

ClusterInv == LogInv /\ HandlersAt /\ TaskInv /\ LocalInv

LEMMA ClusterInit == Init => ClusterInv
  BY LogInit, HandlersInit, TaskInit, LocalInit DEF ClusterInv

LEMMA ClusterStep == ClusterInv /\ [Next]_vars => ClusterInv'
  BY LogStep, HandlersStep, TaskStep, LocalStep DEF ClusterInv

\* Every variable of the cluster is in the type its use gives it (raft_commands.go,
\* coordinator.go): queued tasks carry no token, those in flight the one of the entry
\* that dispatched them, and TaskIds tell them apart.
THEOREM ClusterTyped == Spec => []TypeOK
  <1>1. ClusterInv => TypeOK
    BY InvariantsTyped DEF ClusterInv
  <1> QED
    BY <1>1, ClusterInit, ClusterStep, PTL DEF Spec

\* No replica has one task both queued and in flight, once the entries up to its horizon
\* are applied and unless a failed proposal has put a dispatched task back
\* (coordinator.go AskForTask, raft_commands.go applyDispatchTask and Restore).
THEOREM NoneQueuedInFlight == Spec => []NotQueuedInFlight
  <1>1. ClusterInv => NotQueuedInFlight
    <2> SUFFICES ASSUME ClusterInv, NEW n \in Nodes, "Doubled" \notin spoiled[n], CaughtUp(n)
                 PROVE  Objs(JobStatus[n]) \cap Objs(inFlight[n]) = {}
      BY DEF NotQueuedInFlight
    <2>1. GoodTasks(log, applied[n], replayTo[n], failedTasks[n], JobStatus[n], inFlight[n],
                    Holding(n), spoiled[n])
      BY DEF ClusterInv, TaskInv, AllTasks, NodeTasks
    <2>2. /\ Apart(log, JobStatus[n], inFlight[n], applied[n], replayTo[n])
          /\ replayTo[n] \in 0..Len(log)
      BY <2>1 DEF GoodTasks
    <2>3. applied[n] \in Nat /\ Len(log) \in Nat
      BY NodeNumbers DEF ClusterInv
    <2>4. \A d : d \notin (applied[n] + 1)..replayTo[n]
      BY <2>2, <2>3 DEF CaughtUp
    <2> QED
      BY <2>2, <2>4 DEF Apart
  <1> QED
    BY <1>1, ClusterInit, ClusterStep, PTL DEF Spec

\* No replica forgets a task that is open in the log it has applied: it is in its queue,
\* in flight, in a handler's hands or counted as failed, through every restart from a
\* snapshot whose parts are of different moments, unless a report's handler or a torn
\* snapshot has dropped the record (raft_commands.go Apply, Snapshot, Restore;
\* coordinator.go NoticeResult, sweepTimedOutTasks).
THEOREM OpenTasksAreKept == Spec => []NothingForgotten
  <1>1. ClusterInv => NothingForgotten
    <2> SUFFICES ASSUME ClusterInv, NEW n \in Nodes, "Dropped" \notin spoiled[n], CaughtUp(n)
                 PROVE  Cardinality({log[i].task.TaskId : i \in Open(n)}
                          \ Ids(JobStatus[n] \cup inFlight[n] \cup HeldAt(n))) <= failedTasks[n]
      BY DEF NothingForgotten
    <2> DEFINE k == applied[n]
               found == JobStatus[n] \cup inFlight[n] \cup Holding(n)
               found2 == JobStatus[n] \cup inFlight[n] \cup HeldAt(n)
               open == {log[i].task.TaskId : i \in Open(n)}
               A == OpenIds(log, k, k) \ Ids(found)
               B == open \ Ids(found2)
    <2>1. GoodTasks(log, k, replayTo[n], failedTasks[n], JobStatus[n], inFlight[n],
                    Holding(n), spoiled[n])
      BY DEF ClusterInv, TaskInv, AllTasks, NodeTasks
    <2>2. k \in Nat /\ Len(log) \in Nat /\ failedTasks[n] \in Nat
      BY NodeNumbers DEF ClusterInv
    <2>3. Later(k, replayTo[n]) = k
      BY <2>1, <2>2 DEF CaughtUp, Later, GoodTasks
    <2>4. Kept(log, k, k, found, failedTasks[n])
      BY <2>1, <2>3 DEF GoodTasks
    <2>5. Open(n) \subseteq OpenTo(log, k, k)
      <3> SUFFICES ASSUME NEW i \in Open(n), Closed(log, log[i].task.TaskId, i, k) PROVE FALSE
        BY DEF Open, OpenTo
      <3>1. PICK j \in (i + 1)..k : Closes(log[j], log[i].task.TaskId)
        BY DEF Closed
      <3>2. i \in 1..k /\ j \in 1..k /\ j > i
        BY <2>2, <3>1 DEF Open, Entries
      <3>3. CASE log[j].type = "AdvancePhase"
        BY <2>2, <3>2, <3>3 DEF Open, ThisPhase, Entries
      <3>4. CASE log[j].type = "CompleteTask" /\ log[j].task.TaskId = log[i].task.TaskId
        BY <3>2, <3>4 DEF Open, Entries
      <3> QED
        BY <3>1, <3>3, <3>4 DEF Closes
    <2>6. open \subseteq OpenIds(log, k, k)
      BY <2>5 DEF OpenIds
    <2>7. Ids(found) \subseteq Ids(found2)
      BY DEF Ids, Holding, Holds, HeldAt
    <2>8. B \subseteq A /\ A \subseteq OpenIds(log, k, k)
      BY <2>6, <2>7
    <2>9. Cardinality(A) <= failedTasks[n]
      BY <2>4 DEF Kept
    <2> HIDE DEF A, B
    <2>10. IsFiniteSet(A)
      BY <2>2, <2>8, OpenFinite, FS_Subset
    <2>11. Cardinality(B) <= Cardinality(A) /\ Cardinality(A) \in Nat /\ Cardinality(B) \in Nat
      BY <2>8, <2>10, FS_Subset, FS_CardinalityType
    <2>12. Cardinality(B) <= failedTasks[n]
      BY <2>2, <2>9, <2>11
    <2> QED
      BY <2>12 DEF B
  <1> QED
    BY <1>1, ClusterInit, ClusterStep, PTL DEF Spec
==============================================================================
