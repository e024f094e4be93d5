--------------------------- MODULE ClusterProofs ---------------------------
(***************************************************************************)
(* The replicas agree: phase, UUIDs and counts of a node are those of the  *)
(* log entries it has applied, for every cluster and every bound, and      *)
(* through every snapshot, restart, change of leader and sweep. The        *)
(* invariant says the same of every snapshot that is being taken, is       *)
(* stored, or is sent: its fields are those of the log up to its index.    *)
(***************************************************************************)
EXTENDS RaftClusterProps, FiniteSetTheorems, SequenceTheorems, TLAPS

(***************************************************************************)
(* The invariant                                                           *)
(***************************************************************************)
\* The six fields of one node, or of one snapshot, are those of the first k entries.
GoodState(L, k, phase, completed, failed, tasks, uuids) ==
    /\ k \in 0..Len(L)
    /\ failed \in Nat
    /\ 1..phase \subseteq DOMAIN uuids
    /\ FollowsLog(L, k, phase, completed, failed, tasks, uuids)

ImageFields == {"index", "phaseIdx", "phaseDone", "failedTasks", "NumTasks", "phaseUUIDs",
                "inFlight"}

GoodImage(L, s) ==
    /\ ImageFields \subseteq DOMAIN s
    /\ IsFiniteSet(s.inFlight)
    /\ GoodState(L, s.index, s.phaseIdx, s.phaseDone, s.failedTasks, s.NumTasks,
                 s.phaseUUIDs)

GoodNode(n) ==
    /\ IsFiniteSet(inFlight[n])
    /\ GoodState(log, applied[n], phaseIdx[n], phaseDone[n], failedTasks[n], NumTasks[n],
                 phaseUUIDs[n])

PerNode ==
    /\ DOMAIN applied = Nodes /\ DOMAIN phaseIdx = Nodes /\ DOMAIN phaseDone = Nodes
    /\ DOMAIN failedTasks = Nodes /\ DOMAIN NumTasks = Nodes /\ DOMAIN phaseUUIDs = Nodes
    /\ DOMAIN inFlight = Nodes /\ DOMAIN taking = Nodes /\ DOMAIN snap = Nodes

GoodSnapshots(n) == /\ GoodImage(log, snap[n])
                    /\ taking[n] # NoSnapshot => GoodImage(log, taking[n])

\* A handler runs at a node.
HandlersAt ==
    /\ DOMAIN pc = Workers /\ DOMAIN at = Workers
    /\ \A c \in Workers : pc[c] \in Proposing => at[c] \in Nodes

LogInv ==
    /\ \E S : log \in Seq(S)
    /\ PerNode
    /\ \A n \in Nodes : GoodNode(n) /\ GoodSnapshots(n)

(***************************************************************************)
(* Entries of the log                                                      *)
(***************************************************************************)
\* Finitely many entries are among the first k.
LEMMA EntriesFinite ==
  ASSUME NEW L, NEW k \in Nat, NEW type
  PROVE  /\ Entries(L, k, type) \subseteq 1..k
         /\ IsFiniteSet(Entries(L, k, type))
         /\ Cardinality(Entries(L, k, type)) \in Nat
  <1>1. Entries(L, k, type) \subseteq 1..k
    BY DEF Entries
  <1>2. IsFiniteSet(1..k)
    BY FS_Interval
  <1>3. IsFiniteSet(Entries(L, k, type))
    BY <1>1, <1>2, FS_Subset
  <1> QED
    BY <1>1, <1>3, FS_CardinalityType

\* One more entry is one more of its own type.
LEMMA EntriesNext ==
  ASSUME NEW L, NEW k \in Nat, NEW type
  PROVE  /\ Entries(L, k + 1, type) = IF L[k + 1].type = type
                                      THEN Entries(L, k, type) \cup {k + 1}
                                      ELSE Entries(L, k, type)
         /\ Cardinality(Entries(L, k + 1, type)) =
               Cardinality(Entries(L, k, type)) + IF L[k + 1].type = type THEN 1 ELSE 0
  <1>1. Entries(L, k + 1, type) = IF L[k + 1].type = type
                                  THEN Entries(L, k, type) \cup {k + 1}
                                  ELSE Entries(L, k, type)
    <2>1. \A i : i \in 1..(k + 1) <=> i \in 1..k \/ i = k + 1
      OBVIOUS
    <2> QED  BY <2>1 DEF Entries
  <1>2. k + 1 \notin Entries(L, k, type)
    BY EntriesFinite
  <1>3. IsFiniteSet(Entries(L, k, type)) /\ Cardinality(Entries(L, k, type)) \in Nat
    BY EntriesFinite
  <1>4. Cardinality(Entries(L, k, type) \cup {k + 1}) = Cardinality(Entries(L, k, type)) + 1
    BY <1>2, <1>3, FS_AddElement
  <1> QED
    BY <1>1, <1>3, <1>4

\* The completions that phaseDone counts.
CompletedHere(L, k) == Entries(L, k, "CompleteTask") \cap ThisPhase(L, k)

\* A completion adds one, a CmdAdvancePhase begins anew, nothing else matters.
LEMMA CompletedNext ==
  ASSUME NEW L, NEW k \in Nat
  PROVE  /\ Cardinality(CompletedHere(L, k)) \in Nat
         /\ L[k + 1].type = "CompleteTask" =>
               Cardinality(CompletedHere(L, k + 1)) = Cardinality(CompletedHere(L, k)) + 1
         /\ L[k + 1].type = "AdvancePhase" => Cardinality(CompletedHere(L, k + 1)) = 0
         /\ L[k + 1].type \notin {"CompleteTask", "AdvancePhase"} =>
               CompletedHere(L, k + 1) = CompletedHere(L, k)
  <1>1. /\ CompletedHere(L, k) \subseteq 1..k /\ IsFiniteSet(CompletedHere(L, k))
        /\ Cardinality(CompletedHere(L, k)) \in Nat
    <2>1. CompletedHere(L, k) \subseteq Entries(L, k, "CompleteTask")
      BY DEF CompletedHere
    <2>2. IsFiniteSet(CompletedHere(L, k))
      BY <2>1, EntriesFinite, FS_Subset
    <2> QED
      BY <2>1, <2>2, EntriesFinite, FS_CardinalityType
  <1>2. ASSUME L[k + 1].type # "AdvancePhase"
        PROVE  ThisPhase(L, k + 1) = ThisPhase(L, k) \cup {k + 1}
    <2>1. Entries(L, k + 1, "AdvancePhase") = Entries(L, k, "AdvancePhase")
      BY <1>2, EntriesNext
    <2>2. \A j \in Entries(L, k, "AdvancePhase") : j \in 1..k /\ j < k + 1
      BY EntriesFinite
    <2>3. \A i : i \in 1..(k + 1) <=> i \in 1..k \/ i = k + 1
      OBVIOUS
    <2> QED
      BY <2>1, <2>2, <2>3 DEF ThisPhase
  <1>3. CASE L[k + 1].type = "CompleteTask"
    <2>1. CompletedHere(L, k + 1) = CompletedHere(L, k) \cup {k + 1}
      <3>1. Entries(L, k + 1, "CompleteTask") = Entries(L, k, "CompleteTask") \cup {k + 1}
        BY <1>3, EntriesNext
      <3>2. k + 1 \notin Entries(L, k, "CompleteTask")
        BY EntriesFinite
      <3>3. ThisPhase(L, k + 1) = ThisPhase(L, k) \cup {k + 1}
        BY <1>2, <1>3
      <3> QED
        BY <3>1, <3>2, <3>3 DEF CompletedHere
    <2>2. k + 1 \notin CompletedHere(L, k)
      BY <1>1
    <2> QED
      BY <1>1, <1>3, <2>1, <2>2, FS_AddElement
  <1>4. CASE L[k + 1].type = "AdvancePhase"
    <2>1. k + 1 \in Entries(L, k + 1, "AdvancePhase")
      BY <1>4, EntriesNext
    <2>2. ThisPhase(L, k + 1) = {}
      BY <2>1 DEF ThisPhase
    <2> QED
      BY <1>1, <1>4, <2>2, FS_EmptySet DEF CompletedHere
  <1>5. CASE L[k + 1].type \notin {"CompleteTask", "AdvancePhase"}
    <2>1. Entries(L, k + 1, "CompleteTask") = Entries(L, k, "CompleteTask")
      BY <1>5, EntriesNext
    <2>2. ThisPhase(L, k + 1) = ThisPhase(L, k) \cup {k + 1}
      BY <1>2, <1>5
    <2>3. k + 1 \notin Entries(L, k, "CompleteTask")
      BY EntriesFinite
    <2> QED
      BY <1>1, <1>5, <2>1, <2>2, <2>3 DEF CompletedHere
  <1> QED
    BY <1>1, <1>3, <1>4, <1>5

(***************************************************************************)
(* What a command, a sweep and the log's growth do to a good state         *)
(***************************************************************************)
\* One more entry, applied as Apply does.
LEMMA StepFollows ==
  ASSUME NEW L, Len(L) \in Nat, NEW k \in Nat, k < Len(L),
         NEW phase, NEW completed, NEW failed, NEW tasks, NEW uuids,
         GoodState(L, k, phase, completed, failed, tasks, uuids)
  PROVE  /\ L[k + 1].type = "EnqueueTask" =>
               GoodState(L, k + 1, phase, completed, failed, tasks + 1, uuids)
         /\ L[k + 1].type \in {"DispatchTask", "FailTask"} =>
               GoodState(L, k + 1, phase, completed, failed, tasks, uuids)
         /\ L[k + 1].type = "CompleteTask" =>
               GoodState(L, k + 1, phase, completed + 1, failed, tasks, uuids)
  <1> DEFINE A == Entries(L, k, "AdvancePhase")
  <1>1. /\ phase = Cardinality(A)
        /\ tasks = Cardinality(Entries(L, k, "EnqueueTask"))
        /\ completed = failed + Cardinality(CompletedHere(L, k))
        /\ failed \in Nat /\ 1..phase \subseteq DOMAIN uuids
        /\ \A p \in 1..phase : /\ uuids[p] \in A
                               /\ Cardinality(Entries(L, uuids[p], "AdvancePhase")) = p
    BY DEF GoodState, FollowsLog, CompletedHere
  <1>2. k + 1 \in 0..Len(L)
    OBVIOUS
  <1>3. ASSUME L[k + 1].type # "AdvancePhase"
        PROVE  Entries(L, k + 1, "AdvancePhase") = A
    BY <1>3, EntriesNext
  <1>4. /\ Cardinality(Entries(L, k + 1, "EnqueueTask")) =
              Cardinality(Entries(L, k, "EnqueueTask"))
                 + IF L[k + 1].type = "EnqueueTask" THEN 1 ELSE 0
        /\ Cardinality(Entries(L, k, "EnqueueTask")) \in Nat
    BY EntriesNext, EntriesFinite
  <1> HIDE DEF A
  <1>5. CASE L[k + 1].type = "EnqueueTask"
    <2>1. CompletedHere(L, k + 1) = CompletedHere(L, k)
      BY <1>5, CompletedNext
    <2> QED
      BY <1>1, <1>2, <1>3, <1>4, <1>5, <2>1 DEF GoodState, FollowsLog, CompletedHere
  <1>6. CASE L[k + 1].type \in {"DispatchTask", "FailTask"}
    <2>1. CompletedHere(L, k + 1) = CompletedHere(L, k)
      BY <1>6, CompletedNext
    <2>2. Entries(L, k + 1, "EnqueueTask") = Entries(L, k, "EnqueueTask")
      BY <1>6, EntriesNext
    <2>3. GoodState(L, k + 1, phase, completed, failed, tasks, uuids)
      BY <1>1, <1>2, <1>3, <1>6, <2>1, <2>2 DEF GoodState, FollowsLog, CompletedHere
    <2> QED
      BY <1>6, <2>3
  <1>7. CASE L[k + 1].type = "CompleteTask"
    <2>1. /\ Cardinality(CompletedHere(L, k)) \in Nat
          /\ Cardinality(CompletedHere(L, k + 1)) = Cardinality(CompletedHere(L, k)) + 1
      BY <1>7, CompletedNext
    <2>2. completed + 1 = failed + Cardinality(CompletedHere(L, k + 1))
      BY <1>1, <2>1
    <2> QED
      BY <1>1, <1>2, <1>3, <1>4, <1>7, <2>2 DEF GoodState, FollowsLog, CompletedHere
  <1> QED
    BY <1>5, <1>6, <1>7

\* new is uuids with id at p.
Extends(new, uuids, p, id) ==
    /\ DOMAIN new = DOMAIN uuids \cup {p}
    /\ \A q \in DOMAIN new : new[q] = IF q = p THEN id ELSE uuids[q]

\* CmdAdvancePhase: the counts begin anew, and the phase gets the entry as its UUID.
LEMMA AdvanceFollows ==
  ASSUME NEW L, Len(L) \in Nat, NEW k \in Nat, k < Len(L),
         NEW phase, NEW completed, NEW failed, NEW tasks, NEW uuids,
         GoodState(L, k, phase, completed, failed, tasks, uuids),
         L[k + 1].type = "AdvancePhase",
         NEW new, Extends(new, uuids, phase + 1, k + 1)
  PROVE  GoodState(L, k + 1, phase + 1, 0, 0, tasks, new)
  <1> DEFINE A == Entries(L, k, "AdvancePhase")
  <1>1. /\ phase = Cardinality(A)
        /\ tasks = Cardinality(Entries(L, k, "EnqueueTask"))
        /\ 1..phase \subseteq DOMAIN uuids
        /\ \A p \in 1..phase : /\ uuids[p] \in A
                               /\ Cardinality(Entries(L, uuids[p], "AdvancePhase")) = p
    BY DEF GoodState, FollowsLog
  <1>2. /\ Entries(L, k + 1, "AdvancePhase") = A \cup {k + 1}
        /\ Cardinality(Entries(L, k + 1, "AdvancePhase")) = phase + 1
        /\ phase \in Nat
    BY <1>1, EntriesNext, EntriesFinite
  <1>3. Cardinality(Entries(L, k + 1, "EnqueueTask")) = tasks
    <2>1. Entries(L, k + 1, "EnqueueTask") = Entries(L, k, "EnqueueTask")
      BY EntriesNext
    <2> QED  BY <1>1, <2>1
  <1>4. Cardinality(CompletedHere(L, k + 1)) = 0
    BY CompletedNext
  <1> HIDE DEF A
  <1>5. 1..(phase + 1) \subseteq DOMAIN new
    BY <1>1, <1>2 DEF Extends
  <1>6. ASSUME NEW p \in 1..(phase + 1)
        PROVE  /\ new[p] \in Entries(L, k + 1, "AdvancePhase")
               /\ Cardinality(Entries(L, new[p], "AdvancePhase")) = p
    <2>1. CASE p = phase + 1
      <3>1. new[p] = k + 1
        BY <2>1 DEF Extends
      <3> QED
        BY <1>2, <2>1, <3>1
    <2>2. CASE p # phase + 1
      <3>1. p \in 1..phase
        BY <1>2, <2>2
      <3>2. new[p] = uuids[p]
        BY <1>1, <2>2, <3>1 DEF Extends
      <3> QED
        BY <1>1, <1>2, <3>1, <3>2
    <2> QED
      BY <2>1, <2>2
  <1>7. k + 1 \in 0..Len(L)
    OBVIOUS
  <1> QED
    BY <1>2, <1>3, <1>4, <1>5, <1>6, <1>7 DEF GoodState, FollowsLog, CompletedHere

\* Tasks given up outside the log are in both counts.
LEMMA GiveUpFollows ==
  ASSUME NEW L, NEW k, NEW phase, NEW completed, NEW failed, NEW tasks, NEW uuids,
         k \in Nat, GoodState(L, k, phase, completed, failed, tasks, uuids), NEW d \in Nat
  PROVE  GoodState(L, k, phase, completed + d, failed + d, tasks, uuids)
  <1>1. Cardinality(CompletedHere(L, k)) \in Nat
    BY CompletedNext
  <1>2. completed + d = (failed + d) + Cardinality(CompletedHere(L, k))
    BY <1>1 DEF GoodState, FollowsLog, CompletedHere
  <1> QED
    BY <1>2 DEF GoodState, FollowsLog, CompletedHere

\* The log only grows.
LEMMA AppendFollows ==
  ASSUME NEW S, NEW L \in Seq(S), NEW e,
         NEW k, NEW phase, NEW completed, NEW failed, NEW tasks, NEW uuids,
         GoodState(L, k, phase, completed, failed, tasks, uuids)
  PROVE  GoodState(Append(L, e), k, phase, completed, failed, tasks, uuids)
  <1> DEFINE M == Append(L, e)
  <1>1. /\ Len(L) \in Nat /\ Len(M) = Len(L) + 1
        /\ \A i \in 1..Len(L) : M[i] = L[i]
    <2>1. L \in Seq(S \cup {e})
      <3>1. Len(L) \in Nat /\ \A i \in 1..Len(L) : L[i] \in S \cup {e}
        BY LenProperties, ElementOfSeq
      <3>2. L \in [1..Len(L) -> S \cup {e}]
        BY <3>1, LenProperties
      <3> QED  BY <3>1, <3>2, SeqDef
    <2> QED
      BY <2>1, AppendProperties
  <1>2. k \in 0..Len(L)
    BY DEF GoodState
  <1> HIDE DEF M
  <1>3. \A j \in 0..k : \A type : Entries(M, j, type) = Entries(L, j, type)
    BY <1>1, <1>2 DEF Entries
  <1>4. ThisPhase(M, k) = ThisPhase(L, k)
    BY <1>1, <1>2, <1>3 DEF ThisPhase
  <1>5. k \in 0..k
    BY <1>1, <1>2
  <1>6. \A type : Entries(M, k, type) = Entries(L, k, type)
    BY <1>3, <1>5
  <1>7. \A p \in 1..phase : Entries(M, uuids[p], "AdvancePhase")
                               = Entries(L, uuids[p], "AdvancePhase")
    <2>1. \A p \in 1..phase : uuids[p] \in Entries(L, k, "AdvancePhase")
      BY DEF GoodState, FollowsLog
    <2>2. \A p \in 1..phase : uuids[p] \in 0..k
      BY <1>1, <1>2, <2>1, EntriesFinite
    <2> QED
      BY <1>3, <2>2
  <1>8. FollowsLog(M, k, phase, completed, failed, tasks, uuids)
    BY <1>4, <1>6, <1>7 DEF GoodState, FollowsLog
  <1>9. k \in 0..Len(M)
    BY <1>1, <1>2
  <1>10. GoodState(M, k, phase, completed, failed, tasks, uuids)
    BY <1>8, <1>9 DEF GoodState
  <1> QED
    BY <1>10 DEF M

\* The UUID of phase 0 is not the log's.
LEMMA FirstUUID ==
  ASSUME NEW L, NEW k, NEW phase, NEW completed, NEW failed, NEW tasks, NEW uuids,
         k \in Nat, GoodState(L, k, phase, completed, failed, tasks, uuids),
         NEW id, NEW new, Extends(new, uuids, 0, id)
  PROVE  GoodState(L, k, phase, completed, failed, tasks, new)
  <1>1. phase \in Nat /\ 1..phase \subseteq DOMAIN uuids
    BY EntriesFinite DEF GoodState, FollowsLog
  <1>2. 1..phase \subseteq DOMAIN new /\ \A p \in 1..phase : new[p] = uuids[p]
    BY <1>1 DEF Extends
  <1> QED
    BY <1>2 DEF GoodState, FollowsLog

(***************************************************************************)
(* What a step touches                                                     *)
(***************************************************************************)
sameNode(m) ==
    /\ applied'[m] = applied[m] /\ phaseIdx'[m] = phaseIdx[m]
    /\ phaseDone'[m] = phaseDone[m] /\ failedTasks'[m] = failedTasks[m]
    /\ NumTasks'[m] = NumTasks[m] /\ phaseUUIDs'[m] = phaseUUIDs[m]
    /\ inFlight'[m] = inFlight[m]

\* Most steps of handlers leave everything of this alone.
LEMMA NothingTouched ==
  ASSUME LogInv, UNCHANGED <<log, fsmVars, inFlight, taking, snap>>
  PROVE  LogInv'
  BY DEF LogInv, PerNode, GoodNode, GoodSnapshots, fsmVars

\* The others touch one node.
LEMMA OneNodeTouched ==
  ASSUME LogInv, NEW n \in Nodes, UNCHANGED log, PerNode', GoodNode(n)', GoodSnapshots(n)',
         \A m \in Nodes \ {n} : sameNode(m) /\ taking'[m] = taking[m] /\ snap'[m] = snap[m]
  PROVE  LogInv'
  <1>1. ASSUME NEW m \in Nodes \ {n}
        PROVE  GoodNode(m)' /\ GoodSnapshots(m)'
    BY DEF LogInv, GoodNode, GoodSnapshots, sameNode
  <1>2. \A m \in Nodes : GoodNode(m)' /\ GoodSnapshots(m)'
    BY <1>1
  <1>3. \E S : log' \in Seq(S)
    BY DEF LogInv
  <1> QED
    BY <1>2, <1>3 DEF LogInv

\* A command is proposed.
LEMMA LogGrows ==
  ASSUME LogInv, NEW e, log' = Append(log, e), UNCHANGED <<fsmVars, inFlight, taking, snap>>
  PROVE  LogInv'
  <1>1. PICK S : log \in Seq(S)
    BY DEF LogInv
  <1>2. \E T : log' \in Seq(T)
    <2>1. Len(log) \in Nat /\ \A i \in 1..Len(log) : log[i] \in S \cup {e}
      BY <1>1, LenProperties, ElementOfSeq
    <2>2. log \in [1..Len(log) -> S \cup {e}]
      BY <1>1, <2>1, LenProperties
    <2>3. log \in Seq(S \cup {e})
      BY <2>1, <2>2, SeqDef
    <2>4. log' \in Seq(S \cup {e})
      BY <2>3, AppendProperties
    <2> QED  BY <2>4
  <1>3. ASSUME NEW s, GoodImage(log, s) PROVE GoodImage(log', s)
    BY <1>1, <1>3, AppendFollows DEF GoodImage
  <1>4. ASSUME NEW n \in Nodes PROVE GoodNode(n)' /\ GoodSnapshots(n)'
    <2>1. GoodNode(n) /\ GoodSnapshots(n)
      BY DEF LogInv
    <2>2. GoodNode(n)'
      <3>1. GoodState(log', applied[n], phaseIdx[n], phaseDone[n], failedTasks[n],
                      NumTasks[n], phaseUUIDs[n])
        BY <1>1, <2>1, AppendFollows DEF GoodNode
      <3> QED
        BY <2>1, <3>1 DEF GoodNode, fsmVars
    <2>3. GoodSnapshots(n)'
      <3>1. GoodImage(log', snap[n])
        BY <1>3, <2>1 DEF GoodSnapshots
      <3>2. taking[n] # NoSnapshot => GoodImage(log', taking[n])
        BY <1>3, <2>1 DEF GoodSnapshots
      <3> QED
        BY <3>1, <3>2 DEF GoodSnapshots
    <2> QED
      BY <2>2, <2>3
  <1>5. PerNode'
    BY DEF LogInv, PerNode, fsmVars
  <1> QED
    BY <1>2, <1>4, <1>5 DEF LogInv

\* Tear and Detach change nothing in a snapshot under way but its mishaps, and the
\* inFlight that goes with it.
LEMMA TakingTouched ==
  ASSUME LogInv, NEW n \in Nodes, Tear(n) \/ Detach(n), UNCHANGED <<log, snap>>
  PROVE  /\ DOMAIN taking' = Nodes
         /\ \A m \in Nodes \ {n} : taking'[m] = taking[m]
         /\ GoodSnapshots(n)'
  <1>1. /\ DOMAIN taking = Nodes
        /\ IsFiniteSet(inFlight[n])
        /\ GoodSnapshots(n)
    BY DEF LogInv, PerNode, GoodNode
  <1>2. CASE taking' = taking
    BY <1>1, <1>2 DEF GoodSnapshots
  <1>3. CASE Shared(n) /\ Tear(n)
    <2>1. taking' = [taking EXCEPT ![n].spoiled = @ \cup {"Dropped"}]
      BY <1>3 DEF Tear
    <2>2. GoodImage(log, taking[n])
      BY <1>1, <1>3 DEF GoodSnapshots, Shared
    <2>3. taking'[n] = [taking[n] EXCEPT !.spoiled = @ \cup {"Dropped"}]
      BY <1>1, <2>1
    <2>4. GoodImage(log, taking'[n])
      BY <2>2, <2>3 DEF GoodImage, ImageFields
    <2> QED
      BY <1>1, <2>1, <2>4 DEF GoodSnapshots
  <1>4. CASE Shared(n) /\ Detach(n)
    <2>1. taking' = [taking EXCEPT ![n].live = FALSE, ![n].inFlight = inFlight[n]]
      BY <1>4 DEF Detach
    <2>2. GoodImage(log, taking[n])
      BY <1>1, <1>4 DEF GoodSnapshots, Shared
    <2>3. taking'[n] = [taking[n] EXCEPT !.live = FALSE, !.inFlight = inFlight[n]]
      BY <1>1, <2>1
    <2>4. GoodImage(log, taking'[n])
      BY <1>1, <2>2, <2>3 DEF GoodImage, ImageFields
    <2>5. DOMAIN taking' = Nodes /\ \A m \in Nodes \ {n} : taking'[m] = taking[m]
      BY <1>1, <2>1
    <2> QED
      BY <1>1, <2>4, <2>5 DEF GoodSnapshots
  <1> QED
    BY <1>2, <1>3, <1>4 DEF Tear, Detach

(***************************************************************************)
(* Each action keeps the invariant                                         *)
(***************************************************************************)
\* Where the next entry of a node is.
LEMMA AboutToApply ==
  ASSUME LogInv, NEW n \in Nodes, NEW type, Applies(n, type)
  PROVE  /\ Len(log) \in Nat /\ applied[n] \in Nat /\ applied[n] < Len(log)
         /\ log[applied[n] + 1].type = type
         /\ applied' = [applied EXCEPT ![n] = applied[n] + 1]
         /\ GoodNode(n) /\ GoodSnapshots(n) /\ PerNode
  <1>1. Len(log) \in Nat
    BY LenProperties DEF LogInv
  <1>2. GoodNode(n) /\ GoodSnapshots(n) /\ PerNode
    BY DEF LogInv
  <1>3. applied[n] \in 0..Len(log)
    BY <1>2 DEF GoodNode, GoodState
  <1> QED
    BY <1>1, <1>2, <1>3 DEF Applies, Entry

\* The commands that enqueue, dispatch and complete a task.
LEMMA ApplyPlainKeeps ==
  ASSUME LogInv, NEW n \in Nodes,
         ApplyEnqueueTask(n) \/ ApplyDispatchTask(n) \/ ApplyCompleteTask(n)
  PROVE  LogInv'
  <1>0. UNCHANGED <<log, taking, snap>>
    BY DEF ApplyEnqueueTask, ApplyDispatchTask, ApplyCompleteTask, snapVars
  <1>1. CASE ApplyEnqueueTask(n)
    <2>1. Applies(n, "EnqueueTask")
      BY <1>1 DEF ApplyEnqueueTask
    <2>2. GoodState(log, applied[n] + 1, phaseIdx[n], phaseDone[n], failedTasks[n],
                    NumTasks[n] + 1, phaseUUIDs[n])
      BY <2>1, AboutToApply, StepFollows DEF GoodNode
    <2>3. GoodNode(n)'
      BY <1>1, <2>1, <2>2, AboutToApply DEF ApplyEnqueueTask, GoodNode, PerNode
    <2>4. GoodSnapshots(n)' /\ PerNode'
      BY <1>0, <1>1, <2>1, AboutToApply DEF ApplyEnqueueTask, GoodSnapshots, PerNode
    <2>5. \A m \in Nodes \ {n} : sameNode(m)
      BY <1>1, <2>1, AboutToApply DEF ApplyEnqueueTask, PerNode, sameNode
    <2> QED
      BY <1>0, <2>3, <2>4, <2>5, OneNodeTouched
  <1>2. CASE ApplyDispatchTask(n)
    <2>1. Applies(n, "DispatchTask")
      BY <1>2 DEF ApplyDispatchTask
    <2>2. GoodState(log, applied[n] + 1, phaseIdx[n], phaseDone[n], failedTasks[n],
                    NumTasks[n], phaseUUIDs[n])
      BY <2>1, AboutToApply, StepFollows DEF GoodNode
    <2>3. IsFiniteSet(inFlight'[n])
      <3> DEFINE t == [Entry(n).task EXCEPT !.DispatchedAt = applied[n] + 1]
                 rest == inFlight[n] \ WithId(inFlight[n], t.TaskId)
      <3>1. inFlight'[n] = rest \cup {t}
        BY <1>2, <2>1, AboutToApply DEF ApplyDispatchTask, PerNode
      <3>2. IsFiniteSet(rest)
        BY <2>1, AboutToApply, FS_Subset DEF GoodNode
      <3> HIDE DEF t, rest
      <3> QED
        BY <3>1, <3>2, FS_AddElement
    <2>4. GoodNode(n)'
      BY <1>2, <2>1, <2>2, <2>3, AboutToApply DEF ApplyDispatchTask, GoodNode, PerNode
    <2>5. GoodSnapshots(n)' /\ PerNode'
      BY <1>0, <1>2, <2>1, AboutToApply DEF ApplyDispatchTask, GoodSnapshots, PerNode
    <2>6. \A m \in Nodes \ {n} : sameNode(m)
      BY <1>2, <2>1, AboutToApply DEF ApplyDispatchTask, PerNode, sameNode
    <2> QED
      BY <1>0, <2>4, <2>5, <2>6, OneNodeTouched
  <1>3. CASE ApplyCompleteTask(n)
    <2>1. Applies(n, "CompleteTask")
      BY <1>3 DEF ApplyCompleteTask
    <2>2. GoodState(log, applied[n] + 1, phaseIdx[n], phaseDone[n] + 1, failedTasks[n],
                    NumTasks[n], phaseUUIDs[n])
      BY <2>1, AboutToApply, StepFollows DEF GoodNode
    <2>3. IsFiniteSet(inFlight'[n])
      <3>1. inFlight'[n] \subseteq inFlight[n]
        BY <1>3, <2>1, AboutToApply DEF ApplyCompleteTask, PerNode
      <3> QED
        BY <2>1, <3>1, AboutToApply, FS_Subset DEF GoodNode
    <2>4. GoodNode(n)'
      BY <1>3, <2>1, <2>2, <2>3, AboutToApply DEF ApplyCompleteTask, GoodNode, PerNode
    <2>5. GoodSnapshots(n)' /\ PerNode'
      BY <1>0, <1>3, <2>1, AboutToApply DEF ApplyCompleteTask, GoodSnapshots, PerNode
    <2>6. \A m \in Nodes \ {n} : sameNode(m)
      BY <1>3, <2>1, AboutToApply DEF ApplyCompleteTask, PerNode, sameNode
    <2> QED
      BY <1>0, <2>4, <2>5, <2>6, OneNodeTouched
  <1> QED
    BY <1>1, <1>2, <1>3

\* CmdFailTask, and the sweeper, take tasks out of inFlight and count some of them.
LEMMA GiveUpKeeps ==
  ASSUME LogInv, NEW n \in Nodes, NEW S \in SUBSET inFlight[n], GiveUpOrRequeue(n, S)
  PROVE  /\ IsFiniteSet(inFlight'[n])
         /\ \E d \in Nat : /\ failedTasks' = [failedTasks EXCEPT ![n] = @ + d]
                           /\ phaseDone' = [phaseDone EXCEPT ![n] = @ + d]
         /\ DOMAIN inFlight' = Nodes
         /\ \A m \in Nodes \ {n} : inFlight'[m] = inFlight[m]
  <1> DEFINE gone == {t \in S : Exhausted(t)}
  <1>1. IsFiniteSet(inFlight[n]) /\ DOMAIN inFlight = Nodes
    BY DEF LogInv, GoodNode, PerNode
  <1>2. Cardinality(gone) \in Nat
    <2>1. IsFiniteSet(gone)
      BY <1>1, FS_Subset
    <2> QED
      BY <2>1, FS_CardinalityType
  <1>3. inFlight' = [inFlight EXCEPT ![n] = @ \ S]
    BY DEF GiveUpOrRequeue
  <1>4. IsFiniteSet(inFlight'[n])
    BY <1>1, <1>3, FS_Subset
  <1>5. /\ failedTasks' = [failedTasks EXCEPT ![n] = @ + Cardinality(gone)]
        /\ phaseDone' = [phaseDone EXCEPT ![n] = @ + Cardinality(gone)]
    BY DEF GiveUpOrRequeue
  <1> HIDE DEF gone
  <1> QED
    BY <1>1, <1>2, <1>3, <1>4, <1>5

LEMMA ApplyFailKeeps ==
  ASSUME LogInv, NEW n \in Nodes, ApplyFailTask(n)
  PROVE  LogInv'
  <1> DEFINE S == WithId(inFlight[n], Entry(n).task.TaskId)
  <1>1. Applies(n, "FailTask") /\ GiveUpOrRequeue(n, S) /\ S \in SUBSET inFlight[n]
    BY DEF ApplyFailTask, WithId
  <1>2. /\ UNCHANGED <<log, snap, phaseIdx, NumTasks, phaseUUIDs>>
        /\ UNCHANGED taking \/ Tear(n)
    BY DEF ApplyFailTask
  <1> HIDE DEF S
  <1>3. PICK d \in Nat : /\ failedTasks' = [failedTasks EXCEPT ![n] = @ + d]
                         /\ phaseDone' = [phaseDone EXCEPT ![n] = @ + d]
    BY <1>1, GiveUpKeeps
  <1>4. /\ IsFiniteSet(inFlight'[n]) /\ DOMAIN inFlight' = Nodes
        /\ \A m \in Nodes \ {n} : inFlight'[m] = inFlight[m]
    BY <1>1, GiveUpKeeps
  <1>5. /\ DOMAIN taking' = Nodes
        /\ \A m \in Nodes \ {n} : taking'[m] = taking[m]
        /\ GoodSnapshots(n)'
    <2>1. CASE UNCHANGED taking
      BY <1>2, <2>1 DEF LogInv, PerNode, GoodSnapshots
    <2> QED
      BY <1>2, <2>1, TakingTouched
  <1>6. GoodState(log, applied[n] + 1, phaseIdx[n], phaseDone[n], failedTasks[n],
                  NumTasks[n], phaseUUIDs[n])
    BY <1>1, AboutToApply, StepFollows DEF GoodNode
  <1>7. GoodState(log, applied[n] + 1, phaseIdx[n], phaseDone[n] + d, failedTasks[n] + d,
                  NumTasks[n], phaseUUIDs[n])
    BY <1>1, <1>6, AboutToApply, GiveUpFollows
  <1>8. GoodNode(n)'
    BY <1>1, <1>2, <1>3, <1>4, <1>7, AboutToApply DEF GoodNode, PerNode
  <1>9. PerNode'
    BY <1>1, <1>2, <1>3, <1>4, <1>5, AboutToApply DEF PerNode
  <1>10. \A m \in Nodes \ {n} : sameNode(m)
    BY <1>1, <1>2, <1>3, <1>4, AboutToApply DEF PerNode, sameNode
  <1> QED
    BY <1>2, <1>5, <1>8, <1>9, <1>10, OneNodeTouched

LEMMA ApplyAdvanceKeeps ==
  ASSUME LogInv, NEW n \in Nodes, ApplyAdvancePhase(n)
  PROVE  LogInv'
  <1> DEFINE new == [p \in DOMAIN phaseUUIDs[n] \cup {phaseIdx[n] + 1} |->
                        IF p = phaseIdx[n] + 1 THEN applied[n] + 1 ELSE phaseUUIDs[n][p]]
  <1>1. Applies(n, "AdvancePhase") /\ Detach(n) /\ UNCHANGED <<log, snap, NumTasks>>
    BY DEF ApplyAdvancePhase
  <1>2. /\ phaseIdx' = [phaseIdx EXCEPT ![n] = @ + 1]
        /\ phaseDone' = [phaseDone EXCEPT ![n] = 0]
        /\ failedTasks' = [failedTasks EXCEPT ![n] = 0]
        /\ inFlight' = [inFlight EXCEPT ![n] = {}]
    BY DEF ApplyAdvancePhase
  <1>3. phaseUUIDs' = [phaseUUIDs EXCEPT ![n] = new]
    BY DEF ApplyAdvancePhase
  <1>4. GoodState(log, applied[n] + 1, phaseIdx[n] + 1, 0, 0, NumTasks[n], new)
    <2>1. Extends(new, phaseUUIDs[n], phaseIdx[n] + 1, applied[n] + 1)
      BY DEF Extends
    <2> HIDE DEF new
    <2>2. GoodState(log, applied[n], phaseIdx[n], phaseDone[n], failedTasks[n], NumTasks[n],
                    phaseUUIDs[n])
      BY <1>1, AboutToApply DEF GoodNode
    <2>3. /\ Len(log) \in Nat /\ applied[n] \in Nat /\ applied[n] < Len(log)
          /\ log[applied[n] + 1].type = "AdvancePhase"
      BY <1>1, AboutToApply
    <2> QED
      BY <2>1, <2>2, <2>3, AdvanceFollows
  <1> HIDE DEF new
  <1>5. GoodNode(n)'
    BY <1>1, <1>2, <1>3, <1>4, AboutToApply, FS_EmptySet DEF GoodNode, PerNode
  <1>6. PerNode' /\ GoodSnapshots(n)' /\ \A m \in Nodes \ {n} : taking'[m] = taking[m]
    BY <1>1, <1>2, <1>3, AboutToApply, TakingTouched DEF PerNode
  <1>7. \A m \in Nodes \ {n} : sameNode(m)
    BY <1>1, <1>2, <1>3, AboutToApply DEF PerNode, sameNode
  <1> QED
    BY <1>1, <1>5, <1>6, <1>7, OneNodeTouched

\* The sweeper counts outside the log.
LEMMA SweepKeeps ==
  ASSUME LogInv, NEW n \in Nodes, Sweep(n)
  PROVE  LogInv'
  <1>1. PICK S \in SUBSET inFlight[n] : GiveUpOrRequeue(n, S)
    BY DEF Sweep
  <1>2. Tear(n) /\ UNCHANGED <<log, snap, applied, phaseIdx, NumTasks, phaseUUIDs>>
    BY DEF Sweep
  <1>3. PICK d \in Nat : /\ failedTasks' = [failedTasks EXCEPT ![n] = @ + d]
                         /\ phaseDone' = [phaseDone EXCEPT ![n] = @ + d]
    BY <1>1, GiveUpKeeps
  <1>4. /\ IsFiniteSet(inFlight'[n]) /\ DOMAIN inFlight' = Nodes
        /\ \A m \in Nodes \ {n} : inFlight'[m] = inFlight[m]
    BY <1>1, GiveUpKeeps
  <1>5. /\ DOMAIN taking' = Nodes
        /\ \A m \in Nodes \ {n} : taking'[m] = taking[m]
        /\ GoodSnapshots(n)'
    BY <1>2, TakingTouched
  <1>6. GoodNode(n) /\ PerNode
    BY DEF LogInv
  <1>7. GoodState(log, applied[n], phaseIdx[n], phaseDone[n] + d, failedTasks[n] + d,
                  NumTasks[n], phaseUUIDs[n])
    <2>1. Len(log) \in Nat
      BY LenProperties DEF LogInv
    <2>2. applied[n] \in Nat
      BY <1>6, <2>1 DEF GoodNode, GoodState
    <2> QED
      BY <1>6, <2>2, GiveUpFollows DEF GoodNode
  <1>8. GoodNode(n)'
    BY <1>2, <1>3, <1>4, <1>6, <1>7 DEF GoodNode, PerNode
  <1>9. PerNode' /\ \A m \in Nodes \ {n} : sameNode(m)
    BY <1>2, <1>3, <1>4, <1>5, <1>6 DEF PerNode, sameNode
  <1> QED
    BY <1>2, <1>5, <1>8, <1>9, OneNodeTouched

\* NoticeResult evicts the record it found.
LEMMA AcceptKeeps ==
  ASSUME LogInv, NEW c, NEW n \in Nodes, NEW msg, AcceptReport(c, n, msg)
  PROVE  LogInv'
  <1>1. PICK t \in inFlight[n] : inFlight' = [inFlight EXCEPT ![n] = @ \ {t}]
    BY DEF AcceptReport, Reported, WithId
  <1>2. Tear(n) /\ UNCHANGED <<log, snap, fsmVars>>
    BY DEF AcceptReport
  <1>3. GoodNode(n) /\ PerNode
    BY DEF LogInv
  <1>4. /\ DOMAIN taking' = Nodes
        /\ \A m \in Nodes \ {n} : taking'[m] = taking[m]
        /\ GoodSnapshots(n)'
    BY <1>2, TakingTouched
  <1>5. IsFiniteSet(inFlight'[n])
    BY <1>1, <1>3, FS_Subset DEF GoodNode, PerNode
  <1>6. GoodNode(n)'
    BY <1>2, <1>3, <1>5 DEF GoodNode, fsmVars
  <1>7. PerNode' /\ \A m \in Nodes \ {n} : sameNode(m)
    BY <1>1, <1>2, <1>3, <1>4 DEF PerNode, sameNode, fsmVars
  <1> QED
    BY <1>2, <1>4, <1>6, <1>7, OneNodeTouched

\* SubmitJob makes the UUID of phase 0.
LEMMA SubmitKeeps ==
  ASSUME LogInv, NEW n \in Nodes, SubmitJob(n)
  PROVE  LogInv'
  <1> DEFINE id == -(spent.submits + 1)
             new == [p \in DOMAIN phaseUUIDs[n] \cup {0} |->
                        IF p = 0 THEN id ELSE phaseUUIDs[n][p]]
  <1>1. phaseUUIDs' = [phaseUUIDs EXCEPT ![n] = new]
    BY DEF SubmitJob
  <1>2. UNCHANGED <<log, applied, phaseIdx, phaseDone, failedTasks, NumTasks, inFlight,
                    taking, snap>>
    BY DEF SubmitJob, taskVars, snapVars
  <1>3. GoodNode(n) /\ GoodSnapshots(n) /\ PerNode
    BY DEF LogInv
  <1>4. GoodState(log, applied[n], phaseIdx[n], phaseDone[n], failedTasks[n], NumTasks[n], new)
    <2>1. applied[n] \in Nat
      <3>1. Len(log) \in Nat
        BY LenProperties DEF LogInv
      <3> QED  BY <1>3, <3>1 DEF GoodNode, GoodState
    <2>2. Extends(new, phaseUUIDs[n], 0, id)
      BY DEF Extends
    <2> HIDE DEF new
    <2> QED
      BY <1>3, <2>1, <2>2, FirstUUID DEF GoodNode
  <1> HIDE DEF new
  <1>5. GoodNode(n)'
    BY <1>1, <1>2, <1>3, <1>4 DEF GoodNode, PerNode
  <1>6. GoodSnapshots(n)' /\ PerNode' /\ \A m \in Nodes \ {n} : sameNode(m)
    BY <1>1, <1>2, <1>3 DEF GoodSnapshots, PerNode, sameNode
  <1> QED
    BY <1>2, <1>5, <1>6, OneNodeTouched

\* A snapshot copies the counters and will have the inFlight it shares.
LEMMA SnapshotKeeps ==
  ASSUME LogInv, NEW n \in Nodes, Snapshot(n)
  PROVE  LogInv'
  <1> DEFINE image ==
          [index |-> applied[n], phaseIdx |-> PhaseAt(n), phaseDone |-> phaseDone[n],
           failedTasks |-> failedTasks[n], NumTasks |-> NumTasks[n],
           phaseUUIDs |-> phaseUUIDs[n], sourceDone |-> sourceDone[n],
           JobStatus |-> JobStatus[n], live |-> TRUE, inFlight |-> {},
           upto |-> applied[n],
           spoiled |-> spoiled[n] \cup (IF HeldAt(n) # {} THEN {"Dropped"} ELSE {})]
  <1>1. taking' = [taking EXCEPT ![n] = image]
    BY DEF Snapshot
  <1>2. UNCHANGED <<log, fsmVars, inFlight, snap>>
    BY DEF Snapshot, taskVars
  <1>3. GoodNode(n) /\ GoodSnapshots(n) /\ PerNode
    BY DEF LogInv
  <1>4. GoodImage(log, image)
    BY <1>3, FS_EmptySet DEF GoodImage, GoodNode, ImageFields, PhaseAt
  <1> HIDE DEF image
  <1>5. GoodSnapshots(n)' /\ PerNode'
    BY <1>1, <1>2, <1>3, <1>4 DEF GoodSnapshots, PerNode, fsmVars
  <1>6. GoodNode(n)' /\ \A m \in Nodes \ {n} : sameNode(m) /\ taking'[m] = taking[m]
    BY <1>1, <1>2, <1>3 DEF GoodNode, PerNode, sameNode, fsmVars
  <1> QED
    BY <1>2, <1>5, <1>6, OneNodeTouched

\* What is written is the snapshot taken, with the inFlight of that moment.
LEMMA PersistKeeps ==
  ASSUME LogInv, NEW n \in Nodes, Persist(n)
  PROVE  LogInv'
  <1> DEFINE upto == IF replayTo[n] > applied[n] THEN replayTo[n] ELSE applied[n]
             image == [taking[n] EXCEPT !.inFlight = PersistedInFlight(n),
                                        !.live = FALSE, !.upto = upto]
  <1>1. /\ taking' = [taking EXCEPT ![n] = NoSnapshot]
        /\ taking[n] # NoSnapshot
        /\ UNCHANGED <<log, fsmVars, inFlight>>
    BY DEF Persist, taskVars
  <1>2. snap' = snap \/ snap' = [snap EXCEPT ![n] = image]
    BY DEF Persist
  <1>3. GoodNode(n) /\ GoodSnapshots(n) /\ PerNode
    BY DEF LogInv
  <1>4. GoodImage(log, image)
    <2>1. GoodImage(log, taking[n])
      BY <1>1, <1>3 DEF GoodSnapshots
    <2>2. IsFiniteSet(PersistedInFlight(n))
      BY <1>3, <2>1 DEF PersistedInFlight, GoodNode, GoodImage
    <2> HIDE DEF upto
    <2> QED
      BY <2>1, <2>2 DEF GoodImage, ImageFields
  <1> HIDE DEF image
  <1>5. GoodSnapshots(n)' /\ PerNode'
    BY <1>1, <1>2, <1>3, <1>4 DEF GoodSnapshots, PerNode, fsmVars
  <1>6. /\ GoodNode(n)'
        /\ \A m \in Nodes \ {n} : sameNode(m) /\ taking'[m] = taking[m] /\ snap'[m] = snap[m]
    BY <1>1, <1>2, <1>3 DEF GoodNode, PerNode, sameNode, fsmVars
  <1> QED
    BY <1>1, <1>5, <1>6, OneNodeTouched

\* A node that restores a good snapshot is good.
LEMMA RestoreGood ==
  ASSUME LogInv, NEW n \in Nodes, NEW image, GoodImage(log, image), Restore(n, image),
         UNCHANGED log
  PROVE  /\ GoodNode(n)'
         /\ \A m \in Nodes \ {n} : sameNode(m)
         /\ DOMAIN taking' = Nodes /\ DOMAIN snap' = Nodes => PerNode'
  <1>1. PerNode
    BY DEF LogInv
  <1>2. /\ applied' = [applied EXCEPT ![n] = image.index]
        /\ phaseIdx' = [phaseIdx EXCEPT ![n] = image.phaseIdx]
        /\ phaseDone' = [phaseDone EXCEPT ![n] = image.phaseDone]
        /\ failedTasks' = [failedTasks EXCEPT ![n] = image.failedTasks]
        /\ NumTasks' = [NumTasks EXCEPT ![n] = image.NumTasks]
        /\ phaseUUIDs' = [phaseUUIDs EXCEPT ![n] = image.phaseUUIDs]
        /\ inFlight' = [inFlight EXCEPT ![n] = image.inFlight]
    BY DEF Restore
  <1>3. GoodNode(n)'
    BY <1>1, <1>2 DEF GoodImage, GoodNode, PerNode
  <1> QED
    BY <1>1, <1>2, <1>3 DEF PerNode, sameNode

\* A restart from the node's own snapshot.
LEMMA CrashKeeps ==
  ASSUME LogInv, NEW n \in Nodes, Crash(n)
  PROVE  LogInv'
  <1>1. /\ Restore(n, snap[n])
        /\ taking' = [taking EXCEPT ![n] = NoSnapshot]
        /\ UNCHANGED <<log, snap>>
    BY DEF Crash
  <1>2. GoodSnapshots(n) /\ PerNode
    BY DEF LogInv
  <1>3. GoodImage(log, snap[n])
    BY <1>2 DEF GoodSnapshots
  <1>4. GoodNode(n)' /\ PerNode' /\ \A m \in Nodes \ {n} : sameNode(m)
    BY <1>1, <1>2, <1>3, RestoreGood DEF PerNode
  <1>5. GoodSnapshots(n)' /\ \A m \in Nodes \ {n} : taking'[m] = taking[m]
    BY <1>1, <1>2 DEF GoodSnapshots, PerNode
  <1> QED
    BY <1>1, <1>4, <1>5, OneNodeTouched

\* The leader's snapshot, in place of the entries.
LEMMA InstallKeeps ==
  ASSUME LogInv, NEW n \in Nodes, InstallSnapshot(n)
  PROVE  LogInv'
  <1>1. /\ leader \in Nodes
        /\ snap' = [snap EXCEPT ![n] = snap[leader]]
        /\ Restore(n, snap[leader])
        /\ Detach(n)
        /\ UNCHANGED log
    BY DEF InstallSnapshot
  <1>2. GoodNode(n) /\ GoodSnapshots(n) /\ PerNode /\ GoodImage(log, snap[leader])
    BY <1>1 DEF LogInv, GoodSnapshots
  <1>3. /\ DOMAIN taking' = Nodes /\ \A m \in Nodes \ {n} : taking'[m] = taking[m]
        /\ taking'[n] # NoSnapshot => GoodImage(log, taking'[n])
    <2>1. CASE taking' = taking
      BY <1>2, <2>1 DEF PerNode, GoodSnapshots
    <2>2. CASE taking' # taking
      <3>1. taking' = [taking EXCEPT ![n].live = FALSE, ![n].inFlight = inFlight[n]]
        BY <1>1, <2>2 DEF Detach
      <3>2. Shared(n)
        BY <1>1, <2>2 DEF Detach
      <3>3. GoodImage(log, taking[n])
        BY <1>2, <3>2 DEF GoodSnapshots, Shared
      <3>4. taking'[n] = [taking[n] EXCEPT !.live = FALSE, !.inFlight = inFlight[n]]
        BY <1>2, <3>1 DEF PerNode
      <3>5. GoodImage(log, taking'[n])
        BY <1>2, <3>3, <3>4 DEF GoodImage, GoodNode, ImageFields
      <3> QED
        BY <1>2, <3>1, <3>5 DEF PerNode
    <2> QED
      BY <2>1, <2>2
  <1>4. GoodNode(n)' /\ PerNode' /\ \A m \in Nodes \ {n} : sameNode(m)
    BY <1>1, <1>2, <1>3, RestoreGood DEF PerNode
  <1>5. GoodSnapshots(n)' /\ \A m \in Nodes \ {n} : snap'[m] = snap[m]
    BY <1>1, <1>2, <1>3 DEF GoodSnapshots, PerNode
  <1> QED
    BY <1>1, <1>3, <1>4, <1>5, OneNodeTouched

(***************************************************************************)
(* Handlers run at nodes                                                   *)
(***************************************************************************)
\* A call goes on at a node, or its client is left without one.
LEMMA EnterKeeps ==
  ASSUME HandlersAt, NEW c, NEW n, NEW where, NEW task, Enter(c, n, where, task),
         where \in Proposing => n \in Nodes
  PROVE  HandlersAt'
  BY DEF HandlersAt, Enter

LEMMA HandlersInit == Init => HandlersAt
  BY DEF Init, HandlersAt, Proposing

LEMMA HandlersStep == HandlersAt /\ [Next]_vars => HandlersAt'
  <1> SUFFICES ASSUME HandlersAt, [Next]_vars PROVE HandlersAt'
    OBVIOUS
  <1>1. ASSUME NEW n \in Nodes, Crash(n) PROVE HandlersAt'
    BY <1>1 DEF Crash, HandlersAt, Proposing
  <1>2. CASE UNCHANGED <<pc, at>>
    BY <1>2 DEF HandlersAt
  <1>3. ASSUME NEW n \in Nodes, Node(n) \/ Faults(n) PROVE HandlersAt'
    <2>1. CASE Crash(n)
      BY <1>1, <2>1
    <2>2. CASE Apply(n) \/ Sweep(n) \/ SubmitJob(n)
      BY <1>2, <2>2 DEF Apply, ApplyEnqueueTask, ApplyDispatchTask, ApplyCompleteTask,
                        ApplyFailTask, ApplyAdvancePhase, Sweep, SubmitJob, clientVars
    <2>3. CASE Snapshot(n) \/ Persist(n) \/ InstallSnapshot(n) \/ Elect(n)
      BY <1>2, <2>3 DEF Snapshot, Persist, InstallSnapshot, Elect, clientVars
    <2> QED
      BY <1>3, <2>1, <2>2, <2>3 DEF Node, Faults
  <1>4. ASSUME NEW c \in Workers, NEW n \in Nodes, Call(c, n) PROVE HandlersAt'
    <2>1. CASE TakeTask(c, n)
      BY <2>1, EnterKeeps DEF TakeTask
    <2>2. CASE PanicOnTask(c, n)
      BY <1>1, <2>2 DEF PanicOnTask
    <2>3. CASE FindPhaseComplete(c, n)
      BY <2>3, EnterKeeps DEF FindPhaseComplete
    <2>4. CASE AcceptLateSuccess(c, n)
      BY <2>4, EnterKeeps DEF AcceptLateSuccess
    <2>5. ASSUME NEW msg, IgnoreReport(c, n, msg) PROVE HandlersAt'
      BY <2>5, EnterKeeps DEF IgnoreReport, Leave, Proposing
    <2>6. ASSUME NEW msg, AcceptReport(c, n, msg) PROVE HandlersAt'
      BY <2>6, EnterKeeps DEF AcceptReport
    <2> QED
      BY <1>4, <2>1, <2>2, <2>3, <2>4, <2>5, <2>6 DEF Call
  <1>5. ASSUME NEW c \in Workers, Leave(c) PROVE HandlersAt'
    BY <1>5, EnterKeeps DEF Leave, Proposing
  <1>6. ASSUME NEW c \in Workers, Handler(c) PROVE HandlersAt'
    <2>1. CASE Propose(c) \/ Refuse(c)
      BY <1>2, <2>1 DEF Propose, Refuse
    <2>2. CASE Dispatched(c)
      BY <2>2, EnterKeeps DEF Dispatched, Proposing
    <2>3. CASE DispatchFailed(c) \/ AdvanceFailed(c) \/ ReturnReport(c) \/ GoSilent(c)
      BY <1>5, <2>3 DEF DispatchFailed, AdvanceFailed, ReturnReport, GoSilent
    <2>4. CASE ReadNextPhase(c)
      BY <1>5, <2>4 DEF ReadNextPhase, HandlersAt, Proposing
    <2>5. CASE PanicOnAdvance(c)
      <3>1. at[c] \in Nodes
        BY <2>5 DEF PanicOnAdvance, HandlersAt, Proposing
      <3> QED
        BY <1>1, <2>5, <3>1 DEF PanicOnAdvance
    <2>6. CASE EnqueueNext(c)
      BY <1>2, <1>5, <2>6 DEF EnqueueNext
    <2> QED
      BY <1>6, <2>1, <2>2, <2>3, <2>4, <2>5, <2>6 DEF Handler
  <1>7. ASSUME NEW k, Stream(k) PROVE HandlersAt'
    BY <1>2, <1>7 DEF Stream, StreamChunk, StreamGoesOn, StreamEnds, clientVars
  <1>8. CASE UNCHANGED vars
    BY <1>2, <1>8 DEF vars, clientVars
  <1> QED
    BY <1>3, <1>4, <1>6, <1>7, <1>8 DEF Next

(***************************************************************************)
(* The invariant holds                                                     *)
(***************************************************************************)
LEMMA LogInit == Init => LogInv
  <1> SUFFICES ASSUME Init PROVE LogInv
    OBVIOUS
  <1>1. log \in Seq({}) /\ Len(log) = 0
    BY EmptySeq DEF Init
  <1>2. \A type : Entries(log, 0, type) = {}
    BY EntriesFinite DEF Entries
  <1>3. FollowsLog(log, 0, 0, 0, 0, 0, <<>>)
    BY <1>2, FS_EmptySet DEF FollowsLog
  <1>4. GoodState(log, 0, 0, 0, 0, 0, <<>>)
    BY <1>1, <1>3 DEF GoodState
  <1>5. GoodImage(log, FirstSnapshot)
    BY <1>4, FS_EmptySet DEF GoodImage, FirstSnapshot, ImageFields
  <1>6. ASSUME NEW n \in Nodes PROVE GoodNode(n) /\ GoodSnapshots(n)
    BY <1>4, <1>5, FS_EmptySet DEF Init, GoodNode, GoodSnapshots
  <1>7. PerNode
    BY DEF Init, PerNode
  <1> QED
    BY <1>1, <1>6, <1>7 DEF LogInv

LEMMA LogStep == LogInv /\ HandlersAt /\ [Next]_vars => LogInv'
  <1> SUFFICES ASSUME LogInv, HandlersAt, [Next]_vars PROVE LogInv'
    OBVIOUS
  <1>1. CASE UNCHANGED <<log, fsmVars, inFlight, taking, snap>>
    BY <1>1, NothingTouched
  <1>2. ASSUME NEW n \in Nodes, Node(n) PROVE LogInv'
    BY <1>2, ApplyPlainKeeps, ApplyFailKeeps, ApplyAdvanceKeeps, SweepKeeps, SubmitKeeps
       DEF Node, Apply
  <1>3. ASSUME NEW n \in Nodes, Faults(n) PROVE LogInv'
    <2>1. CASE Elect(n)
      BY <1>1, <2>1 DEF Elect, taskVars, snapVars
    <2> QED
      BY <1>3, <2>1, SnapshotKeeps, PersistKeeps, CrashKeeps, InstallKeeps DEF Faults
  <1>4. ASSUME NEW c \in Workers, NEW n \in Nodes, Call(c, n) PROVE LogInv'
    <2>1. CASE TakeTask(c, n) \/ FindPhaseComplete(c, n) \/ AcceptLateSuccess(c, n)
      BY <1>1, <2>1 DEF TakeTask, FindPhaseComplete, AcceptLateSuccess, taskVars, snapVars
    <2>2. CASE PanicOnTask(c, n)
      BY <2>2, CrashKeeps DEF PanicOnTask
    <2>3. ASSUME NEW msg, IgnoreReport(c, n, msg) PROVE LogInv'
      BY <1>1, <2>3 DEF IgnoreReport, taskVars, snapVars
    <2>4. ASSUME NEW msg, AcceptReport(c, n, msg) PROVE LogInv'
      BY <2>4, AcceptKeeps
    <2> QED
      BY <1>4, <2>1, <2>2, <2>3, <2>4 DEF Call
  <1>5. ASSUME NEW c \in Workers, Handler(c) PROVE LogInv'
    <2>1. CASE Propose(c)
      BY <2>1, LogGrows DEF Propose, taskVars, snapVars
    <2>2. CASE PanicOnAdvance(c)
      <3>1. at[c] \in Nodes
        BY <2>2 DEF PanicOnAdvance, HandlersAt, Proposing
      <3> QED
        BY <2>2, <3>1, CrashKeeps DEF PanicOnAdvance
    <2>3. CASE \/ Refuse(c) \/ Dispatched(c) \/ DispatchFailed(c) \/ AdvanceFailed(c)
               \/ ReadNextPhase(c) \/ EnqueueNext(c) \/ ReturnReport(c) \/ GoSilent(c)
      BY <1>1, <2>3 DEF Refuse, Dispatched, DispatchFailed, AdvanceFailed, ReadNextPhase,
                        EnqueueNext, ReturnReport, GoSilent, taskVars, snapVars
    <2> QED
      BY <1>5, <2>1, <2>2, <2>3 DEF Handler
  <1>6. ASSUME NEW k, Stream(k) PROVE LogInv'
    <2>1. CASE StreamChunk(k)
      <3>1. log' = log \/ \E e : log' = Append(log, e)
        BY <2>1 DEF StreamChunk
      <3>2. UNCHANGED <<fsmVars, inFlight, taking, snap>>
        BY <2>1 DEF StreamChunk, taskVars, snapVars
      <3> QED
        BY <1>1, <3>1, <3>2, LogGrows
    <2>2. CASE StreamGoesOn(k) \/ StreamEnds(k)
      BY <1>1, <2>2 DEF StreamGoesOn, StreamEnds, taskVars, snapVars
    <2> QED
      BY <1>6, <2>1, <2>2 DEF Stream
  <1>7. CASE UNCHANGED vars
    BY <1>1, <1>7 DEF vars, taskVars, snapVars
  <1> QED
    BY <1>2, <1>3, <1>4, <1>5, <1>6, <1>7 DEF Next

\* For every number of nodes and workers, every job and every bound: phase, UUIDs and
\* counts of a node are those of the entries it has applied, whatever snapshots,
\* restarts and sweeps it has been through (raft_commands.go Apply, Snapshot, Restore).
THEOREM ReplicasFollowLog == Spec => []ReplicaFollowsLog
  <1>1. Init => LogInv /\ HandlersAt
    BY LogInit, HandlersInit
  <1>2. LogInv /\ HandlersAt /\ [Next]_vars => (LogInv /\ HandlersAt)'
    BY LogStep, HandlersStep
  <1>3. LogInv => ReplicaFollowsLog
    BY DEF LogInv, GoodNode, GoodState, ReplicaFollowsLog
  <1> QED
    BY <1>1, <1>2, <1>3, PTL DEF Spec

(***************************************************************************)
(* What it means for two replicas                                          *)
(***************************************************************************)
\* The UUID of a phase is the entry that began it, and there is one such entry.
LEMMA PhaseBegunOnce ==
  ASSUME NEW L, NEW k \in Nat, NEW i \in Entries(L, k, "AdvancePhase"),
         NEW j \in Entries(L, k, "AdvancePhase"),
         Cardinality(Entries(L, i, "AdvancePhase")) = Cardinality(Entries(L, j, "AdvancePhase"))
  PROVE  i = j
  <1>1. /\ i \in 1..k /\ j \in 1..k
        /\ i \in Entries(L, i, "AdvancePhase") /\ j \in Entries(L, j, "AdvancePhase")
    BY DEF Entries
  <1>2. \A a, b \in 1..k : a <= b => Entries(L, a, "AdvancePhase")
                                        \subseteq Entries(L, b, "AdvancePhase")
    BY DEF Entries
  <1>3. Entries(L, i, "AdvancePhase") = Entries(L, j, "AdvancePhase")
    <2>1. CASE i <= j
      BY <1>1, <1>2, <2>1, EntriesFinite, FS_Subset
    <2>2. CASE j <= i
      BY <1>1, <1>2, <2>2, EntriesFinite, FS_Subset
    <2> QED
      BY <1>1, <2>1, <2>2
  <1>4. i \in 1..j /\ j \in 1..i
    BY <1>1, <1>3 DEF Entries
  <1> QED
    BY <1>1, <1>4

\* Two replicas that have applied equally many entries are in the same phase, know of
\* the same tasks, name the outputs of every phase they have begun but the first (whose
\* UUID SubmitJob does not replicate) by the same UUID, and differ in phaseDone only by
\* what each has given up on.
ReplicasAgree ==
    \A m, n \in Nodes : applied[m] = applied[n] =>
        /\ phaseIdx[m] = phaseIdx[n] /\ NumTasks[m] = NumTasks[n]
        /\ \A p \in 1..phaseIdx[n] : phaseUUIDs[m][p] = phaseUUIDs[n][p]
        /\ phaseDone[m] - failedTasks[m] = phaseDone[n] - failedTasks[n]

LEMMA LogInvAgrees == LogInv => ReplicasAgree
  <1> SUFFICES ASSUME LogInv, NEW m \in Nodes, NEW n \in Nodes, applied[m] = applied[n]
               PROVE  /\ phaseIdx[m] = phaseIdx[n] /\ NumTasks[m] = NumTasks[n]
                      /\ \A p \in 1..phaseIdx[n] : phaseUUIDs[m][p] = phaseUUIDs[n][p]
                      /\ phaseDone[m] - failedTasks[m] = phaseDone[n] - failedTasks[n]
    BY DEF ReplicasAgree
  <1> DEFINE k == applied[n]
             A == Entries(log, k, "AdvancePhase")
             C == Cardinality(CompletedHere(log, k))
  <1>1. ASSUME NEW r \in {m, n}
        PROVE  /\ k \in Nat
               /\ phaseIdx[r] = Cardinality(A)
               /\ NumTasks[r] = Cardinality(Entries(log, k, "EnqueueTask"))
               /\ failedTasks[r] \in Nat /\ phaseDone[r] = failedTasks[r] + C
               /\ \A p \in 1..phaseIdx[r] :
                     /\ phaseUUIDs[r][p] \in A
                     /\ Cardinality(Entries(log, phaseUUIDs[r][p], "AdvancePhase")) = p
    <2>1. Len(log) \in Nat
      BY LenProperties DEF LogInv
    <2>2. applied[r] = k /\ GoodNode(r)
      BY DEF LogInv
    <2> QED
      BY <2>1, <2>2 DEF GoodNode, GoodState, FollowsLog, CompletedHere
  <1>2. C \in Nat
    BY <1>1, CompletedNext
  <1> HIDE DEF C, A, k
  <1>3. \A p \in 1..phaseIdx[n] : phaseUUIDs[m][p] = phaseUUIDs[n][p]
    BY <1>1, PhaseBegunOnce DEF A
  <1> QED
    BY <1>1, <1>2, <1>3

\* Replicas with the same entries agree on what a report or a transition reads from the
\* replicated state, and on the names of the output files of the phases after the first.
THEOREM SameEntriesSameState == Spec => []ReplicasAgree
  <1>1. Init => LogInv /\ HandlersAt
    BY LogInit, HandlersInit
  <1>2. LogInv /\ HandlersAt /\ [Next]_vars => (LogInv /\ HandlersAt)'
    BY LogStep, HandlersStep
  <1> QED
    BY <1>1, <1>2, LogInvAgrees, PTL DEF Spec
=============================================================================
