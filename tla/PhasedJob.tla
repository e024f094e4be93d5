----------------------------- MODULE PhasedJob -----------------------------
(***************************************************************************)
(* What the coordinator promises of one job: its phases run in order, and  *)
(* a phase is left only when every one of its tasks has been accounted for *)
(* (it succeeded, or its retries ran out). How tasks are queued,           *)
(* dispatched, timed out and reported is left to Coordinator.              *)
(***************************************************************************)
EXTENDS Integers

CONSTANTS NumPhases,  \* phases of the job
          Tasks       \* the task ids of each phase

VARIABLES phase, finished

Init == phase = 0 /\ finished = {}

\* One task succeeds, or one sweep gives up on several.
Finish == /\ phase < NumPhases
          /\ \E S \in (SUBSET (Tasks[phase] \ finished)) \ {{}} :
                finished' = finished \cup S
          /\ phase' = phase

Advance == /\ phase < NumPhases
           /\ finished = Tasks[phase]
           /\ phase' = phase + 1
           /\ finished' = {}

Next == Finish \/ Advance

Spec == Init /\ [][Next]_<<phase, finished>>
=============================================================================
