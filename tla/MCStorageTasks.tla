--------------------------- MODULE MCStorageTasks ---------------------------
(***************************************************************************)
(* Tasks 4 and 5, one per behaviour: two objects to move and an empty      *)
(* directory, or two candidates and the evidence around them; two runs at  *)
(* the same time, with a kill or a change by others, or one run and two    *)
(* such disturbances.                                                      *)
(***************************************************************************)
EXTENDS StorageTasks

CONSTANT Single  \* the run that meets two changes

MCPlan == <<"m1", "e", "m2">>
MCCandidates == <<"c1", "c2">>

\* Bound: a kill or a change when two runs are under way, in task 5 a kill
\* and a change; a kill and a change, or two changes, in one run.  Of two
\* changes one makes the manifest another than the approved one.
Alone(k) == \A j \in Runs \ {k} : run[j].pc = "idle" /\ read[j] = NoRows
Unapproved(k) == rewritten[k] \/ (receipt.yes /\ receipt.rows # inventory.rows)
Within ==
  \/ changes + kills <= 1
  \/ changes = 1 /\ (task = 5 \/ Alone(Single))
  \/ changes = 2 /\ kills = 0 /\ Alone(Single) /\ Unapproved(Single)

Spec == StorageInit /\ [][StorageNext /\ Within']_vars
MCFairSpec ==
  /\ Spec
  /\ \A k \in Runs : WF_vars(MoveStep(k)) /\ WF_vars(Again(k)) /\ SF_vars(Applied(k))
=============================================================================
