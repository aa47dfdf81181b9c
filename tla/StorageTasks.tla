---------------------------- MODULE StorageTasks ----------------------------
(***************************************************************************)
(* Tasks 4 and 5 as a whole: the approval, what others do, and the runs.   *)
(* One of the tasks per behaviour: they share nothing but the form of the  *)
(* approval.                                                               *)
(***************************************************************************)
EXTENDS StorageMove, StorageCleanup

StorageNext ==
  \/ Approval \/ Others
  \/ \E k \in Runs : MoveStep(k) \/ CleanupStep(k) \/ Again(k) \/ Kill(k)

StorageSpec == StorageInit /\ [][StorageNext]_vars

\* The operator repeats a run that failed, and the system runs it.
FairSpec ==
  /\ StorageSpec
  /\ \A k \in Runs : WF_vars(MoveStep(k)) /\ WF_vars(Again(k)) /\ SF_vars(Applied(k))
=============================================================================
