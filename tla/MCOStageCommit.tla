--------------------------- MODULE MCOStageCommit ---------------------------
(***************************************************************************)
(* OStageCommit on five artifacts and two generations.                    *)
(***************************************************************************)
EXTENDS OStageCommit

AllFailures ==
  {"clean", "restore", "stage", "move", "rollback", "journal", "cleanup"}

NoFailures == {}
=============================================================================
