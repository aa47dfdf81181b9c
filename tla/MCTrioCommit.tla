----------------------------- MODULE MCTrioCommit -----------------------------
(***************************************************************************)
(* TrioCommit with two generations and every combination of failures.      *)
(***************************************************************************)
EXTENDS TrioCommit

AllFailures == {"settle", "journal", "undo", "unlink", "stage", "move", "clean"}
=============================================================================
