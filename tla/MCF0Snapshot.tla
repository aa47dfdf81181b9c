------------------------------ MODULE MCF0Snapshot ------------------------------
(***************************************************************************)
(* F0Snapshot with two snapshots.                                          *)
(***************************************************************************)
EXTENDS F0Snapshot

\* Room for a failed commit, a failed rollback step and a kill after it.
ThreeFaults == 3
=============================================================================
