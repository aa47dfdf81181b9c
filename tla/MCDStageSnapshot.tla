--------------------------- MODULE MCDStageSnapshot ---------------------------
(***************************************************************************)
(* DStageSnapshot with two snapshots on both kinds of file system.         *)
(***************************************************************************)
EXTENDS DStageSnapshot

BothMounts == {"ordered", "torn"}
=============================================================================
