----------------------------- MODULE MCLockFile -----------------------------
(***************************************************************************)
(* LockFile for three runs; processes and inodes are interchangeable.      *)
(***************************************************************************)
EXTENDS LockFile, TLC

Symmetry == Permutations(Proc) \cup Permutations(Inode)
=============================================================================
