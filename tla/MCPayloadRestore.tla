-------------------------- MODULE MCPayloadRestore --------------------------
(***************************************************************************)
(* PayloadRestore with every combination of failures.                      *)
(***************************************************************************)
EXTENDS PayloadRestore

AnyTree == {"none", "valid", "drifted"}
AllFailures == {"journal", "rename", "delete", "unlink", "extract"}
=============================================================================
