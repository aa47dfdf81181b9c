---------------------------- MODULE MCMeterSession ----------------------------
(***************************************************************************)
(* MeterSession with a ring of two slots and a queue of one block.         *)
(***************************************************************************)
EXTENDS MeterSession
=============================================================================
