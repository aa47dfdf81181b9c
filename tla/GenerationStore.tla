--------------------------- MODULE GenerationStore ---------------------------
(***************************************************************************)
(* What the commit engines of the generation tools promise: a directory    *)
(* stands for one whole generation of artifacts, or for none, and only a   *)
(* finished transaction changes which, to the generation it has staged.    *)
(* Failures, kills and recoveries are invisible, with the exceptions the   *)
(* code admits to: once residue of an older transaction has been left in   *)
(* place, a later transaction that is undone may fall back to anything;    *)
(* and some engines have a window in which the failure that does the harm  *)
(* may lose the generation at once.                                        *)
(***************************************************************************)
CONSTANTS Gens, None,
          Wrecks  \* TRUE: the step that does the harm may lose the generation

VARIABLES store,   \* the generation the directory stands for
          target,  \* the generation the transaction under way has staged, or None
          hurt     \* TRUE: residue of an older transaction is about

Standing == Gens \cup {None}

Init == store \in Standing /\ target \in Standing /\ hurt = FALSE

Stand == UNCHANGED <<store, hurt>>
Publish == target \in Gens /\ store' = target /\ UNCHANGED hurt
Hurt == hurt' = TRUE /\ UNCHANGED store
Heal == hurt' = FALSE /\ UNCHANGED store
Lose == hurt /\ store' \in Standing /\ UNCHANGED hurt
Wreck == Wrecks /\ hurt' = TRUE /\ store' \in Standing

\* A transaction begins or ends at any time.
Next == target' \in Standing /\ (Stand \/ Publish \/ Hurt \/ Heal \/ Lose \/ Wreck)

Spec == Init /\ [][Next]_<<store, target, hurt>>
=============================================================================
