---------------------------- MODULE SemanticCheck ----------------------------
(***************************************************************************)
(* The verdict of r5-observation.py over the semantic records of a capture *)
(* (semantic_wire_check, check_semantic_records, check_auxiliary), as a    *)
(* fold over the records in the order of their time stamps.                *)
(*                                                                         *)
(* A record names its call by the task and the place of the begin hook,    *)
(* which stands for the call ID: IDs come from an atomic counter, so none  *)
(* repeats while its call is open.  What is kept of the records is what    *)
(* the verdict needs at the end of the capture.                            *)
(***************************************************************************)
EXTENDS Naturals, Sequences, FiniteSets

VARIABLE capture

EmptyCapture ==
  [rows |-> FALSE, dictionary |-> FALSE, \* census rows, END_DICTIONARY
   some |-> FALSE,                       \* a boundary was recorded
   pending |-> {},                       \* entries without their exits
   lacking |-> {},                       \* calls whose auxiliary record is missing
   queued |-> {}, workers |-> {},        \* async decisions, executions
   attempt |-> 0,                        \* last prepare progress
   issue |-> FALSE]                      \* some conflict

CaptureTypeOK ==
  /\ DOMAIN capture = DOMAIN EmptyCapture
  /\ {capture.rows, capture.dictionary, capture.some, capture.issue} \subseteq BOOLEAN
  /\ capture.attempt \in Nat

\* What identifies a call: PAIR_FIELDS, operation and phase.
Identity(r) == [call |-> r.call, op |-> r.op, dev |-> r.dev, gen |-> r.gen]
Conflict(c) == [c EXCEPT !.issue = TRUE]

\* The operations that need an auxiliary record besides entry and exit.
WithAux == {"prepare", "task"}

\* An entry.  A flagged one taints its call and is not pending.
Entry(c, r) ==
  IF r.flag \/ \E p \in c.pending : p.call = r.call
  THEN Conflict(c)
  ELSE [c EXCEPT !.some = TRUE, !.pending = @ \cup {Identity(r)},
                 !.lacking = IF r.op \in WithAux THEN @ \cup {r.call} ELSE @]

\* An exit: it ends the call of its identity, or is in conflict.
ExitRecord(c, r) ==
  IF r.flag \/ Identity(r) \notin c.pending
  THEN Conflict(c)
  ELSE [c EXCEPT !.pending = @ \ {Identity(r)}]

\* An auxiliary record of a call: unique, and of a recorded call.
Auxiliary(c, r) ==
  IF r.flag \/ r.call \notin c.lacking
  THEN Conflict(c)
  ELSE [c EXCEPT !.lacking = @ \ {r.call}]

\* Progress of a prepare: attempts follow each other.
Progress(c, r, attempt) ==
  IF attempt # c.attempt + 1
  THEN Conflict([Auxiliary(c, r) EXCEPT !.attempt = attempt])
  ELSE [Auxiliary(c, r) EXCEPT !.attempt = attempt]

\* A decision to run a device's phase in a worker.
Decision(c, r, isQueued) ==
  LET d == Auxiliary(c, r)
  IN IF isQueued THEN [d EXCEPT !.queued = @ \cup {Identity(r)}] ELSE d

\* A worker's entry names the decision it comes from, of the same generation.
Execution(c, r, from) ==
  LET source == [call |-> from, op |-> "task", dev |-> r.dev, gen |-> r.gen]
      e == Entry(c, r)
  IN IF source \in c.workers
     THEN Conflict(e)
     ELSE [e EXCEPT !.workers = @ \cup {source}]

\* The end of check_auxiliary: every queued call was executed, and no other.
AuxiliaryConsistent(c) == c.lacking = {} /\ c.queued = c.workers

Coverage(c) ==
  IF c.issue \/ ~AuxiliaryConsistent(c) \/ ~c.rows \/ ~c.dictionary \/ ~c.some
  THEN "UNKNOWN"
  ELSE IF c.pending # {} THEN "UNPAIRED" ELSE "SEMANTIC_RECORDS_PAIRED"
=============================================================================
