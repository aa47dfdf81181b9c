--------------------------- MODULE SemanticEmitter ---------------------------
(***************************************************************************)
(* The semantic emitter of the observation kernel (SEMANTIC_EMITTER with   *)
(* DETAIL_TABLES and DETAIL_EMITTER in prepare-r5-observation.py): one     *)
(* census of the devices per boot, a dictionary, and the hooks that record *)
(* the beginning and the end of a boundary of the PM core.                 *)
(*                                                                         *)
(* Any change of the topology invalidates the census for good.  A record   *)
(* enters the capture while the recording is on; that a complete transport *)
(* delivers all of them is TraceStream's CompleteMeansAll.  The number of  *)
(* records made so far is whether the envelope of 39936 is used up, which  *)
(* may turn true at any record.                                            *)
(***************************************************************************)
EXTENDS SemanticCheck, SequencesExt

CONSTANTS Devices,     \* 1..n, the devices of the census
          Tasks,       \* the tasks that pass a hook
          Generations, \* completion generations a recording may use (7)
          Prepares,    \* prepares of one device a recording may hold (4)
          MaxFaults    \* bound: refusals of the kernel, and the full envelope

ASSUME EmitterAssumption ==
  /\ Devices \subseteq Nat \ {0}
  /\ {Generations, Prepares, MaxFaults} \subseteq Nat

VARIABLES state, exported, ordinary, full, \* r5_state, r5_exported, r5_ordinary
          gen, resetting, prepares,        \* r5_objects
          queuedCall,                      \* r5_queued_call
          cpc, dpc, mutator,               \* census, dictionary, a change
          stale,                           \* aspects changed since the census
          tracing, ended, endError,        \* the recording and its END
          stack,                           \* per task: tokens of open hooks
          completed, epoch,                \* per device: the completion
          omitted, unreal, clean, faults   \* history

emitter == <<state, exported, ordinary, full, gen, resetting, prepares, queuedCall>>
census == <<cpc, mutator, stale>>
recording == <<dpc, tracing, ended, endError>>
completions == <<completed, epoch>>
hindsight == <<omitted, unreal, clean, faults>>

NoDevice == 0
NoCall == <<>>
Ops == {"stage", "prepare", "callback", "task", "worker", "resume", "superior",
        "wait", "skip", "complete", "reinit", "probe"}
Aspects == {"list", "driver", "name", "notifier"}

EmitterTypeOK ==
  /\ state \in {"off", "census", "ready", "invalid"}
  /\ {exported, ordinary, full, tracing, ended, endError, omitted, unreal, clean}
       \subseteq BOOLEAN
  /\ gen \in [Devices -> 1..Generations + 1]
  /\ resetting \in [Devices -> BOOLEAN]
  /\ prepares \in [Devices -> 0..Prepares + 1]
  /\ cpc \in {"idle", "walk", "labels", "notifiers", "ready", "done"}
  /\ dpc \in {"idle", "rows", "end", "sent", "drained"}
  /\ stale \subseteq Aspects /\ faults \in 0..MaxFaults
  /\ completed \in [Devices -> BOOLEAN] /\ epoch \in [Devices -> Nat]
  /\ DOMAIN stack = Tasks
  /\ \A t \in Tasks : \A i \in DOMAIN stack[t] : stack[t][i].op \in Ops

EmitterInit ==
  /\ state = "off" /\ exported = FALSE /\ ordinary = FALSE /\ full = FALSE
  /\ gen = [d \in Devices |-> 1] /\ resetting = [d \in Devices |-> FALSE]
  /\ prepares = [d \in Devices |-> 0] /\ queuedCall = [d \in Devices |-> NoCall]
  /\ cpc = "idle" /\ dpc = "idle" /\ mutator = "none" /\ stale = {}
  /\ tracing = FALSE /\ ended = FALSE /\ endError = FALSE
  /\ stack = [t \in Tasks |-> <<>>]
  /\ completed = [d \in Devices |-> TRUE] /\ epoch = [d \in Devices |-> 1]
  /\ omitted = FALSE /\ unreal = FALSE /\ clean = TRUE /\ faults = 0
  /\ capture = EmptyCapture

Fault == faults < MaxFaults /\ faults' = faults + 1

\* r5obs2_topology_changed.
Invalidated == IF state = "off" THEN "off" ELSE "invalid"

(***************************************************************************)
(* Census.  The walk holds the locks of the lists and links; the labels    *)
(* and callbacks are copied one device at a time under device_lock, the    *)
(* names without; the notifiers under the lock of their chain.             *)
(***************************************************************************)
Surveyed(from, to, aspects) ==
  /\ cpc = from /\ cpc' = to /\ stale' = stale \ aspects
  /\ UNCHANGED <<state, clean, faults>>

EnterCensus ==
  /\ cpc = "idle" /\ cpc' = "walk" /\ state' = "census"
  /\ UNCHANGED <<stale, clean, faults>>
WalkLists == Surveyed("walk", "labels", {"list"})
CopyLabels == mutator # "bind" /\ Surveyed("labels", "notifiers", {"name", "driver"})
CopyNotifiers == Surveyed("notifiers", "ready", {"notifier"})

\* A table is full, a name too long or a list not empty.
RejectCensus ==
  /\ cpc \in {"walk", "labels", "notifiers"} /\ Fault
  /\ state' = "invalid" /\ cpc' = "done" /\ clean' = FALSE
  /\ UNCHANGED stale

\* The compare-and-exchange that the hooks of a change may have made fail.
AcceptCensus ==
  /\ cpc = "ready" /\ cpc' = "done"
  /\ state' = IF state = "census" THEN "ready" ELSE "invalid"
  /\ UNCHANGED <<stale, clean, faults>>

Census ==
  /\ EnterCensus \/ WalkLists \/ CopyLabels \/ CopyNotifiers \/ RejectCensus \/ AcceptCensus
  /\ UNCHANGED <<exported, ordinary, full, gen, resetting, prepares, queuedCall, mutator,
                 recording, completions, stack, capture, omitted, unreal>>

(***************************************************************************)
(* A change of the topology by the rest of the kernel, with the hooks that *)
(* semantic_overlay puts around it.  A device on the list is added or      *)
(* removed, or a link changed, with the lock of the walk held; a driver is *)
(* bound under device_lock; a rename and a registration are hooked on both *)
(* sides.                                                                  *)
(***************************************************************************)
Hook(from, to) ==
  /\ mutator = from /\ mutator' = to
  /\ state' = Invalidated /\ UNCHANGED stale

Alter(from, to, aspect) ==
  /\ mutator = from /\ mutator' = to
  /\ stale' = stale \cup {aspect} /\ UNCHANGED state

\* Mutant: the list is hooked before its lock is taken only.
LockedChangeBare ==
  /\ mutator = "list" /\ mutator' = "changed"
  /\ stale' = stale \cup {"list"} /\ UNCHANGED state

\* The second hook of a list or link, under the lock that excludes the walk.
LockedChange ==
  /\ mutator = "list" /\ mutator' = "changed"
  /\ state' = Invalidated /\ stale' = stale \cup {"list"}

Mutate ==
  /\ \/ \E kind \in {"list", "bind", "rename", "register"} : Hook("none", kind)
     \/ LockedChange
     \/ Alter("bind", "changed", "driver")
     \/ Alter("rename", "renamed", "name")
     \/ Alter("register", "renamed", "notifier")
     \/ Hook("renamed", "changed")
  /\ clean' = FALSE
  /\ UNCHANGED <<exported, ordinary, full, gen, resetting, prepares, queuedCall, cpc,
                 recording, completions, stack, capture, omitted, unreal, faults>>

(***************************************************************************)
(* Records.  Without a slot the census is invalidated and nothing is       *)
(* recorded; a record that is made while the recording is off is lost.     *)
(***************************************************************************)
Logged(c) == IF tracing /\ ~ended THEN c ELSE capture

\* Mutant: the full envelope is passed over.
SlotQuiet(ok) ==
  /\ ok => ~full /\ UNCHANGED <<full, faults, clean, state>>
  /\ ~ok => /\ full' = TRUE /\ clean' = FALSE /\ UNCHANGED state
            /\ IF full THEN UNCHANGED faults ELSE Fault

\* r5_slot.
Slot(ok) ==
  /\ ok => ~full /\ UNCHANGED <<full, faults, clean, state>>
  /\ ~ok => /\ full' = TRUE /\ clean' = FALSE /\ state' = Invalidated
            /\ IF full THEN UNCHANGED faults ELSE Fault

NoSlotUsed == UNCHANGED <<full, faults, clean, state>>

(***************************************************************************)
(* r5obs2_emit_dictionary, by the worker of the exporter.  Boundaries are  *)
(* recorded from its first step on, while its rows are still to come.      *)
(***************************************************************************)
StartDictionary ==
  /\ dpc = "idle" /\ cpc = "done" /\ tracing /\ ~ended /\ state = "ready"
  /\ exported' = TRUE /\ dpc' = "rows"
  /\ NoSlotUsed /\ UNCHANGED capture

\* The rows of objects, links, callbacks and notifiers, and the end.
EmitRows ==
  /\ dpc \in {"rows", "end"} /\ UNCHANGED exported
  /\ \E ok \in BOOLEAN :
       /\ Slot(ok)
       /\ IF ok
          THEN /\ dpc' = IF dpc = "rows" THEN "end" ELSE "sent"
               /\ capture' = IF dpc = "rows"
                             THEN Logged([capture EXCEPT !.rows = TRUE])
                             ELSE Logged([capture EXCEPT !.dictionary = TRUE])
          ELSE dpc' = "drained" /\ UNCHANGED capture

SendDictionary ==
  /\ dpc = "sent" /\ dpc' = "drained"
  /\ NoSlotUsed /\ UNCHANGED <<exported, capture>>

Dictionary ==
  /\ StartDictionary \/ EmitRows \/ SendDictionary
  /\ UNCHANGED <<ordinary, gen, resetting, prepares, queuedCall, census, tracing, ended,
                 endError, completions, stack, omitted, unreal>>

(***************************************************************************)
(* Hooks.  A token is empty (no object) when its boundary is not recorded. *)
(***************************************************************************)
Token(op, d, call) ==
  [op |-> op, dev |-> d, call |-> call, gen |-> IF d = NoDevice THEN 0 ELSE gen[d],
   live |-> TRUE, open |-> FALSE, flag |-> FALSE, owner |-> FALSE, at |-> 0]
Empty(op, d) ==
  [op |-> op, dev |-> d, call |-> NoCall, gen |-> 0, live |-> FALSE,
   open |-> FALSE, flag |-> FALSE, owner |-> FALSE, at |-> 0]
Top(t) == Last(stack[t])
Push(t, token) == stack' = [stack EXCEPT ![t] = Append(@, token)]
Replace(t, token) == stack' = [stack EXCEPT ![t][Len(stack[t])] = token]
Pop(t) == stack' = [stack EXCEPT ![t] = Front(@)]

\* Only ordinary resume is recorded in detail.
Detail == {"wait", "skip", "superior", "task", "worker"}
Filtered(op, phase) ==
  /\ ~ordinary
  /\ op \in Detail \/ (op = "callback" /\ phase \notin {"prepare", "complete"})

\* Callback and worker have one record, made by Entered, for entry and metadata.
Fused == {"callback", "worker"}

\* A boundary of the recording's scope goes by without a record.
Miss == omitted' = (omitted \/ (tracing /\ exported /\ ~ended))

Off == ~exported \/ state # "ready"

TooMany(op, n) == op = "prepare" /\ n > Prepares

\* The first half of r5_begin, up to the token.
Begin(t, op, d, phase, call) ==
  /\ IF Off \/ Filtered(op, phase)
     THEN /\ Push(t, Empty(op, d)) /\ NoSlotUsed /\ UNCHANGED prepares
          /\ IF Filtered(op, phase) THEN UNCHANGED omitted ELSE Miss
     ELSE IF d \notin Devices
     THEN /\ state' = Invalidated /\ Push(t, Empty(op, d)) /\ Miss
          /\ UNCHANGED <<full, faults, clean, prepares>>
     ELSE LET n == prepares[d] + 1 IN
          /\ prepares' = IF op = "prepare" THEN [prepares EXCEPT ![d] = n] ELSE prepares
          /\ IF TooMany(op, n)
             THEN /\ state' = Invalidated /\ Push(t, Empty(op, d)) /\ Miss
                  /\ clean' = FALSE /\ UNCHANGED <<full, faults>>
             ELSE IF op \in Fused
             THEN Push(t, Token(op, d, call)) /\ NoSlotUsed /\ UNCHANGED omitted
             ELSE \E ok \in BOOLEAN :
                    /\ Slot(ok)
                    /\ IF ok
                       THEN Push(t, Token(op, d, call)) /\ UNCHANGED omitted
                       ELSE Push(t, Empty(op, d)) /\ Miss
  /\ UNCHANGED <<exported, ordinary, gen, resetting, queuedCall, census, recording,
                 completions, capture, unreal>>

MidReset(token) == resetting[token.dev]

\* Its second half: a boundary that begins in the middle of a reset of its
\* completion is flagged and invalidates the census; the entry is recorded.
\* A worker's entry names the call that queued it.
Entered(t) ==
  /\ Top(t).live /\ ~Top(t).open
  /\ LET bad == MidReset(Top(t))
         fused == Top(t).op \in Fused
         r == [Top(t) EXCEPT !.open = TRUE, !.flag = bad \/ (fused /\ state # "ready")]
         entry == IF r.op = "worker"
                  THEN Execution(capture, r, queuedCall[r.dev])
                  ELSE Entry(capture, r)
     IN \E ok \in BOOLEAN :
          /\ ~ok => fused
          /\ IF fused THEN Slot(ok) ELSE NoSlotUsed
          /\ Replace(t, r)
          /\ capture' = IF ok THEN Logged(entry) ELSE capture
          /\ ~bad
  /\ UNCHANGED <<exported, ordinary, gen, resetting, prepares, queuedCall, census, recording,
                 completions, omitted, unreal>>

EnterMidReset(t) ==
  /\ Top(t).live /\ ~Top(t).open /\ MidReset(Top(t))
  /\ state' = Invalidated /\ clean' = FALSE
  /\ LET r == [Top(t) EXCEPT !.open = TRUE, !.flag = TRUE]
     IN Replace(t, r) /\ capture' = Logged(Entry(capture, r))
  /\ UNCHANGED <<exported, ordinary, full, gen, resetting, prepares, queuedCall, census,
                 recording, completions, omitted, unreal, faults>>

\* Mutant: the generation is not compared.
CurrentAnyGeneration(token) == state = "ready"

Current(token) ==
  state = "ready" /\ (token.dev \in Devices => gen[token.dev] = token.gen)

\* r5_end; an empty token ends nothing.  A wait or a completion that the
\* verdict takes for one of its generation while it was of another is unreal.
Exited(t) ==
  LET r == [Top(t) EXCEPT !.flag = @ \/ ~Current(Top(t))]
  IN IF ~r.live
     THEN NoSlotUsed /\ UNCHANGED <<capture, unreal>>
     ELSE \E ok \in BOOLEAN :
            /\ Slot(ok)
            /\ capture' = IF ok THEN Logged(ExitRecord(capture, r)) ELSE capture
            /\ unreal' = (unreal \/ (r.op \in {"wait", "complete"} /\ ~r.flag /\ r.at # r.gen))

End(t) ==
  /\ Exited(t) /\ Pop(t)
  /\ UNCHANGED <<exported, ordinary, gen, resetting, prepares, queuedCall, census,
                 recording, completions, omitted>>

\* The exit of a token that is used again.
EndKeep(t) ==
  /\ Exited(t) /\ UNCHANGED stack
  /\ UNCHANGED <<exported, ordinary, gen, resetting, prepares, queuedCall, census,
                 recording, completions, omitted>>

\* r5_aux: a record of the call on top of the stack; logged is the capture with
\* the record.
Noted(t) == [Top(t) EXCEPT !.flag = @ \/ state # "ready"]
Aux(t, logged) ==
  IF ~Top(t).live
  THEN NoSlotUsed /\ UNCHANGED capture
  ELSE \E ok \in BOOLEAN :
         Slot(ok) /\ capture' = IF ok THEN Logged(logged) ELSE capture

\* The progress of a prepare, after its exit; whether the token is dropped.
AuxProgress(t, attempt) ==
  /\ Aux(t, Progress(capture, Noted(t), attempt)) /\ Pop(t)
  /\ UNCHANGED <<exported, ordinary, gen, resetting, prepares, queuedCall, census,
                 recording, completions, omitted, unreal>>

AuxDecision(t, isQueued) ==
  /\ Aux(t, Decision(capture, Noted(t), isQueued)) /\ UNCHANGED stack
  /\ UNCHANGED <<exported, ordinary, gen, resetting, prepares, queuedCall, census,
                 recording, completions, omitted, unreal>>

\* r5obs2_stage_begin.  The stage lives outside the census.
StageBegin(t, call) ==
  /\ IF Off
     THEN Push(t, Empty("stage", NoDevice)) /\ NoSlotUsed /\ Miss /\ UNCHANGED capture
     ELSE LET r == [Token("stage", NoDevice, call) EXCEPT !.open = TRUE] IN
          /\ Push(t, r) /\ UNCHANGED omitted
          /\ \E ok \in BOOLEAN :
               Slot(ok) /\ capture' = IF ok THEN Logged(Entry(capture, r)) ELSE capture
  /\ UNCHANGED <<exported, ordinary, gen, resetting, prepares, queuedCall, census,
                 recording, completions, unreal>>

(***************************************************************************)
(* r5_reinit: the owner of a device's reset moves its generation, records  *)
(* and resets the completion; whoever is not the owner resets it as well,  *)
(* as the kernel would without the hooks.                                  *)
(***************************************************************************)
Own(t, d) ==
  LET seen == state = "ready"
      owner == seen /\ ~resetting[d]
  IN /\ Push(t, [Empty("reinit", d) EXCEPT !.owner = owner])
     /\ resetting' = [resetting EXCEPT ![d] = @ \/ seen]
     /\ state' = IF seen /\ ~owner THEN Invalidated ELSE state
     /\ UNCHANGED <<exported, ordinary, full, gen, prepares, queuedCall, census, recording,
                    completions, capture, hindsight>>

Renew(t, call) ==
  LET d == Top(t).dev IN
  /\ IF ~Top(t).owner
     THEN NoSlotUsed /\ UNCHANGED <<gen, stack, capture, omitted>>
     ELSE /\ gen' = [gen EXCEPT ![d] = @ + 1]
          /\ IF gen[d] + 1 > Generations
             THEN /\ state' = Invalidated /\ clean' = FALSE /\ Miss
                  /\ UNCHANGED <<full, faults, stack, capture>>
             ELSE IF Off
             THEN Miss /\ NoSlotUsed /\ UNCHANGED <<stack, capture>>
             ELSE \E ok \in BOOLEAN :
                    /\ Slot(ok)
                    /\ LET r == [Token("reinit", d, call) EXCEPT
                                   !.owner = TRUE, !.open = TRUE, !.gen = gen[d] + 1]
                       IN IF ok
                          THEN /\ Replace(t, r) /\ capture' = Logged(Entry(capture, r))
                               /\ UNCHANGED omitted
                          ELSE Miss /\ UNCHANGED <<stack, capture>>
  /\ UNCHANGED <<exported, ordinary, resetting, prepares, queuedCall, census, recording,
                 completions, unreal>>

Reinit(t) ==
  /\ completed' = [completed EXCEPT ![Top(t).dev] = FALSE]
  /\ epoch' = [epoch EXCEPT ![Top(t).dev] = @ + 1]
  /\ UNCHANGED <<emitter, census, recording, stack, capture, hindsight>>

Disown(t) ==
  /\ resetting' = [resetting EXCEPT ![Top(t).dev] = @ /\ ~Top(t).owner]
  /\ Pop(t)
  /\ UNCHANGED <<state, exported, ordinary, full, gen, prepares, queuedCall, census,
                 recording, completions, capture, hindsight>>

(***************************************************************************)
(* The completions of the kernel; a token notes the reset they belong to.  *)
(***************************************************************************)
Await(t, d) ==
  /\ completed[d] /\ Replace(t, [Top(t) EXCEPT !.at = epoch[d]])
  /\ UNCHANGED <<emitter, census, recording, completions, capture, hindsight>>

\* Mutant: a boundary that is not recorded does not complete either.
CompleteRecorded(t) ==
  /\ completed' = [completed EXCEPT ![Top(t).dev] = @ \/ Top(t).live]
  /\ Replace(t, [Top(t) EXCEPT !.at = epoch[Top(t).dev]])
  /\ UNCHANGED <<emitter, census, recording, epoch, capture, hindsight>>

\* complete_all in r5_complete, whatever the token is.
Complete(t) ==
  /\ completed' = [completed EXCEPT ![Top(t).dev] = TRUE]
  /\ Replace(t, [Top(t) EXCEPT !.at = epoch[Top(t).dev]])
  /\ UNCHANGED <<emitter, census, recording, epoch, capture, hindsight>>

\* WRITE_ONCE(r5_queued_call), before the worker is scheduled.
Queue(t) ==
  /\ queuedCall' = IF Top(t).live
                   THEN [queuedCall EXCEPT ![Top(t).dev] = Top(t).call]
                   ELSE queuedCall
  /\ UNCHANGED <<state, exported, ordinary, full, gen, resetting, prepares, census,
                 recording, completions, stack, capture, hindsight>>

SetOrdinary(on) ==
  /\ ordinary' = on
  /\ UNCHANGED <<state, exported, full, gen, resetting, prepares, queuedCall, census,
                 recording, completions, stack, capture, hindsight>>

(***************************************************************************)
(* The operator switches the recording; rmmod sends END with an error when *)
(* the recording is on or the census invalid, and stops the emitter.       *)
(***************************************************************************)
Switch(on) ==
  /\ tracing' = on /\ ~ended
  /\ UNCHANGED <<emitter, census, dpc, ended, endError, completions, stack, capture, omitted,
                 unreal, faults>>

Stop ==
  /\ ~ended /\ cpc = "done" /\ ended' = TRUE
  /\ endError' = (tracing \/ state # "ready")
  /\ state' = "invalid"
  /\ UNCHANGED <<exported, ordinary, full, gen, resetting, prepares, queuedCall, census,
                 dpc, tracing, completions, stack, capture, hindsight>>
=============================================================================
