---------------------------- MODULE MCSemanticFlow ---------------------------
(***************************************************************************)
(* SemanticFlow with a device and its asynchronous child.  A behaviour     *)
(* holds one disturbance: a change of the topology, the bystander, a fault *)
(* or repeated prepares.  A change begins before the cycle or at one of    *)
(* its joints (Calm), where the recording is switched and the dictionary   *)
(* starts as well; it ends before the cycle goes on.  The bystander comes  *)
(* in ordinary resume before the resets of the child are through, in a     *)
(* recording whose dictionary is on the wire.  rmmod comes once the        *)
(* recording is off again.                                                 *)
(***************************************************************************)
EXTENDS SemanticFlow
MCDevices == 1..2
MCTasks == {0, 2, 100}
MCParent == [d \in 1..2 |-> d - 1]
MCAsync == {2}
MCPhases == <<"resume">>

Disturbances == (IF mutator = "none" THEN 0 ELSE 1) + (IF place[Bystander] = 1 THEN 0 ELSE 1)
                + faults + (IF retries = 0 THEN 0 ELSE 1)

\* Steps of the cycle that only a disturbance could tell from their
\* predecessors are taken at once.
Prompt(t) ==
  /\ ~AtEnd(t)
  /\ IF t = Bystander
     THEN completed[1] /\ epoch[1] > 1 /\ Program[t][place[t]].do \in {"await", "end"}
     ELSE Program[t][place[t]].do \in
            {"enter", "queue", "ordinary", "plain", "idle", "maybe", "goto"}

Calm == place[Main] = 1 \/ At(Main, "sync") \/ AtEnd(Main)

Bounded ==
  /\ Disturbances' <= 1
  /\ mutator' # mutator => Calm
  /\ dpc' = "rows" => ended \/ (Calm /\ Calm')
  /\ mutator' \in {"bind", "rename", "register"} \ {mutator} => place[Main] = 1
  /\ faults' > faults /\ cpc = "done" => tracing
  /\ At(Main, "maybe") => place'[Main] # place[Main] + 1
  /\ retries' > retries => prepares[2] = 0
  /\ place[Bystander] = 1 /\ place'[Bystander] # 1 =>
       tracing /\ dpc = "drained" /\ ordinary /\ completed[2]

MCKernel == ~ended /\ (\A t \in Tasks : ~Prompt(t)) /\ Kernel /\ Bounded
MCTask ==
  /\ \/ ended
     \/ mutator \in {"none", "changed"} /\ dpc \notin {"end", "sent"}
  /\ \E t \in Tasks : (\A u \in Tasks : Prompt(u) => u = t) /\ ~AtEnd(t) /\ Task(t)
  /\ Bounded
MCOperator ==
  /\ Calm /\ Operator
  /\ ended' => ~tracing /\ switches = 2
  /\ tracing' # tracing => cpc = "done" /\ (tracing => place[Main] # 1)
  /\ Bounded

MCNext == MCKernel \/ MCTask \/ MCOperator

\* Some task that can go on does, or the loading, the dictionary or a change
\* that has begun; nothing more is needed for the cycle to end.
MCSpec == FlowInit /\ [][MCNext]_flowVars
               /\ WF_flowVars(MCTask \/ (MCKernel /\ (mutator # "none" \/ mutator' = mutator)))
=============================================================================
