---------------------------- MODULE SemanticFlow -----------------------------
(***************************************************************************)
(* One suspend cycle of the PM core with the hooks that semantic_overlay   *)
(* and metered_overlay put into it, as programs over the emitter           *)
(* (SemanticEmitter): the task that prepares the devices and runs the      *)
(* phases, a worker for each asynchronous device, and a driver that waits  *)
(* for another device (device_pm_wait_for_dev) or probes one.              *)
(*                                                                         *)
(* Only hooks and completions are kept of the PM core.  The phases before  *)
(* ordinary resume differ from it in the direction of the waits alone.     *)
(***************************************************************************)
EXTENDS SemanticEmitter

CONSTANTS Parent,   \* per device: a lower one, or NoDevice
          Async,    \* devices with a worker
          Phases,   \* sequence over {"suspend", "resume"}
          Retries,  \* bound: prepares answered -EAGAIN
          MaxSwitches \* bound: times the recording is switched

Main == 0
Bystander == 100
Stranger == 99 \* a device the census does not hold
ASSUME FlowAssumption ==
  /\ Async \subseteq Devices /\ Tasks = {Main, Bystander} \cup Async
  /\ \A d \in Devices : Parent[d] \in Devices \cup {NoDevice} /\ Parent[d] < d

VARIABLES place,     \* per task: place in its program
          work,      \* devices whose worker is scheduled
          attempt,   \* r5_attempt
          retries, switches

flow == <<place, work, attempt, retries, switches>>
flowVars == <<emitter, census, recording, completions, stack, capture, hindsight, flow>>

(***************************************************************************)
(* Programs.                                                               *)
(***************************************************************************)
I(do, op, d) == [do |-> do, op |-> op, dev |-> d]
Opened(op, d) == <<I("begin", op, d), I("enter", op, d)>>
Done == <<I("end", "", NoDevice)>>

\* dpm_wait: without a device nothing.
Wait(d) == IF d = NoDevice
           THEN <<>>
           ELSE Opened("wait", d) \o <<I("await", "wait", d)>> \o Done

Waits(phase, d) ==
  IF phase = "resume"
  THEN Opened("superior", d) \o Wait(Parent[d]) \o Done
  ELSE FoldRight(LAMBDA c, rest : Wait(c) \o rest,
               SetToSortSeq({c \in Devices : Parent[c] = d}, <), <<>>)

Skipped(d) == Opened("skip", d) \o Done
Called(d) == Opened("callback", d) \o Done

\* device_resume and its counterparts: a device that needs nothing done is
\* skipped, and completed all the same.
Body(phase, d) ==
  LET work1 == Waits(phase, d) \o Called(d)
      over == Skipped(d) \o <<I("goto", "", Len(work1))>>
  IN Opened("resume", d) \o <<I("maybe", "", Len(over))>> \o over \o work1
     \o <<I("begin", "complete", d), I("enter", "complete", d),
          I("complete", "complete", d)>> \o Done \o Done

\* The boundary R5_RESUME is in ordinary resume only.
PhaseBody(phase, d) ==
  IF phase = "resume" THEN Body(phase, d) ELSE SubSeq(Body(phase, d), 3, Len(Body(phase, d)) - 1)

\* async_resume and its counterparts.
WorkerPhase(phase, d) ==
  <<I("start", "", d)>> \o Opened("worker", d) \o PhaseBody(phase, d) \o Done
  \o <<I("idle", "", d)>>

\* device_prepare with its callback, and what dpm_prepare does with the answer.
Prepared(d) ==
  Opened("prepare", d) \o Opened("callback", d) \o Done
  \o <<I("answer", "prepare", d), I("progress", "prepare", d)>>

\* r5_reinit, and dpm_async_fn after it.
Reset(d) ==
  <<I("own", "reinit", d), I("renew", "reinit", d), I("reinit", "reinit", d),
    I("endkeep", "reinit", d), I("release", "reinit", d)>>
Scheduled(d) ==
  Reset(d) \o Opened("task", d)
  \o <<I("queue", "task", d), I("schedule", "task", d), I("decision", "task", d)>> \o Done

EachDevice(part(_)) ==
  FoldRight(LAMBDA d, rest : part(d) \o rest, SetToSortSeq(Devices, <), <<>>)

\* Mutant: the detail ends before the workers do.
MainPhaseEarly(phase) ==
  <<I("stage", "stage", NoDevice), I("ordinary", phase, NoDevice)>>
  \o EachDevice(Scheduled)
  \o EachDevice(LAMBDA d : IF d \in Async THEN <<>> ELSE PhaseBody(phase, d))
  \o <<I("plain", "", NoDevice), I("sync", "", NoDevice)>> \o Done

\* dpm_resume and its counterparts: the detail of ordinary resume is switched
\* on for the body, which ends when the workers have.
MainPhase(phase) ==
  <<I("stage", "stage", NoDevice), I("ordinary", phase, NoDevice)>>
  \o EachDevice(Scheduled)
  \o EachDevice(LAMBDA d : IF d \in Async THEN <<>> ELSE PhaseBody(phase, d))
  \o <<I("sync", "", NoDevice), I("plain", "", NoDevice)>> \o Done

EachPhase(part(_)) == FoldRight(LAMBDA p, rest : part(p) \o rest, Phases, <<>>)

Preparing == <<I("go", "", NoDevice)>> \o EachDevice(Prepared)
MainProgram == Preparing \o EachPhase(MainPhase)

\* A device that came to the list without the census is probed, or not, and
\* the first device is waited for.
BystanderProgram ==
  <<I("go", "", NoDevice), I("maybe", "", 3)>> \o Opened("probe", Stranger) \o Done
  \o Opened("wait", 1) \o <<I("await", "wait", 1)>> \o Done

Program == [t \in Tasks |->
  IF t = Main THEN MainProgram
  ELSE IF t = Bystander THEN BystanderProgram
  ELSE EachPhase(LAMBDA p : WorkerPhase(p, t))]

AtEnd(t) == place[t] > Len(Program[t])
At(t, do) == ~AtEnd(t) /\ Program[t][place[t]].do = do
Op(t) == Program[t][place[t]].op
Dev(t) == Program[t][place[t]].dev
Go(t, n) == place' = [place EXCEPT ![t] = @ + n]
Call(t) == <<t, place[t]>>
PhaseOf(t) ==
  IF t = Main /\ place[t] <= Len(Preparing) THEN "prepare" ELSE "other"

FlowTypeOK ==
  /\ CaptureTypeOK /\ EmitterTypeOK
  /\ \A t \in Tasks : place[t] \in 1..Len(Program[t]) + 1
  /\ work \subseteq Async /\ attempt \in Nat
  /\ retries \in 0..Retries /\ switches \in 0..MaxSwitches

FlowInit ==
  /\ EmitterInit
  /\ place = [t \in Tasks |-> 1] /\ work = {} /\ attempt = 0
  /\ retries = 0 /\ switches = 0

(***************************************************************************)
(* Steps of the tasks.                                                     *)
(***************************************************************************)
Quiet == UNCHANGED <<emitter, census, recording, completions, stack, capture, omitted, unreal,
                     faults>>
Others == UNCHANGED <<work, attempt, retries, switches>>

\* The cycle starts once the exporter is loaded; a recording is clean when
\* the dictionary was on the wire before, and no driver interferes.
Started(t) ==
  /\ At(t, "go") /\ cpc = "done" /\ Go(t, 1) /\ Quiet /\ Others
  /\ clean' = (clean /\ t = Main /\ tracing /\ dpc = "drained")

Hooks(t) ==
  /\ \/ At(t, "begin") /\ Begin(t, Op(t), Dev(t), PhaseOf(t), Call(t)) /\ Go(t, 1)
     \/ At(t, "enter") /\ Entered(t) /\ Go(t, 1)
     \/ At(t, "enter") /\ EnterMidReset(t) /\ Go(t, 1)
     \/ At(t, "enter") /\ ~Top(t).live /\ Quiet /\ UNCHANGED clean /\ Go(t, 1)
     \/ At(t, "end") /\ End(t) /\ Go(t, 1)
     \/ At(t, "endkeep") /\ EndKeep(t) /\ Go(t, 1)
     \/ At(t, "stage") /\ StageBegin(t, Call(t)) /\ Go(t, 1)
     \/ At(t, "own") /\ Own(t, Dev(t)) /\ Go(t, 1)
     \/ At(t, "renew") /\ Renew(t, Call(t)) /\ Go(t, 1)
     \/ At(t, "reinit") /\ Reinit(t) /\ Go(t, 1)
     \/ At(t, "release") /\ Disown(t) /\ Go(t, 1)
     \/ At(t, "await") /\ Await(t, Dev(t)) /\ Go(t, 1)
     \/ At(t, "complete") /\ Complete(t) /\ Go(t, 1)
     \/ At(t, "queue") /\ Queue(t) /\ Go(t, 1)
     \/ At(t, "ordinary") /\ SetOrdinary(Op(t) = "resume") /\ Go(t, 1)
     \/ At(t, "plain") /\ SetOrdinary(FALSE) /\ Go(t, 1)
     \/ At(t, "decision") /\ AuxDecision(t, Dev(t) \in Async) /\ Go(t, 1)
  /\ Others

\* dpm_prepare: -EAGAIN prepares the device again.
Answer(t) ==
  /\ At(t, "answer") /\ EndKeep(t) /\ Go(t, 1) /\ attempt' = attempt + 1
  /\ UNCHANGED <<work, retries, switches>>

Proceed(t) ==
  /\ At(t, "progress") /\ AuxProgress(t, attempt)
  /\ \/ Go(t, 1) /\ UNCHANGED retries
     \/ retries < Retries /\ retries' = retries + 1 /\ Go(t, 1 - Len(Prepared(Dev(t))))
  /\ UNCHANGED <<work, attempt, switches>>

Schedule(t) ==
  /\ At(t, "schedule") /\ Go(t, 1)
  /\ work' = IF Dev(t) \in Async THEN work \cup {Dev(t)} ELSE work
  /\ Quiet /\ UNCHANGED <<clean, attempt, retries, switches>>

Jumps(t) ==
  /\ \/ At(t, "start") /\ t \in work /\ Go(t, 1) /\ UNCHANGED work
     \/ At(t, "idle") /\ work' = work \ {t} /\ Go(t, 1)
     \/ At(t, "sync") /\ work = {} /\ Go(t, 1) /\ UNCHANGED work
     \/ At(t, "maybe") /\ (Go(t, 1) \/ Go(t, 1 + Dev(t))) /\ UNCHANGED work
     \/ At(t, "goto") /\ Go(t, 1 + Dev(t)) /\ UNCHANGED work
  /\ Quiet /\ UNCHANGED <<clean, attempt, retries, switches>>

Task(t) == Started(t) \/ Hooks(t) \/ Answer(t) \/ Proceed(t) \/ Schedule(t) \/ Jumps(t)

Operator ==
  \/ /\ switches < MaxSwitches /\ switches' = switches + 1 /\ Switch(~tracing)
     /\ clean' = (clean /\ (~tracing \/ AtEnd(Main)))
     /\ UNCHANGED <<place, work, attempt, retries>>
  \/ /\ Stop /\ UNCHANGED flow

Kernel == (Census \/ Mutate \/ Dictionary) /\ UNCHANGED flow

FlowNext == Kernel \/ Operator \/ \E t \in Tasks : Task(t)

FlowSpec == FlowInit /\ [][FlowNext]_flowVars
\* The kernel schedules every task, and the loading of the exporter goes on.
FairFlow == FlowSpec /\ \A t \in Tasks : WF_flowVars(Task(t))
                     /\ WF_flowVars(Census /\ UNCHANGED flow)

(***************************************************************************)
(* The census that boundaries are recorded against is current: what it saw *)
(* of lists and links, drivers, names and notifiers has not changed since, *)
(* or the change is one whose second hook is still to come.                *)
(***************************************************************************)
CensusIsCurrent == state = "ready" /\ mutator # "renamed" => stale = {}

Verdict == ended /\ ~endError /\ Coverage(capture) = "SEMANTIC_RECORDS_PAIRED"

(***************************************************************************)
(* A capture that is called SEMANTIC_RECORDS_PAIRED, of a recording that   *)
(* ended without error, left out no boundary of its scope: not when the    *)
(* census was invalidated or the envelope was full between two boundaries, *)
(* so that no record is missing a partner.                                 *)
(***************************************************************************)
PairedOmitsNothing == Verdict => ~omitted

(***************************************************************************)
(* And every wait and completion in it belongs to the generation it        *)
(* names, in any interleaving with a reset of the same completion.         *)
(***************************************************************************)
PairedIsReal == Verdict => ~unreal

(***************************************************************************)
(* A recording that nothing disturbed, of a whole cycle, is called paired. *)
(***************************************************************************)
CleanIsPaired ==
  ended /\ ~endError /\ clean /\ AtEnd(Main) =>
    Coverage(capture) = "SEMANTIC_RECORDS_PAIRED"

(***************************************************************************)
(* No PM outcome is changed: the cycle ends whatever the hooks find.       *)
(***************************************************************************)
CycleEnds == <>AtEnd(Main)

(***************************************************************************)
(* What the proof of PairedIsReal uses of the programs.  They are built by *)
(* folds over devices and phases, so that this is evaluated for the        *)
(* constants of a run.  A wait or completion stands in its own boundary    *)
(* and a reset is one piece, which no branch leads into; every hook that   *)
(* uses a token finds one that is open.                                    *)
(***************************************************************************)
Timed == {"wait", "complete"}
Pushing == {"begin", "stage", "own"}
Popping == {"end", "release", "progress"}
UsesToken ==
  {"enter", "end", "endkeep", "renew", "reinit", "release", "await", "complete", "queue",
   "decision", "answer", "progress"}

\* The hook k places before place n of a task opens such a piece.
Before(t, n, k) == k < n /\ n - k <= Len(Program[t])
InTimed(t, n, k) ==
  Before(t, n, k) /\ Program[t][n - k].do = "begin" /\ Program[t][n - k].op \in Timed
InReset(t, n, k) == Before(t, n, k) /\ Program[t][n - k].do = "own"
Inner(t, n) == (\E k \in 1..3 : InTimed(t, n, k)) \/ \E k \in 1..4 : InReset(t, n, k)

\* Tokens that are open at place n.
Passed(t, n, kinds) == {i \in 1..(n - 1) : Program[t][i].do \in kinds}
Open(t, n) == Cardinality(Passed(t, n, Pushing)) - Cardinality(Passed(t, n, Popping))

Leaps(x) ==
  CASE x.do \in {"maybe", "goto"} -> {1 + x.dev}
    [] x.do = "progress" -> {1 - Len(Prepared(x.dev))}
    [] OTHER -> {}

Pieces(p, n) ==
  /\ p[n].do = "begin" => p[n].op \in Ops
  /\ p[n].do = "begin" /\ p[n].op \in Timed =>
       /\ p[n].dev \in Devices /\ n + 3 <= Len(p) /\ p[n + 1].do = "enter" /\ p[n + 3].do = "end"
       /\ p[n + 2].do \in {"await", "complete"} /\ p[n + 2].dev = p[n].dev
  /\ p[n].do = "own" =>
       /\ p[n].dev \in Devices /\ n + 4 <= Len(p)
       /\ p[n + 1].do = "renew" /\ p[n + 2].do = "reinit"
       /\ p[n + 3].do = "endkeep" /\ p[n + 4].do = "release"

ProgramsShaped ==
  \A t \in Tasks :
    /\ Program[t] \in Seq([do : STRING, op : STRING, dev : Nat])
    /\ Program[t] # <<>> => Program[t][1].do \in {"go", "start"}
    /\ \A n \in DOMAIN Program[t] :
         /\ Pieces(Program[t], n)
         /\ Program[t][n].do \in {"await", "complete"} => InTimed(t, n, 2)
         /\ Program[t][n].do = "renew" => InReset(t, n, 1)
         /\ Program[t][n].do = "reinit" => InReset(t, n, 2)
         /\ Program[t][n].do = "endkeep" => InReset(t, n, 3)
         /\ Program[t][n].do = "release" => InReset(t, n, 4)
         /\ Program[t][n].do \in UsesToken => Open(t, n) > 0
         /\ \A j \in Leaps(Program[t][n]) :
              /\ n + j \in 1..(Len(Program[t]) + 1)
              /\ Open(t, n + j) = Open(t, n + 1) /\ ~Inner(t, n + j)
ASSUME ProgramAssumption == ProgramsShaped
=============================================================================
