----------------------------- MODULE TraceExport -----------------------------
(***************************************************************************)
(* The kernel side of the trace stream: the module r5_trace_export that    *)
(* prepare-r5-observation.py generates (EXPORT_MODULE).  Its worker moves  *)
(* the records of the per-CPU ring buffers into numbered UDP packets, adds *)
(* the loss counters once a second, and ends the stream with what is left. *)
(*                                                                         *)
(* A record is its number on its CPU and whether it fits a packet.  Time   *)
(* is a choice: the 5 ms deadline and the one second of the statistics may *)
(* have passed or not.  The operator and the rest of the kernel switch the *)
(* recording, produce records, and may break the profile; the machine may  *)
(* stop and boot again, and then another session follows.                  *)
(***************************************************************************)
EXTENDS Naturals, Sequences, FiniteSets, Functions, FiniteSetsExt

CONSTANTS NCpus,     \* nr_cpu_ids
          Slots,     \* records one CPU's ring holds
          Burst,     \* BURST
          CpuBurst,  \* CPU_BURST
          Sessions,  \* bound: boots, each with a session of its own
          MaxEvents, \* bound: records produced in one session
          MaxTicks,  \* bound: periodic statistics in one session
          MaxToggles, \* bound: times the recording is switched in a session
          MaxFaults  \* bound: breaches of the profile and of the network

ASSUME ExportAssumption ==
  /\ {NCpus, Slots, Burst, CpuBurst, Sessions} \subseteq Nat \ {0}
  /\ {MaxEvents, MaxTicks, MaxToggles, MaxFaults} \subseteq Nat

VARIABLES session, mod,            \* the boot's session, the module
          enabled, owned, semantic, \* recording, ownership, emitter state
          exported,                \* r5_exported
          ring, dropped, made,     \* per CPU; made is history
          wpc, work,               \* the worker and its counters
          out,                     \* the stream's counters
          net,                     \* packets under way
          sent,                    \* per session: every packet, history
          truth, clean, faults,    \* history
          toggles

Cpus == 0..(NCpus - 1)
rings == <<ring, dropped, made>>
switches == <<enabled, owned, semantic>>
wire == <<net, sent>>
history == <<truth, clean, faults, toggles>>
kernel == <<session, mod, switches, exported, rings, wpc, work, out, sent>>

Packet == [session : 1..Sessions, kind : {"begin", "event", "stats", "end"},
           seq : Nat, cpu : 0..NCpus, a : Nat, b : Nat, loss : BOOLEAN]

ExportTypeOK ==
  /\ session \in 1..Sessions
  /\ mod \in {"unloaded", "live", "stopping", "final", "count", "end", "gone", "down"}
  /\ {enabled, owned, semantic, exported} \subseteq BOOLEAN
  /\ \A c \in Cpus : Len(ring[c]) <= Slots /\ made[c] \in 0..MaxEvents + 1
  /\ dropped \in [Cpus -> Nat]
  /\ wpc \in {"off", "queued", "run", "stats"}
  /\ work \in [n : 0..Burst, quota : 0..CpuBurst, empty : 0..NCpus,
               cpu : Cpus, cursor : Cpus, stat : Cpus]
  /\ out \in [seq : Nat, oversized : BOOLEAN, error : BOOLEAN, remaining : Nat,
              ticks : 0..MaxTicks]
  /\ net \in Seq(Packet) /\ sent \in [1..Sessions -> Seq(Packet)]
  /\ truth \in [1..Sessions -> [Cpus -> Nat]]
  /\ clean \in [1..Sessions -> BOOLEAN] /\ faults \in 0..MaxFaults /\ toggles \in 0..MaxToggles

\* The module's variables as they are loaded; after rmmod they are gone.
FreshWork == [n |-> 0, quota |-> 0, empty |-> 0, cpu |-> 0, cursor |-> 0, stat |-> 0]
FreshOut == [seq |-> 0, oversized |-> FALSE, error |-> FALSE, remaining |-> 0,
             ticks |-> 0]
Zero == [c \in Cpus |-> 0]
NoRecords == [c \in Cpus |-> <<>>]

ExportInit ==
  /\ session = 1 /\ mod = "unloaded"
  /\ enabled = FALSE /\ owned = TRUE /\ semantic = TRUE /\ exported = FALSE
  /\ ring = NoRecords /\ dropped = Zero /\ made = Zero
  /\ wpc = "off" /\ work = FreshWork /\ out = FreshOut
  /\ net = <<>> /\ sent = [s \in 1..Sessions |-> <<>>]
  /\ truth = [s \in 1..Sessions |-> Zero]
  /\ clean = [s \in 1..Sessions |-> TRUE] /\ faults = 0 /\ toggles = 0

Breach == faults < MaxFaults /\ faults' = faults + 1
Spoil == clean' = [clean EXCEPT ![session] = FALSE]
SpoilIf(p) == clean' = [clean EXCEPT ![session] = @ /\ ~p]

(***************************************************************************)
(* The ring buffer and the trace array belong to the kernel: without       *)
(* overwrite a record that finds its ring full is counted, not stored.     *)
(***************************************************************************)
Produced == FoldFunction(+, 0, made)

Record(c, big) ==
  /\ made' = [made EXCEPT ![c] = @ + 1]
  /\ IF Len(ring[c]) < Slots
     THEN ring' = [ring EXCEPT ![c] = Append(@, [id |-> made[c] + 1, big |-> big])]
          /\ UNCHANGED dropped
     ELSE dropped' = [dropped EXCEPT ![c] = @ + 1] /\ UNCHANGED ring

Emit ==
  /\ enabled /\ mod \notin {"gone", "down"} /\ Produced < MaxEvents
  /\ \E c \in Cpus, big \in BOOLEAN :
       Record(c, big) /\ SpoilIf(big \/ Len(ring[c]) = Slots)
  /\ UNCHANGED <<session, mod, switches, exported, wpc, work, out, wire, truth, faults, toggles>>

\* The operator switches the recording.
Toggle ==
  /\ mod \notin {"gone", "down"} /\ enabled' = ~enabled
  /\ toggles < MaxToggles /\ toggles' = toggles + 1
  /\ SpoilIf(mod \notin {"unloaded", "live"})
  /\ UNCHANGED <<session, mod, owned, semantic, exported, rings, wpc, work, out,
                 wire, truth, faults>>

\* Someone opens or closes trace_pipe, or changes the flags, tracer or clock.
Foreign ==
  /\ mod \notin {"gone", "down"} /\ owned' = ~owned /\ Breach /\ Spoil
  /\ UNCHANGED <<session, mod, enabled, semantic, exported, rings, wpc, work, out,
                 wire, truth, toggles>>

\* The event profile is broken or the census invalidated, for good.
Invalidate ==
  /\ mod \notin {"gone", "down"} /\ semantic /\ semantic' = FALSE /\ Breach /\ Spoil
  /\ UNCHANGED <<session, mod, enabled, owned, exported, rings, wpc, work, out,
                 wire, truth, toggles>>

(***************************************************************************)
(* Sending.  The number is used up even if the packet goes nowhere.        *)
(***************************************************************************)
Datagram(kind, c, a, b) ==
  [session |-> session, kind |-> kind, seq |-> out.seq, cpu |-> c,
   a |-> a, b |-> b, loss |-> out.oversized]

Transmit(p) ==
  net' = Append(net, p) /\ sent' = [sent EXCEPT ![session] = Append(@, p)]

Send(kind, c, a, b) ==
  /\ Transmit(Datagram(kind, c, a, b))
  /\ out' = [out EXCEPT !.seq = @ + 1]

\* queue_room: the link is up and netpoll's queue is short, or not.
QueueRoom == BOOLEAN

(***************************************************************************)
(* Loading: a refusal leaves the emitter stopped for this boot.            *)
(***************************************************************************)
\* What export_init demands of the recording, and check_buffer_geometry, the
\* census and netpoll of the machine.
Admitted == owned /\ semantic /\ ~enabled /\ ring = NoRecords
Geometry == BOOLEAN

Load ==
  /\ mod = "unloaded"
  /\ \E fits \in Geometry :
     IF Admitted /\ fits
     THEN /\ mod' = "live" /\ wpc' = "queued"
          /\ Send("begin", NCpus, NCpus, 0)
          /\ UNCHANGED <<semantic, clean>>
     ELSE /\ mod' = "gone" /\ semantic' = FALSE
          /\ Spoil /\ UNCHANGED <<wpc, wire, out>>
  /\ UNCHANGED <<session, enabled, owned, exported, rings, work, truth, faults, toggles>>

(***************************************************************************)
(* The worker.                                                             *)
(***************************************************************************)
NextCpu(w) == [w EXCEPT !.cpu = w.cursor, !.cursor = (@ + 1) % NCpus, !.quota = 0]

\* The gates of a pass; the first pass of a recording emits the dictionary,
\* on whatever CPU the worker runs.
DrainStart ==
  /\ wpc = "queued"
  /\ IF owned /\ semantic
     THEN /\ wpc' = "run" /\ work' = NextCpu([work EXCEPT !.n = 0, !.empty = 0])
          /\ IF enabled /\ ~exported
             THEN /\ exported' = TRUE
                  /\ \E c \in Cpus : Record(c, FALSE) /\ SpoilIf(Len(ring[c]) = Slots)
             ELSE UNCHANGED <<exported, rings, clean>>
          /\ UNCHANGED out
     ELSE /\ out' = [out EXCEPT !.error = TRUE] /\ wpc' = "off"
          /\ UNCHANGED <<work, exported, rings, clean>>
  /\ UNCHANGED <<session, mod, switches, wire, truth, faults, toggles>>

\* The label reschedule: statistics when a second has passed.
Requeue == wpc' = IF mod = "stopping" THEN "off" ELSE "queued"
Reschedule ==
  \/ /\ out.ticks < MaxTicks
     /\ out' = [out EXCEPT !.ticks = @ + 1] /\ wpc' = "stats"
  \/ Requeue /\ UNCHANGED out

Budgeted == work.n < Burst

QuotaLeft == work.quota < CpuBurst

\* The time or the budget is used up, or there is no room.
Break ==
  /\ wpc = "run"
  /\ Reschedule
  /\ UNCHANGED <<session, mod, switches, exported, rings, work, wire, history>>

\* The CPU has had its turn.
NextRing ==
  /\ wpc = "run" /\ Budgeted /\ ~QuotaLeft
  /\ work' = NextCpu(work)
  /\ UNCHANGED <<session, mod, switches, exported, rings, wpc, out, wire, history>>

\* Mutant: empty visits are not counted.
EmptyRingUncounted ==
  /\ wpc = "run" /\ Budgeted /\ QuotaLeft /\ ring[work.cpu] = <<>>
  /\ work' = NextCpu(work)
  /\ UNCHANGED <<session, mod, switches, exported, rings, wpc, out, wire, history>>

\* A visit to an empty ring; after as many as there are CPUs the pass ends.
EmptyRing ==
  /\ wpc = "run" /\ Budgeted /\ QuotaLeft /\ ring[work.cpu] = <<>>
  /\ LET w == [work EXCEPT !.empty = @ + 1]
     IN IF w.empty >= NCpus
        THEN Reschedule /\ work' = w
        ELSE work' = NextCpu(w) /\ UNCHANGED <<wpc, out>>
  /\ UNCHANGED <<session, mod, switches, exported, rings, wire, history>>

\* A record is consumed and sent, or found too long, which ends the worker.
Consume ==
  /\ wpc = "run" /\ Budgeted /\ QuotaLeft /\ ring[work.cpu] # <<>>
  /\ LET event == Head(ring[work.cpu]) IN
       /\ ring' = [ring EXCEPT ![work.cpu] = Tail(@)]
       /\ IF event.big
          THEN /\ out' = [out EXCEPT !.oversized = TRUE, !.error = TRUE]
               /\ wpc' = "off"
               /\ work' = [work EXCEPT !.empty = 0, !.n = @ + 1]
               /\ UNCHANGED wire
          ELSE /\ Send("event", work.cpu, event.id, 0)
               /\ work' = [work EXCEPT !.empty = 0, !.n = @ + 1, !.quota = @ + 1]
               /\ UNCHANGED wpc
  /\ UNCHANGED <<session, mod, switches, exported, dropped, made, history>>

\* Mutant: without room the last CPU is left out and the others are sent.
StatSkipsLast(done) ==
  /\ IF work.stat + 1 < NCpus
     THEN /\ Send("stats", work.stat, dropped[work.stat], Len(ring[work.stat]))
          /\ work' = [work EXCEPT !.stat = @ + 1] /\ UNCHANGED <<wpc, mod>>
     ELSE work' = [work EXCEPT !.stat = 0] /\ done /\ UNCHANGED <<out, wire>>
  /\ UNCHANGED clean

\* One CPU of stats(): its counters are sent, or, without room, the rest of
\* the CPUs is given up.  done says what follows the loop.
Stat(done) ==
  \E room \in QueueRoom :
    /\ IF room
       THEN Send("stats", work.stat, dropped[work.stat], Len(ring[work.stat]))
       ELSE UNCHANGED <<out, wire>>
    /\ IF room /\ work.stat + 1 < NCpus
       THEN work' = [work EXCEPT !.stat = @ + 1] /\ UNCHANGED <<wpc, mod>>
       ELSE work' = [work EXCEPT !.stat = 0] /\ done
    /\ SpoilIf(~room /\ mod = "final")

DrainStat ==
  /\ wpc = "stats"
  /\ Stat(Requeue /\ UNCHANGED mod)
  /\ UNCHANGED <<session, switches, exported, rings, truth, faults, toggles>>

(***************************************************************************)
(* Unloading.  The contract with the caller is that the recording has been *)
(* stopped and the worker has drained the rings.                           *)
(***************************************************************************)
Unload ==
  /\ mod = "live" /\ mod' = "stopping"
  /\ SpoilIf(enabled \/ ring # NoRecords)
  /\ UNCHANGED <<session, switches, exported, rings, wpc, work, out, wire, truth, faults, toggles>>

\* cancel_delayed_work_sync waits for a pass that is running.
Cancel ==
  /\ mod = "stopping" /\ wpc \in {"off", "queued"}
  /\ mod' = "final" /\ wpc' = "off"
  /\ UNCHANGED <<session, switches, exported, rings, work, out, wire, history>>

FinalStat ==
  /\ mod = "final"
  /\ Stat(mod' = "count" /\ UNCHANGED wpc)
  /\ UNCHANGED <<session, switches, exported, rings, truth, faults, toggles>>

Left == Cardinality({r \in Cpus \X (1..Slots) : r[2] \in DOMAIN ring[r[1]]})

Count ==
  /\ mod = "count" /\ mod' = "end"
  /\ out' = [out EXCEPT !.remaining = Left]
  /\ truth' = [truth EXCEPT ![session] = made]
  /\ UNCHANGED <<session, switches, exported, rings, wpc, work, wire, clean, faults, toggles>>

\* END carries what was left, and one flag for active or error.
End ==
  /\ mod = "end" /\ mod' = "gone" /\ semantic' = FALSE
  /\ LET flag == IF enabled \/ out.error \/ ~semantic THEN 1 ELSE 0
     IN \E room \in QueueRoom :
          /\ IF room
             THEN Transmit(Datagram("end", NCpus, out.remaining, flag))
             ELSE UNCHANGED wire
          /\ SpoilIf(~room \/ enabled)
  /\ work' = FreshWork /\ out' = FreshOut
  /\ UNCHANGED <<session, enabled, owned, exported, rings, wpc, truth, faults, toggles>>

Memory ==
  /\ enabled' = FALSE /\ owned' = TRUE /\ semantic' = TRUE /\ exported' = FALSE
  /\ ring' = NoRecords /\ dropped' = Zero /\ made' = Zero
  /\ wpc' = "off" /\ work' = FreshWork /\ out' = FreshOut /\ toggles' = 0

\* The machine stops at any point, which is what a resume test risks, or is
\* shut down after the session.
Crash ==
  /\ mod # "down" /\ mod' = "down" /\ Memory /\ SpoilIf(mod # "gone")
  /\ UNCHANGED <<session, wire, truth, faults>>

\* One census per boot: the next session follows another boot.
Boot ==
  /\ mod = "down" /\ session < Sessions
  /\ session' = session + 1 /\ mod' = "unloaded" /\ Memory
  /\ UNCHANGED <<wire, truth, clean, faults>>

Worker == DrainStart \/ Break \/ NextRing \/ EmptyRing \/ Consume \/ DrainStat
Exit == Cancel \/ FinalStat \/ Count \/ End
ExportNext ==
  \/ Emit \/ Toggle \/ Foreign \/ Invalidate
  \/ Load \/ Worker \/ Unload \/ Exit \/ Crash \/ Boot
=============================================================================
