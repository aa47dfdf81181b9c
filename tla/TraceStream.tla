----------------------------- MODULE TraceStream -----------------------------
(***************************************************************************)
(* A recorded session from end to end: the exporter in the kernel          *)
(* (TraceExport), a network that loses, repeats and swaps datagrams, the   *)
(* receiver on the Windows machine (WINDOWS_RECEIVER), the check of the    *)
(* capture (check_stream of r5-observation.py), and the upload of the      *)
(* first session's capture (UploadService).                                *)
(*                                                                         *)
(* A capture is the sequence of packets it holds.  Foreign and unknown     *)
(* datagrams, which the receiver only counts, are left out.                *)
(***************************************************************************)
EXTENDS TraceExport, UploadService, SequencesExt

CONSTANTS Budget,      \* packets the receiver stores in all
          BlockPackets \* packets of a capture that fill an upload block

ASSUME StreamAssumption == Budget \in Nat /\ BlockPackets \in Nat \ {0}

VARIABLES rpc,      \* recv, stopped, closed or dead
          active,   \* the session whose file is open, or NoSession
          finished, \* sessions announced RECEIVED_AND_FLUSHED
          file,     \* per session: the capture
          flushed   \* per session: packets of it on the disk

receiver == <<rpc, active, finished, file, flushed>>
vars == <<kernel, net, history, receiver, uploadVars>>

NoSession == 0
Ids == 1..Sessions

TypeOK ==
  /\ ExportTypeOK /\ UploadTypeOK
  /\ rpc \in {"recv", "stopped", "closed", "dead"}
  /\ active \in Ids \cup {NoSession} /\ finished \subseteq Ids
  /\ \A s \in Ids : \A i \in DOMAIN file[s] : file[s][i] \in Packet
  /\ \A s \in Ids : flushed[s] \in 0..Len(file[s])

Init ==
  /\ ExportInit /\ UploadInit
  /\ rpc = "recv" /\ active = NoSession /\ finished = {}
  /\ file = [s \in Ids |-> <<>>] /\ flushed = [s \in Ids |-> 0]

(***************************************************************************)
(* The network.  With nobody at the port a datagram is gone as well.       *)
(***************************************************************************)
Disturb ==
  /\ net # <<>> /\ Breach /\ clean' = [clean EXCEPT ![Head(net).session] = FALSE]
  /\ \/ net' = Tail(net)
     \/ net' = <<Head(net)>> \o net
     \/ /\ Len(net) > 1 /\ Head(net).session = net[2].session
        /\ net' = <<net[2], net[1]>> \o SubSeq(net, 3, Len(net))
  /\ UNCHANGED <<kernel, truth, toggles, receiver, uploadVars>>

Unheard ==
  /\ net # <<>> /\ rpc # "recv" /\ net' = <<>>
  /\ clean' = [s \in Ids |-> clean[s] /\ \A i \in DOMAIN net : net[i].session # s]
  /\ UNCHANGED <<kernel, truth, faults, toggles, receiver, uploadVars>>

(***************************************************************************)
(* The receiver.  Every throw ends it through finally, which flushes the   *)
(* open file; a session that was not finished then stays incomplete.       *)
(***************************************************************************)
Stored == FoldFunction(LAMBDA f, sum : Len(f) + sum, 0, file)
Foreignness(p) == p.session \in finished \/ active \notin {NoSession, p.session}

Stop == rpc' = "stopped"

\* Mutant: END is announced before the flush.
ReceiveAnnouncesEarly ==
  /\ rpc = "recv" /\ net # <<>> /\ net' = Tail(net)
  /\ LET p == Head(net) IN
       /\ ~Foreignness(p)
       /\ file' = [file EXCEPT ![p.session] = Append(@, p)]
       /\ IF p.kind = "end"
          THEN finished' = finished \cup {p.session} /\ active' = NoSession
          ELSE active' = p.session /\ UNCHANGED finished
  /\ UNCHANGED <<rpc, flushed, kernel, history, uploadVars>>

\* One datagram.  The file is flushed before the end of a session is announced.
\* Between, it is flushed every 100 ms; as time is not measured, that flush is
\* left to ReceiverDies, which may lose any part that END has not flushed.
Receive ==
  /\ rpc = "recv" /\ net # <<>> /\ net' = Tail(net)
  /\ LET p == Head(net)
         s == p.session
     IN \/ /\ Foreignness(p)
           /\ Stop /\ UNCHANGED <<active, finished, file, flushed, clean>>
        \/ /\ ~Foreignness(p)
           /\ file' = [file EXCEPT ![s] = Append(@, p)]
           /\ IF Stored + 1 >= Budget
              THEN /\ Stop /\ active' = s
                   /\ clean' = [clean EXCEPT ![s] = FALSE]
                   /\ UNCHANGED <<finished, flushed>>
              ELSE IF p.kind = "end"
              THEN /\ flushed' = [flushed EXCEPT ![s] = Len(file[s]) + 1]
                   /\ finished' = finished \cup {s} /\ active' = NoSession
                   /\ rpc' = IF finished \cup {s} = Ids THEN "stopped" ELSE rpc
                   /\ UNCHANGED clean
              ELSE /\ active' = s
                   /\ UNCHANGED <<rpc, finished, flushed, clean>>
  /\ UNCHANGED <<kernel, truth, faults, toggles, uploadVars>>

\* The two-hour deadline, or the operator's Ctrl+C.
Deadline ==
  /\ rpc = "recv" /\ Stop
  /\ clean' = [s \in Ids |-> clean[s] /\ s \in finished]
  /\ UNCHANGED <<kernel, net, truth, faults, toggles, active, finished, file, flushed, uploadVars>>

\* finally: flush and receipt.json.
Finally ==
  /\ rpc = "stopped" /\ rpc' = "closed" /\ active' = NoSession
  /\ flushed' = [s \in Ids |-> Len(file[s])]
  /\ UNCHANGED <<kernel, net, history, finished, file, uploadVars>>

\* The machine goes down: what was not flushed may be lost.
ReceiverDies ==
  /\ rpc \in {"recv", "stopped"} /\ rpc' = "dead" /\ active' = NoSession
  /\ clean' = [s \in Ids |-> clean[s] /\ s \in finished]
  /\ IF active = NoSession
     THEN UNCHANGED <<file, flushed>>
     ELSE \E keep \in flushed[active]..Len(file[active]) :
            /\ file' = [file EXCEPT ![active] = SubSeq(@, 1, keep)]
            /\ flushed' = [flushed EXCEPT ![active] = keep]
  /\ UNCHANGED <<kernel, net, truth, faults, toggles, finished, uploadVars>>

Blocks(f) == (Len(f) + BlockPackets - 1) \div BlockPackets

\* The capture of the first session goes to the upload service.
Upload ==
  /\ \/ rpc \in {"closed", "dead"} /\ file[1] # <<>> /\ Post(Blocks(file[1]))
     \/ UploadStep
  /\ UNCHANGED <<kernel, net, history, receiver>>

Next ==
  \/ ExportNext /\ UNCHANGED <<receiver, uploadVars>>
  \/ Disturb \/ Unheard \/ Receive \/ Deadline \/ Finally \/ ReceiverDies
  \/ Upload

Spec == Init /\ [][Next]_vars

\* The workqueue runs what is queued, rmmod goes on.
FairSpec ==
  /\ Spec
  /\ WF_vars(Worker /\ UNCHANGED <<receiver, uploadVars>>)
  /\ WF_vars(Exit /\ UNCHANGED <<receiver, uploadVars>>)

(***************************************************************************)
(* check_stream.  It raises on a packet out of order or after END, a       *)
(* stream that does not begin with BEGIN, and loss counters that go back.  *)
(***************************************************************************)
Of(f, kind, c) == {i \in DOMAIN f : f[i].kind = kind /\ f[i].cpu = c}

Raises(f) ==
  \/ \E i \in 2..Len(f) : f[i].seq <= f[i - 1].seq \/ f[i - 1].kind = "end"
  \/ \E i \in DOMAIN f : (f[i].kind = "begin") # (i = 1 /\ f[i].seq = 0)
  \/ \E c \in Cpus : \E i, j \in Of(f, "stats", c) : i < j /\ f[j].a < f[i].a

\* Mutant: the last statistics need only be empty.
SettledAnyOrder(f) ==
  \A c \in Cpus :
    \E i \in Of(f, "stats", c) : f[i].b = 0 /\ \A j \in Of(f, "stats", c) : j <= i

\* The last statistics of a CPU are later than its last record, and empty.
SettledOn(f, c) ==
  \E i \in Of(f, "stats", c) :
    /\ f[i].b = 0
    /\ \A j \in Of(f, "stats", c) \cup Of(f, "event", c) : j <= i
Settled(f) == \A c \in Cpus : SettledOn(f, c)

\* transport_complete.
Complete(f) ==
  /\ f # <<>> /\ ~Raises(f)
  /\ Last(f).kind = "end" /\ Last(f).a = 0 /\ Last(f).b = 0
  /\ Last(f).seq + 1 = Len(f)
  /\ \A i \in DOMAIN f : ~f[i].loss /\ (f[i].kind = "stats" => f[i].a = 0)
  /\ \E i \in DOMAIN f : f[i].kind = "event"
  /\ Settled(f)

(***************************************************************************)
(* The point of the transport: a capture that check_stream calls complete  *)
(* holds every record that was produced on every CPU until the exporter    *)
(* counted what was left (export_exit), each once and in order.  It needs  *)
(* the sequence numbers, the counters of the rings, the order of the last  *)
(* statistics and the numbers in END together.                             *)
(***************************************************************************)
Exactly(f, c, n) ==
  /\ {f[i].a : i \in Of(f, "event", c)} = 1..n
  /\ \A i, j \in Of(f, "event", c) : i < j => f[i].a < f[j].a

CompleteMeansAll ==
  \A s \in Ids : Complete(file[s]) =>
    \A c \in Cpus : Exactly(file[s], c, truth[s][c])

(***************************************************************************)
(* And the other way: when nothing went wrong, the recording was stopped   *)
(* and drained before rmmod, and records were made, the session that the   *)
(* receiver announces is complete to check_stream.                         *)
(***************************************************************************)
CleanIsComplete ==
  \A s \in finished :
    clean[s] /\ (\E c \in Cpus : truth[s][c] > 0) => Complete(file[s])

(***************************************************************************)
(* RECEIVED_AND_FLUSHED is true: the capture of an announced session ends  *)
(* with its END on the disk, and neither a late datagram, the next         *)
(* session, a throw nor the loss of the machine changes it.                *)
(***************************************************************************)
AnnouncedIsDurable ==
  \A s \in finished : file[s] # <<>> /\ Last(file[s]).kind = "end"
                      /\ flushed[s] = Len(file[s])

(***************************************************************************)
(* A peer that was told 200 has the whole capture of the session on the    *)
(* disk of the service, whatever happens to the service afterwards.        *)
(***************************************************************************)
UploadIsKept == AcknowledgedIsKept(Blocks(file[1]))

(***************************************************************************)
(* rmmod ends: cancel_delayed_work_sync waits for a worker whose pass is   *)
(* bounded by BURST and by the empty visits, whatever the operator, other  *)
(* readers and the network do meanwhile, or the machine stops.  A run of   *)
(* the model bounds how many records are produced.                         *)
(***************************************************************************)
ExitEnds == mod = "stopping" ~> mod \in {"gone", "down"}
=============================================================================
