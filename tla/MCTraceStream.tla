---------------------------- MODULE MCTraceStream ----------------------------
(***************************************************************************)
(* TraceStream with two CPUs whose rings hold one record, and a second     *)
(* session without records after a first one of at most two packets, which *)
(* is enough for sessions that interleave or follow each other.            *)
(*                                                                         *)
(* Nothing the receiver does reaches the exporter, and a packet waits on   *)
(* the network as long as it takes, so every step of the receiver commutes *)
(* with every step of the exporter: it is enough to let the exporter go    *)
(* first.  In the same way the upload comes last, and starts from a        *)
(* complete capture of a clean session; other captures are handled alike.  *)
(* The network disturbs sessions that are clean until then.                *)
(***************************************************************************)
EXTENDS TraceStream

MCExport ==
  /\ ExportNext /\ UNCHANGED <<receiver, uploadVars>>
  /\ session' # session => file[1] = <<>> /\ Len(net) <= 2 /\ faults = 0
  /\ session = 2 => ~enabled' /\ faults' = 0
  /\ faults' > 0 => FoldFunction(+, 0, made') <= 1

MCNext ==
  \/ MCExport /\ rpc = "recv"
  \/ mod = "down" /\ (Unheard \/ Receive \/ Finally)
  \/ mod = "down" /\ net # <<>> /\ clean[Head(net).session] /\ Disturb
  \/ mod = "down" /\ faults = 0 /\ (Deadline \/ ReceiverDies)
  \/ Complete(file[1]) /\ clean[1] /\ net = <<>> /\ rpc = "closed" /\ Upload

MCSpec == /\ Init /\ [][MCNext]_vars
          /\ WF_vars(Worker /\ UNCHANGED <<receiver, uploadVars>>)
          /\ WF_vars(Exit /\ UNCHANGED <<receiver, uploadVars>>)
=============================================================================
