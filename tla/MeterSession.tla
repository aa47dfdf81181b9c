----------------------------- MODULE MeterSession -----------------------------
(***************************************************************************)
(* A measurement with the allocation meter: the kernel journal /dev/r5_meter*)
(* (METER_SOURCE of prepare-r5-observation.py), the reader and the writer  *)
(* thread of meter_session (r5-observation.py), the operator at its        *)
(* standard input, and the verdict of meter_check on the file.             *)
(*                                                                         *)
(* The kernel appends under one lock.  A read copies up to Batch records   *)
(* under the lock, leaves it to copy them out and takes it again to move   *)
(* the tail.  The reader hands blocks of up to Burst reads to the writer   *)
(* through a bounded queue and never waits for it.  What a record says of  *)
(* an allocation is left out; sizes are counted in records.                *)
(***************************************************************************)
EXTENDS Naturals, Sequences, FiniteSets

CONSTANTS Slots,       \* R5M_SLOTS
          Batch,       \* records returned by one read
          Burst,       \* reads joined to one block
          QueueBlocks, \* METER_QUEUE_BLOCKS
          EndMark,     \* number of the END mark
          Cap,         \* records the file may hold
          MaxEvents,   \* bound: allocations observed
          MaxSessions  \* bound: times the tool is started

ASSUME SizeAssumption ==
  /\ {Slots, Batch, Burst, QueueBlocks, EndMark, Cap} \subseteq Nat \ {0}
  /\ {MaxEvents, MaxSessions} \subseteq Nat

VARIABLES log, head, tail, seq, lost, kphase, active, finished, opened, \* the kernel
          pc, batch, parts, reads, eof, phase, written, failing, \* the reader
          blocks, done,                          \* what the threads share
          wpc, pending, errors,                  \* the writer
          file, synced,                          \* the output, its part on the disk
          stdin,                                 \* what the operator has entered
          verdict,                               \* of the last session
          events, sessions                       \* history

kernel == <<log, head, tail, seq, lost, kphase, active, finished, opened>>
reader == <<pc, batch, parts, reads, eof, phase, written, failing>>
shared == <<blocks, done>>
writer == <<wpc, pending, errors>>
output == <<file, synced>>
history == <<events, sessions>>
vars == <<kernel, reader, shared, writer, output, stdin, verdict, history>>

NoMark == EndMark + 1
Record == [seq : Nat, phase : 0..EndMark, mark : 0..NoMark, lost : Nat]
Blank == [seq |-> 0, phase |-> 0, mark |-> NoMark, lost |-> 0]
Verdicts == {"JOURNAL_REPLAYED", "INCOMPLETE_WITH_LOSS", "UNVERIFIED"}
Unset == EndMark + 2   \* r5m_phase = -1, a device that has seen no mark

TypeOK ==
  /\ log \in [0..(Slots - 1) -> Record]
  /\ {head, tail, seq, lost, written, synced} \subseteq Nat
  /\ kphase \in 0..EndMark \cup {Unset} /\ phase \in 0..EndMark \cup {Unset}
  /\ {active, finished, opened, eof, failing, done, errors} \subseteq BOOLEAN
  /\ pc \in {"closed", "m0", "loop", "read", "copied", "put", "control", "join"}
  /\ wpc \in {"none", "run", "write", "sync", "final"}
  /\ {batch, parts, pending, file} \subseteq Seq(Record)
  /\ blocks \in Seq(Seq(Record)) /\ reads \in 0..Burst
  /\ stdin \in {"none", "next", "wrong", "eof"}
  /\ verdict \in Verdicts \cup {"none", "failed", "rejected", "killed"}
  /\ events \in 0..MaxEvents /\ sessions \in 0..MaxSessions

Init ==
  /\ log = [s \in 0..(Slots - 1) |-> Blank] /\ head = 0 /\ tail = 0
  /\ seq = 0 /\ lost = 0 /\ kphase = Unset
  /\ active = FALSE /\ finished = FALSE /\ opened = FALSE
  /\ pc = "closed" /\ batch = <<>> /\ parts = <<>> /\ reads = 0 /\ eof = FALSE
  /\ phase = Unset /\ written = 0 /\ failing = FALSE
  /\ blocks = <<>> /\ done = FALSE
  /\ wpc = "none" /\ pending = <<>> /\ errors = FALSE
  /\ file = <<>> /\ synced = 0
  /\ stdin = "none" /\ verdict = "none" /\ events = 0 /\ sessions = 0

(***************************************************************************)
(* The kernel journal.                                                     *)
(***************************************************************************)
Full == head - tail = Slots
Following(p) == IF p = Unset THEN 0 ELSE p + 1

\* r5m_append: seq counts attempts, so a loss leaves a gap.
Append1(mark) ==
  /\ seq' = seq + 1
  /\ IF Full
     THEN lost' = lost + 1 /\ UNCHANGED <<log, head>>
     ELSE /\ log' = [log EXCEPT ![head % Slots] =
                       [seq |-> seq + 1, phase |-> kphase', mark |-> mark,
                        lost |-> IF mark = NoMark THEN 0 ELSE lost]]
          /\ head' = head + 1 /\ lost' = lost

\* An allocation or a free anywhere in the kernel.
Emit ==
  /\ active /\ events < MaxEvents
  /\ kphase' = kphase
  /\ Append1(NoMark)
  /\ events' = events + 1
  /\ UNCHANGED <<tail, active, finished, opened, sessions>>
  /\ UNCHANGED <<reader, shared, writer, output, stdin, verdict>>

\* In an NMI the lock cannot be taken: the event is only counted as lost.
EmitInNmi ==
  /\ active /\ events < MaxEvents
  /\ lost' = lost + 1
  /\ events' = events + 1
  /\ UNCHANGED <<log, head, tail, seq, kphase, active, finished, opened, sessions>>
  /\ UNCHANGED <<reader, shared, writer, output, stdin, verdict>>

MayMark(p) == ~finished /\ p = Following(kphase) /\ ~Full

\* r5m_ioctl.
Mark(p) ==
  /\ kphase' = p /\ active' = (p < EndMark) /\ finished' = (p = EndMark)
  /\ Append1(p)
  /\ UNCHANGED <<tail, opened>>

\* r5m_release, also when the process is killed.
Release ==
  /\ opened' = FALSE /\ active' = FALSE
  /\ finished' = (finished \/ active)
  /\ lost' = IF active THEN lost + 1 ELSE lost
  /\ UNCHANGED <<log, head, tail, seq, kphase>>

(***************************************************************************)
(* The reader.                                                             *)
(***************************************************************************)
\* The device and a new file are opened and the writer is started.
Start ==
  /\ pc = "closed" /\ ~opened /\ sessions < MaxSessions
  /\ opened' = TRUE /\ sessions' = sessions + 1
  /\ pc' = "m0" /\ batch' = <<>> /\ parts' = <<>> /\ reads' = 0 /\ eof' = FALSE
  /\ phase' = 0 /\ written' = 0 /\ failing' = FALSE
  /\ blocks' = <<>> /\ done' = FALSE
  /\ wpc' = "run" /\ pending' = <<>> /\ errors' = FALSE
  /\ file' = <<>> /\ synced' = 0 /\ stdin' = "none" /\ verdict' = "none"
  /\ UNCHANGED <<log, head, tail, seq, lost, kphase, active, finished, events>>

Goto(p) == pc' = p /\ UNCHANGED <<batch, parts, reads, eof, phase, written, failing>>

\* An exception: the finally clause ends the writer and waits for it.
Raise ==
  /\ pc' = "join" /\ failing' = TRUE /\ done' = TRUE
  /\ UNCHANGED <<batch, parts, reads, eof, phase, written, blocks>>

MarkFirst ==
  /\ pc = "m0"
  /\ \/ MayMark(0) /\ Mark(0) /\ Goto("loop") /\ UNCHANGED shared
     \/ ~MayMark(0) /\ Raise /\ UNCHANGED kernel
  /\ UNCHANGED <<writer, output, stdin, verdict, history>>

Loop ==
  /\ pc = "loop"
  /\ \/ /\ ~errors
        /\ pc' = "read" /\ parts' = <<>> /\ reads' = 0 /\ eof' = FALSE
        /\ UNCHANGED <<batch, phase, written, failing, shared>>
     \/ errors /\ Raise
  /\ UNCHANGED <<kernel, writer, output, stdin, verdict, history>>

\* The two hours are over.
Deadline ==
  /\ pc = "loop" /\ Raise
  /\ UNCHANGED <<kernel, writer, output, stdin, verdict, history>>

\* r5m_read, the first section under the lock.
Copy ==
  /\ pc = "read"
  /\ LET n == IF head - tail < Batch THEN head - tail ELSE Batch
     IN  /\ batch' = [k \in 1..n |-> log[(tail + k - 1) % Slots]]
         /\ pc' = IF n > 0 THEN "copied" ELSE "put"
         /\ eof' = (n = 0 /\ finished)
  /\ UNCHANGED <<parts, reads, phase, written, failing>>
  /\ UNCHANGED <<kernel, shared, writer, output, stdin, verdict, history>>

\* ... and the second, after which the read returns to the reader.
Advance ==
  /\ pc = "copied"
  /\ tail' = tail + Len(batch)
  /\ parts' = parts \o batch /\ batch' = <<>> /\ reads' = reads + 1
  /\ pc' = IF reads' < Burst THEN "read" ELSE "put"
  /\ UNCHANGED <<log, head, seq, lost, kphase, active, finished, opened>>
  /\ UNCHANGED <<eof, phase, written, failing>>
  /\ UNCHANGED <<shared, writer, output, stdin, verdict, history>>

\* put_nowait: a full queue and a full disk end the session.
Put ==
  /\ pc = "put"
  /\ written' = written + Len(parts)
  /\ IF parts # <<>> /\ (written' > Cap \/ Len(blocks) = QueueBlocks)
     THEN pc' = "join" /\ failing' = TRUE /\ done' = TRUE /\ blocks' = blocks
     ELSE /\ pc' = IF eof THEN "join" ELSE "control"
          /\ failing' = failing /\ done' = eof
          /\ blocks' = IF parts = <<>> THEN blocks ELSE Append(blocks, parts)
  /\ parts' = <<>>
  /\ UNCHANGED <<batch, reads, eof, phase>>
  /\ UNCHANGED <<kernel, writer, output, stdin, verdict, history>>

\* The operator's line moves the kernel to the next phase.
Control ==
  /\ pc = "control"
  /\ \/ /\ phase = EndMark \/ stdin = "none"
        /\ Goto("loop") /\ UNCHANGED <<kernel, shared, stdin>>
     \/ /\ phase < EndMark /\ stdin = "next" /\ MayMark(phase + 1)
        /\ Mark(phase + 1)
        /\ phase' = phase + 1 /\ pc' = "loop" /\ stdin' = "none"
        /\ UNCHANGED <<batch, parts, reads, eof, written, failing, shared>>
     \/ /\ phase < EndMark
        /\ stdin \in {"wrong", "eof"} \/ (stdin = "next" /\ ~MayMark(phase + 1))
        /\ Raise /\ UNCHANGED <<kernel, stdin>>
  /\ UNCHANGED <<writer, output, verdict, history>>

(***************************************************************************)
(* The verdict of meter_check on the file, as far as it rests on the order *)
(* of the records and not on the objects and pages they name.              *)
(***************************************************************************)
IsMark(r) == r.mark # NoMark
MarksUpTo(f, k) == Cardinality({j \in 1..k : IsMark(f[j])})

\* No ValueError: marks in order, every record in the phase of the last one.
Accepted(f) ==
  \A k \in DOMAIN f :
    /\ f[k].phase + 1 = MarksUpTo(f, k)
    /\ IsMark(f[k]) => f[k].mark + 1 = MarksUpTo(f, k)
    /\ k > 1 => f[k - 1].mark # EndMark

HasGap(f) == \E k \in DOMAIN f : f[k].seq # k
Loss(f) == \E k \in DOMAIN f : f[k].lost > 0

\* Mutant: only the gaps count.
MeterCheckForgetsLost(f) ==
  IF ~Accepted(f) THEN "rejected"
  ELSE IF HasGap(f) THEN "INCOMPLETE_WITH_LOSS"
  ELSE IF MarksUpTo(f, Len(f)) # EndMark + 1 THEN "UNVERIFIED" ELSE "JOURNAL_REPLAYED"

MeterCheck(f) ==
  IF ~Accepted(f) THEN "rejected"
  ELSE IF Loss(f) \/ HasGap(f) THEN "INCOMPLETE_WITH_LOSS"
  ELSE IF MarksUpTo(f, Len(f)) # EndMark + 1 THEN "UNVERIFIED" ELSE "JOURNAL_REPLAYED"

\* The process ends: what the threads still hold is gone with it.
Exit(v) ==
  /\ Release
  /\ pc' = "closed" /\ wpc' = "none" /\ verdict' = v
  /\ batch' = <<>> /\ parts' = <<>> /\ reads' = 0 /\ eof' = FALSE
  /\ phase' = Unset /\ written' = 0 /\ failing' = FALSE
  /\ blocks' = <<>> /\ done' = FALSE /\ pending' = <<>> /\ stdin' = "none"
  /\ UNCHANGED <<errors, output, history>>

\* Mutant: the writer is joined without a timeout.
JoinForever ==
  /\ pc = "join" /\ wpc = "none"
  /\ Exit(IF failing \/ errors THEN "failed" ELSE MeterCheck(file))

\* The writer has ended, or 30 seconds have passed.
Join ==
  /\ pc = "join"
  /\ \/ wpc = "none" /\ Exit(IF failing \/ errors THEN "failed" ELSE MeterCheck(file))
     \/ wpc # "none" /\ Exit("failed")

Kill == pc # "closed" /\ Exit("killed")

(***************************************************************************)
(* The writer thread.                                                      *)
(***************************************************************************)
Get ==
  /\ wpc = "run" /\ ~(done /\ blocks = <<>>)
  /\ IF blocks # <<>>
     THEN pending' = Head(blocks) /\ blocks' = Tail(blocks) /\ wpc' = "write"
     ELSE UNCHANGED <<pending, blocks>> /\ wpc' = "sync"
  /\ UNCHANGED <<done, errors>>
  /\ UNCHANGED <<kernel, reader, output, stdin, verdict, history>>

\* A write may be short.
Write ==
  /\ wpc = "write"
  /\ \E n \in 1..Len(pending) :
       /\ file' = file \o SubSeq(pending, 1, n)
       /\ pending' = SubSeq(pending, n + 1, Len(pending))
  /\ wpc' = IF pending' = <<>> THEN "sync" ELSE "write"
  /\ UNCHANGED <<errors, synced>>
  /\ UNCHANGED <<kernel, reader, shared, stdin, verdict, history>>

\* Every tenth of a second, when there is something to flush.
Sync ==
  /\ wpc = "sync"
  /\ synced' \in {synced, Len(file)} /\ wpc' = "run"
  /\ UNCHANGED <<pending, errors, file>>
  /\ UNCHANGED <<kernel, reader, shared, stdin, verdict, history>>

\* The exception is kept for the reader.
WriteFails ==
  /\ \/ wpc = "write"
     \/ wpc = "sync" /\ synced # Len(file)
  /\ errors' = TRUE /\ wpc' = "final"
  /\ UNCHANGED <<pending, output>>
  /\ UNCHANGED <<kernel, reader, shared, stdin, verdict, history>>

LastBlock ==
  /\ wpc = "run" /\ done /\ blocks = <<>>
  /\ wpc' = "final"
  /\ UNCHANGED <<pending, errors>>
  /\ UNCHANGED <<kernel, reader, shared, output, stdin, verdict, history>>

\* Mutant: no flush at the end of the thread.
FinalWithoutSync ==
  /\ wpc = "final" /\ wpc' = "none"
  /\ UNCHANGED <<pending, file, synced, errors>>
  /\ UNCHANGED <<kernel, reader, shared, stdin, verdict, history>>

Final ==
  /\ wpc = "final" /\ wpc' = "none"
  /\ \/ synced' = Len(file) /\ errors' = errors
     \/ synced' = synced /\ errors' = TRUE
  /\ UNCHANGED <<pending, file>>
  /\ UNCHANGED <<kernel, reader, shared, stdin, verdict, history>>

(***************************************************************************)
(* The operator enters a line once the last one has been acknowledged.     *)
(***************************************************************************)
Enter ==
  /\ pc \in {"loop", "read", "copied", "put", "control"} /\ stdin = "none" /\ phase < EndMark
  /\ stdin' \in {"next", "wrong", "eof"}
  /\ UNCHANGED <<kernel, reader, shared, writer, output, verdict, history>>

Read == MarkFirst \/ Loop \/ Copy \/ Advance \/ Put \/ Control \/ Join
WriteOut == Get \/ Write \/ Sync \/ WriteFails \/ LastBlock \/ Final

Next ==
  \/ Start \/ Read \/ Deadline \/ Kill \/ WriteOut \/ Enter \/ Emit \/ EmitInNmi

Spec == Init /\ [][Next]_vars

\* The reader is scheduled and the clock advances; the writer may hang in the
\* disk, the operator may be silent and the kernel busy.
FairSpec == Spec /\ WF_vars(Read) /\ SF_vars(Deadline)
-----------------------------------------------------------------------------
Unread == [k \in 1..(head - tail) |-> log[(tail + k - 1) % Slots]]

\* A journal that counts as replayed has every event between M0 and END: nothing
\* is lost in the ring, in an NMI, between the threads or in the file.
ReplayedIsComplete ==
  verdict = "JOURNAL_REPLAYED" =>
    /\ Len(file) = events + EndMark + 1
    /\ \A k \in DOMAIN file : file[k].seq = k

\* A verdict is given on bytes that are on the disk, never after a writer error.
VerdictIsDurable ==
  verdict \in Verdicts => synced = Len(file) /\ ~errors

\* Every session ends, whatever the operator and the disk do.
Terminates == pc # "closed" ~> pc = "closed"
=============================================================================
