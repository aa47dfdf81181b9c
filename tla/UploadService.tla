---------------------------- MODULE UploadService ----------------------------
(***************************************************************************)
(* The upload service of r5-observation-upload.py: one POST of a capture,  *)
(* stored below a directory that is made once, and a receipt.  The service *)
(* may be killed at any point and is started again; the machine may lose   *)
(* power, and then only what was flushed is sure to be there.              *)
(*                                                                         *)
(* Bytes are counted in blocks.  A body that ends early or is not the one  *)
(* the digest in the header was made of shows in the digest only.          *)
(***************************************************************************)
EXTENDS Integers

CONSTANT Posts \* bound: uploads the peer starts

ASSUME PostsAssumption == Posts \in Nat

VARIABLES upc,     \* idle, down, or the next step of save_upload
          size,    \* blocks of the body announced
          sound,   \* the body is the one the digest was made of
          disk,    \* attempt directory, blocks of capture.r5o, receipt.json
          synced,  \* blocks of capture.r5o flushed
          durable, \* the entries that are sure to survive
          told,    \* every answer the peer got, history
          posts

uploadVars == <<upc, size, sound, disk, synced, durable, told, posts>>

Absent == -1
Entries == [dir : BOOLEAN, capture : BOOLEAN, receipt : BOOLEAN]
Replies == {"200", "409", "422"}

UploadTypeOK ==
  /\ upc \in {"idle", "down", "root", "open", "recv", "judge", "receipt", "entry"}
  /\ size \in Nat /\ sound \in BOOLEAN
  /\ disk \in [dir : BOOLEAN, capture : Int, receipt : {"none", "torn", "match", "failed"}]
  /\ synced \in Nat /\ durable \in Entries /\ told \subseteq Replies /\ posts \in 0..Posts

UploadInit ==
  /\ upc = "idle" /\ size = 0 /\ sound = TRUE
  /\ disk = [dir |-> FALSE, capture |-> Absent, receipt |-> "none"]
  /\ synced = 0 /\ durable = [dir |-> FALSE, capture |-> FALSE, receipt |-> FALSE]
  /\ told = {} /\ posts = 0

Quiet == UNCHANGED <<size, sound, posts>>

\* do_POST for a body of length blocks: the directory is made in one step,
\* and an attempt that is there, whole or not, is never touched.
Post(length) ==
  /\ upc = "idle" /\ posts < Posts
  /\ posts' = posts + 1 /\ size' = length /\ sound' \in BOOLEAN
  /\ IF disk.dir
     THEN told' = told \cup {"409"} /\ UNCHANGED <<upc, disk>>
     ELSE upc' = "root" /\ disk' = [disk EXCEPT !.dir = TRUE] /\ UNCHANGED told
  /\ UNCHANGED <<synced, durable>>

SyncRoot ==
  /\ upc = "root" /\ upc' = "open" /\ durable' = [durable EXCEPT !.dir = TRUE]
  /\ Quiet /\ UNCHANGED <<disk, synced, told>>

OpenCapture ==
  /\ upc = "open" /\ upc' = "recv" /\ disk' = [disk EXCEPT !.capture = 0]
  /\ Quiet /\ UNCHANGED <<synced, durable, told>>

\* A block arrives; or the body ends, early or not, or the write fails, and
\* what there is gets flushed.
ReceiveBlock ==
  /\ upc = "recv" /\ disk.capture < size
  /\ disk' = [disk EXCEPT !.capture = @ + 1]
  /\ Quiet /\ UNCHANGED <<upc, synced, durable, told>>

SyncCapture ==
  /\ upc = "recv" /\ upc' = "judge" /\ synced' = disk.capture
  /\ Quiet /\ UNCHANGED <<disk, durable, told>>

\* The digest decides; durable_json writes and flushes the receipt.
Judged == IF sound /\ disk.capture = size THEN "match" ELSE "failed"

WriteReceipt ==
  \/ /\ upc = "judge" /\ upc' = "receipt" /\ disk' = [disk EXCEPT !.receipt = "torn"]
     /\ Quiet /\ UNCHANGED <<synced, durable, told>>
  \/ /\ upc = "receipt" /\ upc' = "entry" /\ disk' = [disk EXCEPT !.receipt = Judged]
     /\ Quiet /\ UNCHANGED <<synced, durable, told>>

\* Mutant: the peer is told before the directory is flushed.
AcknowledgeEarly ==
  /\ upc = "entry" /\ upc' = "idle"
  /\ told' = told \cup {IF disk.receipt = "match" THEN "200" ELSE "422"}
  /\ Quiet /\ UNCHANGED <<disk, synced, durable>>

\* The flush of the directory covers both entries; then the peer is told.
Acknowledge ==
  /\ upc = "entry" /\ upc' = "idle"
  /\ durable' = [durable EXCEPT !.capture = TRUE, !.receipt = TRUE]
  /\ told' = told \cup {IF disk.receipt = "match" THEN "200" ELSE "422"}
  /\ Quiet /\ UNCHANGED <<disk, synced>>

Kill == upc # "down" /\ upc' = "down" /\ Quiet /\ UNCHANGED <<disk, synced, durable, told>>

\* Restart=on-failure.
Restart == upc = "down" /\ upc' = "idle" /\ Quiet /\ UNCHANGED <<disk, synced, durable, told>>

\* Each entry that was not flushed is there or not, each block likewise.
PowerLoss ==
  /\ upc' = "down"
  /\ \E keep \in Entries :
     \E blocks \in IF disk.capture = Absent THEN {Absent} ELSE synced..disk.capture :
       LET dir == durable.dir \/ (keep.dir /\ disk.dir)
           capture == dir /\ disk.capture # Absent /\ (durable.capture \/ keep.capture)
           receipt == dir /\ disk.receipt # "none" /\ (durable.receipt \/ keep.receipt)
       IN disk' = [dir |-> dir,
                   capture |-> IF capture THEN blocks ELSE Absent,
                   receipt |-> IF receipt THEN disk.receipt ELSE "none"]
  /\ synced' = IF disk'.capture = Absent THEN 0 ELSE disk'.capture
  /\ durable' = [dir |-> disk'.dir, capture |-> disk'.capture # Absent,
                 receipt |-> disk'.receipt # "none"]
  /\ Quiet /\ UNCHANGED told

UploadStep ==
  \/ SyncRoot \/ OpenCapture \/ ReceiveBlock \/ SyncCapture
  \/ WriteReceipt \/ Acknowledge \/ Kill \/ Restart \/ PowerLoss

(***************************************************************************)
(* A peer that was told 200 has the capture and its receipt on the disk    *)
(* (save_upload, durable_json): no kill, restart, loss of power or later   *)
(* upload takes them away.  length is what the peer sent.                  *)
(***************************************************************************)
AcknowledgedIsKept(length) ==
  "200" \in told => disk = [dir |-> TRUE, capture |-> length, receipt |-> "match"]
=============================================================================
