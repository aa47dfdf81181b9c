------------------------- MODULE DStageSnapshotProofs -------------------------
(***************************************************************************)
(* The snapshot transaction of d-stage-audit-gen.py and the lock it runs   *)
(* under, for any snapshots, any number of failures, kills, power losses   *)
(* and damages, and any number of runs that want the lock; at the end that *)
(* the transaction implements GenerationStore.                             *)
(***************************************************************************)
EXTENDS LockFile, DStageSnapshot, TLAPS

(***************************************************************************)
(* The lock.                                                               *)
(***************************************************************************)

\* With either discipline a run that is inside holds the lock of its descriptor.
HeldLock ==
  /\ \A p \in Proc : fd[p] = None <=> phase[p] = "idle"
  /\ \A p \in Proc : Inside(p) => holder[fd[p]] = p

\* With the lock file kept, every open descriptor is the file the path names.
KeptLock ==
  /\ \A p \in Proc : fd[p] \in {None, path}
  /\ JournalOfTheHolder

LInv == LockTypeOK /\ HeldLock /\ (~removing => KeptLock)

LEMMA LInvInit == LockInit => LInv
BY NoneAssumption, DisciplineAssumption DEF LockInit, LInv, KeptLock, HeldLock, LockTypeOK, Phases, Inside, JournalOfTheHolder

\* Two runs inside hold the lock of the same inode, so they are one.
LEMMA LInvExcludes == LInv /\ ~removing => MutualExclusion
BY NoneAssumption DEF LInv, KeptLock, HeldLock, LockTypeOK, MutualExclusion, Inside

\* The types do not depend on the discipline.
LEMMA LockTypeNext == LockTypeOK /\ [LockNext]_lockVars => LockTypeOK'
<1> SUFFICES ASSUME LockTypeOK, [LockNext]_lockVars PROVE LockTypeOK'
  OBVIOUS
<1> USE NoneAssumption DEF LockTypeOK, To, Phases
<1>0. removing' = removing
  BY DEF LockNext, lockVars
<1>r. \A p \in Proc : Released(p) \in [Inode -> Proc \cup {None}]
  BY DEF Released
<1>1. ASSUME NEW p \in Proc, Step(p) PROVE LockTypeOK'
  <2>1. CASE Open(p)
    BY <1>0, <2>1 DEF Open
  <2>2. CASE Lock(p)
    BY <1>0, <2>2 DEF Lock
  <2>3. CASE Contend(p)
    BY <1>0, <2>3 DEF Contend
  <2>4. CASE WriteJournal(p) \/ Finish(p)
    BY <1>0, <2>4 DEF WriteJournal, Finish
  <2>5. CASE Die(p)
    BY <1>0, <1>r, <2>5 DEF Die
  <2>6. CASE CloseKeeping(p)
    BY <1>0, <1>r, <2>6 DEF CloseKeeping
  <2>7. CASE CloseRemoving(p)
    BY <1>0, <1>r, <2>7 DEF CloseRemoving
  <2> QED BY <1>1, <2>1, <2>2, <2>3, <2>4, <2>5, <2>6, <2>7 DEF Step
<1>2. CASE UNCHANGED lockVars
  BY <1>2 DEF lockVars
<1> QED BY <1>1, <1>2 DEF LockNext

\* The lock of a descriptor passes on only when nobody inside holds it.
LEMMA HeldNext == LockTypeOK /\ HeldLock /\ [LockNext]_lockVars => HeldLock'
<1> SUFFICES ASSUME LockTypeOK, HeldLock, [LockNext]_lockVars PROVE HeldLock'
  OBVIOUS
<1> USE NoneAssumption DEF LockTypeOK, HeldLock, Inside, To, Phases
<1>r. \A p \in Proc : Released(p) = [k \in Inode |-> IF holder[k] = p THEN None ELSE holder[k]]
  BY DEF Released
<1>1. ASSUME NEW p \in Proc, Open(p) PROVE HeldLock'
  <2>1. PICK k \in Inode : fd' = [fd EXCEPT ![p] = k]
    BY <1>1 DEF Open
  <2>2. QED BY <1>1, <2>1 DEF Open
<1>2. ASSUME NEW p \in Proc, Lock(p) PROVE HeldLock'
  <2>1. fd[p] \in Inode /\ \A q \in Proc : Inside(q) => fd[q] # fd[p]
    BY <1>2 DEF Lock
  <2>2. QED BY <1>2, <2>1 DEF Lock
<1>3. ASSUME NEW p \in Proc, Contend(p) PROVE HeldLock'
  BY <1>3 DEF Contend
<1>4. ASSUME NEW p \in Proc, WriteJournal(p) \/ Finish(p) PROVE HeldLock'
  BY <1>4 DEF WriteJournal, Finish
<1>5. ASSUME NEW p \in Proc, Die(p) PROVE HeldLock'
  BY <1>5, <1>r DEF Die
<1>6. ASSUME NEW p \in Proc, CloseKeeping(p) PROVE HeldLock'
  <2>1. CASE phase[p] = "closing"
    <3>1. To(p, "unlocked") /\ UNCHANGED <<holder, fd>>
      BY <1>6, <2>1 DEF CloseKeeping
    <3> QED BY <2>1, <3>1
  <2>2. CASE phase[p] = "unlocked"
    <3>1. To(p, "idle") /\ holder' = Released(p) /\ fd' = [fd EXCEPT ![p] = None]
      BY <1>6, <2>2 DEF CloseKeeping
    <3> QED BY <1>r, <2>2, <3>1
  <2> QED BY <1>6, <2>1, <2>2 DEF CloseKeeping
<1>7. ASSUME NEW p \in Proc, CloseRemoving(p) PROVE HeldLock'
  <2>1. CASE phase[p] = "closing"
    <3>1. To(p, "unlocked") /\ holder' = Released(p) /\ fd' = fd
      BY <1>7, <2>1 DEF CloseRemoving
    <3> QED BY <1>r, <2>1, <3>1
  <2>2. CASE phase[p] = "unlocked"
    <3>1. To(p, "tidied") /\ UNCHANGED <<fd, holder>>
      BY <1>7, <2>2 DEF CloseRemoving
    <3> QED BY <2>2, <3>1
  <2>3. CASE phase[p] = "tidied"
    <3>1. To(p, "idle") /\ fd' = [fd EXCEPT ![p] = None] /\ holder' = holder
      BY <1>7, <2>3 DEF CloseRemoving
    <3> QED BY <2>3, <3>1
  <2> QED BY <1>7, <2>1, <2>2, <2>3 DEF CloseRemoving
<1>8. CASE UNCHANGED lockVars
  BY <1>8 DEF lockVars
<1> QED BY <1>1, <1>2, <1>3, <1>4, <1>5, <1>6, <1>7, <1>8 DEF LockNext, Step

LEMMA KeptNext ==
  ASSUME ~removing
  PROVE  LInv /\ [LockNext]_lockVars => KeptLock'
<1> SUFFICES ASSUME LInv, [LockNext]_lockVars PROVE KeptLock'
  OBVIOUS
<1>x. MutualExclusion
  BY LInvExcludes
<1> USE NoneAssumption DEF LInv, KeptLock, HeldLock, LockTypeOK, Inside, To, Phases, JournalOfTheHolder
<1>1. ASSUME NEW p \in Proc, Open(p) PROVE KeptLock'
  <2>1. PICK k \in Inode : /\ IF path = None THEN Unused(k) ELSE k = path
                           /\ path' = k
                           /\ fd' = [fd EXCEPT ![p] = k]
    BY <1>1 DEF Open
  <2>2. \A q \in Proc : fd[q] \in {None, k}
    BY <2>1
  <2>3. QED BY <1>1, <2>1, <2>2 DEF Open
<1>2. ASSUME NEW p \in Proc, Lock(p) PROVE KeptLock'
  <2>1. fd[p] \in Inode /\ fd[p] = path /\ holder[fd[p]] = None
    BY <1>2 DEF Lock
  <2>2. \A q \in Proc : ~Inside(q)
    BY <1>2, <2>1
  <2>3. QED BY <1>2, <2>1, <2>2 DEF Lock
<1>3. ASSUME NEW p \in Proc, Contend(p) PROVE KeptLock'
  BY <1>3 DEF Contend
<1>4. ASSUME NEW p \in Proc, WriteJournal(p) PROVE KeptLock'
  <2>1. \A q \in Proc : Inside(q) => q = p
    BY <1>4, <1>x DEF WriteJournal, MutualExclusion
  <2>2. QED BY <1>4, <2>1 DEF WriteJournal
<1>5. ASSUME NEW p \in Proc, Finish(p) PROVE KeptLock'
  BY <1>5 DEF Finish
<1>6. ASSUME NEW p \in Proc, Die(p) PROVE KeptLock'
  <2>1. \A k \in Inode : holder'[k] = IF holder[k] = p THEN None ELSE holder[k]
    BY <1>6 DEF Die, Released
  <2>2. holder' \in [Inode -> Proc \cup {None}]
    BY <1>6 DEF Die, Released
  <2>3. \A q \in Proc : q # p => fd'[q] = fd[q] /\ phase'[q] = phase[q]
    BY <1>6 DEF Die
  <2>4. fd' \in [Proc -> Inode \cup {None}] /\ phase' \in [Proc -> Phases]
        /\ fd'[p] = None /\ phase'[p] = "idle" /\ path' = path /\ owner' = owner
    BY <1>6 DEF Die
  <2>5. QED BY <2>1, <2>2, <2>3, <2>4
<1>7. ASSUME NEW p \in Proc, CloseKeeping(p) PROVE KeptLock'
  <2>1. CASE phase[p] = "closing"
    <3>1. To(p, "unlocked") /\ owner' = None /\ UNCHANGED <<holder, fd, path>>
      BY <1>7, <2>1 DEF CloseKeeping
    <3>2. \A q \in Proc : Inside(q) => q = p
      BY <2>1, <1>x DEF MutualExclusion
    <3>3. QED BY <2>1, <3>1, <3>2
  <2>2. CASE phase[p] = "unlocked"
    <3>1. To(p, "idle") /\ owner' = owner /\ path' = path
          /\ holder' = Released(p) /\ fd' = [fd EXCEPT ![p] = None]
      BY <1>7, <2>2 DEF CloseKeeping
    <3>2. \A k \in Inode : holder'[k] = IF holder[k] = p THEN None ELSE holder[k]
      BY <3>1 DEF Released
    <3>3. holder' \in [Inode -> Proc \cup {None}]
      BY <3>1 DEF Released
    <3>4. QED BY <2>2, <3>1, <3>2, <3>3
  <2>3. QED BY <1>7, <2>1, <2>2 DEF CloseKeeping
<1>8. \A p \in Proc : ~CloseRemoving(p)
  BY DEF CloseRemoving
<1>9. CASE UNCHANGED lockVars
  BY <1>9 DEF lockVars
<1>10. QED
  BY <1>1, <1>2, <1>3, <1>4, <1>5, <1>6, <1>7, <1>8, <1>9 DEF LockNext, Step

LEMMA LInvNext == LInv /\ [LockNext]_lockVars => LInv'
<1> SUFFICES ASSUME LInv, [LockNext]_lockVars PROVE LInv'
  OBVIOUS
<1>1. removing' = removing
  BY DEF LockNext, lockVars
<1>2. ~removing => KeptLock'
  BY KeptNext
<1> QED BY <1>1, <1>2, LockTypeNext, HeldNext DEF LInv

LEMMA LockInvariant == LockSpec => []LInv
<1>1. LockInit => LInv
  BY LInvInit
<1>2. LInv /\ [LockNext]_lockVars => LInv'
  BY LInvNext
<1> QED BY <1>1, <1>2, PTL DEF LockSpec

\* Whatever the number of runs, kills and restarts: at most one is inside the
\* transaction when the lock file is never removed, with either discipline at
\* most one of those that opened the same inode.
THEOREM LocksExcludeRuns == LockSpec => []LocksExclude
<1>1. LInv => ExclusionPerInode
  BY NoneAssumption DEF LInv, HeldLock, LockTypeOK, ExclusionPerInode, Inside
<1>2. LInv => LocksExclude
  BY <1>1, LInvExcludes DEF LocksExclude
<1> QED BY <1>2, LockInvariant, PTL

\* The journal on disk is the one of the run that is inside, when the lock file
\* is never removed.
THEOREM KeptLockGuardsTheJournal == LockSpec => []KeptLockGuardsJournal
<1>1. LInv => KeptLockGuardsJournal
  BY DEF LInv, KeptLock, KeptLockGuardsJournal
<1> QED BY <1>1, LockInvariant, PTL
-----------------------------------------------------------------------------

(***************************************************************************)
(* The inductive invariant behind UnknownIsKept.  A box is what .txn       *)
(* holds.                                                                  *)
(***************************************************************************)
Known == Gens \cup {NoFile}

SoundBox(b) ==
  /\ \A f \in Part : b.old[f] \in Known
  /\ b.journal.state = "none" => b.journal = NoJournal
  /\ b.journal.state # "none" =>
       /\ b.journal.gen \in Gens /\ b.journal.plan \in Known \ {b.journal.gen}
       /\ \A f \in Part : b.staging[f] \in {NoFile, b.journal.gen}

\* The phases that go by the journal, those that move the pair among them, and
\* those before there is one.
Committing ==
  {"backup_tar", "backup_sha", "backup_txn", "backup_out", "p_backed", "commit_tar",
   "tar_out", "p_tarball", "commit_sha", "sha_out", "p_sha"}
RollingBack ==
  {"rm_tar", "rm_sha", "restore_tar", "back_tar_out", "back_tar_txn", "restore_sha",
   "back_sha_out", "back_sha_txn"}
Journalled ==
  Committing \cup RollingBack
    \cup {"check", "p_verified", "p_rolling", "rm_old_tar", "rm_old_sha", "old_txn",
          "rm_journal", "roll", "rolled", "entomb"}
Preparing == {"compare", "noop", "sync_staging", "p_staged"}

Sound ==
  /\ \A d \in lag \cup {disk} : SoundBox(d.box)
  /\ ~hard => \A d \in lag \cup {disk} : d.box.journal = NoJournal
  /\ \A f \in Part : pair[f] = Odd => \A d \in lag : d.top.pair[f] = Odd
  /\ pc \in Committing \cup RollingBack => \A f \in Part : pair[f] \in Known
  /\ pc \in Journalled => journal.state # "none" /\ new = journal.gen
  /\ pc \in {"build"} \cup Preparing =>
       \A d \in lag \cup {disk} : d.top = disk.top /\ d.box.journal = NoJournal
  /\ pc \in Preparing => new \in Gens /\ \A f \in Part : staging[f] \in {NoFile, new}
  /\ pc \in {"sync_staging", "p_staged"} =>
       \A f \in Part : pair[f] \in Known /\ pair[f] = pair["tar"] /\ pair[f] # new
  /\ pc = "p_staged" => hard
  /\ pc = "scan" => dir # "tomb"

(***************************************************************************)
(* The inductive invariant behind the other properties, as long as nothing *)
(* foreign is on the disk.  Each file of the pair stands where it stood,   *)
(* or is away in its backup, or is replaced by the new one.                *)
(***************************************************************************)
InPlace(d, f) == d.top.pair[f] = d.box.journal.plan /\ d.box.old[f] = NoFile
Away(d, f) == d.top.pair[f] = NoFile /\ d.box.old[f] = d.box.journal.plan
Replaced(d, f) == d.top.pair[f] = d.box.journal.gen /\ d.box.old[f] = d.box.journal.plan

HasJournal(d) == d.top.dir = "txn" /\ d.box.journal.state # "none"

\* How far the transaction has come in each state of the journal.
Progress(d) ==
  CASE d.box.journal.state = "staged" ->
         /\ Fingerprint(d)
         /\ \/ \A f \in Part : InPlace(d, f)
            \/ Away(d, "tar") /\ (InPlace(d, "sha") \/ Away(d, "sha"))
    [] d.box.journal.state = "backed_up" ->
         Away(d, "sha") /\ (Away(d, "tar") \/ Replaced(d, "tar"))
    [] d.box.journal.state = "tarball_committed" ->
         Replaced(d, "tar") /\ (Away(d, "sha") \/ Replaced(d, "sha"))
    [] d.box.journal.state = "sha_committed" -> \A f \in Part : Replaced(d, f)
    [] d.box.journal.state = "verified" ->
         \A f \in Part : /\ d.top.pair[f] = d.box.journal.gen
                         /\ d.box.old[f] \in {NoFile, d.box.journal.plan}
    [] d.box.journal.state = "rolling_back" ->
         \/ Replaced(d, "sha") /\ (Replaced(d, "tar") \/ Away(d, "tar"))
         \/ Away(d, "sha") /\ (Away(d, "tar") \/ InPlace(d, "tar"))
         \/ \A f \in Part : InPlace(d, f)
    [] OTHER -> TRUE

Good(d) ==
  /\ d.top.dir = "none" => d.box = Empty
  /\ HasJournal(d) => d.box.made /\ Progress(d)
  /\ ~HasJournal(d) => PairOk(d) /\ (d.top.dir = "txn" => d.box.old = NoPair)

\* What stood before the transaction a disk is in, or stands there without one.
Base(d) == IF HasJournal(d) THEN d.box.journal.plan ELSE d.top.pair["tar"]
Stands(d, g) == Whole(d) \/ Base(d) = g

\* Where the run is.
In(state) == dir = "txn" /\ journal.state = state
NoRecord == dir = "txn" /\ journal = NoJournal /\ old = NoPair
BothAway == \A f \in Part : Away(disk, f)

AtPhase ==
  /\ pc = "tomb" => dir = "tomb"
  /\ pc = "fresh" => dir = "none"
  /\ pc = "discard" => NoRecord
  /\ pc \in {"build"} \cup Preparing => NoRecord
  /\ pc \in Preparing => disk.box.made /\ \A f \in Part : staging[f] = new
  /\ pc = "noop" => Whole(disk)
  /\ pc \in {"backup_tar", "backup_sha", "backup_txn", "backup_out", "p_backed"} => In("staged")
  /\ pc = "backup_sha" => Away(disk, "tar")
  /\ pc \in {"backup_txn", "backup_out", "p_backed"} => BothAway
  /\ pc \in {"commit_tar", "tar_out", "p_tarball"} => In("backed_up")
  /\ pc = "commit_tar" => Away(disk, "tar")
  /\ pc \in {"tar_out", "p_tarball"} => Replaced(disk, "tar")
  /\ pc \in {"commit_sha", "sha_out", "p_sha"} => In("tarball_committed")
  /\ pc = "commit_sha" => Away(disk, "sha")
  /\ pc \in {"sha_out", "p_sha"} => Replaced(disk, "sha")
  /\ pc \in {"check", "p_verified", "p_rolling"} => In("sha_committed")
  /\ pc \in {"rm_old_tar", "rm_old_sha", "old_txn", "rm_journal"} => In("verified")
  /\ pc \in {"rm_old_sha", "old_txn", "rm_journal"} => old["tar"] = NoFile
  /\ pc \in {"old_txn", "rm_journal"} => old["sha"] = NoFile
  /\ pc = "rmtree" => NoRecord /\ Whole(disk)
  /\ pc = "done_out" => dir = "none" /\ Whole(disk)
  /\ pc \in {"roll", "rolled", "entomb"} \cup RollingBack => In("rolling_back")
  /\ pc = "rm_sha" => ~Replaced(disk, "tar")
  /\ pc = "restore_tar" => \A f \in Part : ~Replaced(disk, f)
  /\ pc \in {"back_tar_out", "back_tar_txn", "restore_sha"} =>
       InPlace(disk, "tar") /\ ~Replaced(disk, "sha")
  /\ pc \in {"back_sha_out", "back_sha_txn", "rolled", "entomb"} =>
       \A f \in Part : InPlace(disk, f)
  /\ pc \in {"tomb_out", "bury"} => dir = "tomb"
  /\ pc = "bury_out" => dir = "none"

\* An ordered file system leaves a disk some run has seen since the last fsync.
OrderedLag ==
  /\ disk \in lag
  /\ \A d \in lag : Good(d) /\ Stands(d, Base(disk)) /\ (stood # NoFile => Stands(d, stood))
  /\ pc \in {"rm_journal", "rmtree", "done_out"} => \A d \in lag : Whole(d)

\* On a torn one a run that resumes nothing has left it nothing to choose from
\* behind a barrier.
SameTop == \A d \in lag : d.top = disk.top
SameBox == \A d \in lag : d.box = disk.box
SameJournal ==
  \A d \in lag : /\ d.box.journal = journal /\ d.box.old = old
                 /\ d.box.made = disk.box.made
Unrecorded == \A d \in lag : d.box.journal = NoJournal

TornLag ==
  /\ pc \in Journalled => \A d \in lag : d.top.dir = "txn"
  /\ pc \in {"backup_tar", "p_backed", "commit_tar", "commit_sha", "check", "p_verified",
             "rm_old_tar", "p_rolling", "roll"} => SameTop /\ SameBox
  /\ pc \in {"p_tarball", "p_sha"} => SameTop
  /\ pc \in {"tar_out", "p_tarball", "sha_out", "p_sha"} => SameJournal
  /\ pc = "backup_out" => SameBox
  /\ pc \in {"rm_tar", "rm_sha", "restore_tar", "restore_sha"} =>
       SameBox /\ \A d \in lag : Good(d)
  /\ pc = "back_tar_txn" => SameTop
  /\ pc = "bury" => SameTop

Reported ==
  exit \in {"ok", "restored"} =>
    /\ pc = "idle" /\ SameTop /\ Unrecorded /\ PairOk(disk) /\ journal = NoJournal
    /\ exit = "ok" => Whole(disk)

Unscarred ==
  /\ Good(disk) /\ AtPhase /\ Reported
  /\ pc \notin {"idle", "rmtree", "done_out"} => stood = Base(disk)
  /\ stood # NoFile => Stands(disk, stood)
  /\ mount = "ordered" => OrderedLag
  /\ mount = "torn" /\ resumed = "none" => TornLag

SnapshotInv == TypeOK /\ Sound /\ (~scarred => Unscarred)

(***************************************************************************)
(* The control flow, spelled out.                                          *)
(***************************************************************************)
LEMMA PersistingIs ==
  /\ DOMAIN Persisting = {"p_staged", "p_backed", "p_tarball", "p_sha", "p_verified", "p_rolling"}
  /\ Persisting["p_staged"] = <<"staged", "backup_tar">>
  /\ Persisting["p_backed"] = <<"backed_up", "commit_tar">>
  /\ Persisting["p_tarball"] = <<"tarball_committed", "commit_sha">>
  /\ Persisting["p_sha"] = <<"sha_committed", "check">>
  /\ Persisting["p_verified"] = <<"verified", "rm_old_tar">>
  /\ Persisting["p_rolling"] = <<"rolling_back", "roll">>
BY DEF Persisting

LEMMA SyncingTopIs ==
  /\ DOMAIN SyncingTop = {"backup_out", "tar_out", "sha_out", "back_tar_out",
                          "back_sha_out", "tomb_out", "done_out", "bury_out"}
  /\ SyncingTop["backup_out"] = "p_backed" /\ SyncingTop["tar_out"] = "p_tarball"
  /\ SyncingTop["sha_out"] = "p_sha" /\ SyncingTop["back_tar_out"] = "back_tar_txn"
  /\ SyncingTop["back_sha_out"] = "back_sha_txn" /\ SyncingTop["tomb_out"] = "bury"
  /\ SyncingTop["done_out"] = "ok" /\ SyncingTop["bury_out"] = "restored"
BY DEF SyncingTop

LEMMA SyncingBoxIs ==
  /\ DOMAIN SyncingBox = {"backup_txn", "back_tar_txn", "back_sha_txn", "old_txn"}
  /\ SyncingBox["backup_txn"] = "backup_out" /\ SyncingBox["back_tar_txn"] = "restore_sha"
  /\ SyncingBox["back_sha_txn"] = "rolled" /\ SyncingBox["old_txn"] = "rm_journal"
BY DEF SyncingBox

LEMMA RemovingIs ==
  /\ DOMAIN Removing = {"tomb", "discard", "rmtree", "bury"}
  /\ Removing["tomb"] = "scan" /\ Removing["discard"] = "fresh"
  /\ Removing["rmtree"] = "done_out" /\ Removing["bury"] = "bury_out"
BY DEF Removing

LEMMA PcsAre ==
  Pcs = {"idle", "begin", "scan", "fresh", "build", "compare", "noop", "sync_staging",
         "check", "roll", "rolled", "entomb",
         "backup_tar", "backup_sha", "commit_tar", "commit_sha", "rm_old_tar",
         "rm_old_sha", "rm_journal", "rm_tar", "rm_sha", "restore_tar", "restore_sha",
         "p_staged", "p_backed", "p_tarball", "p_sha", "p_verified", "p_rolling",
         "backup_out", "tar_out", "sha_out", "back_tar_out", "back_sha_out", "tomb_out",
         "done_out", "bury_out", "backup_txn", "back_tar_txn", "back_sha_txn", "old_txn",
         "tomb", "discard", "rmtree", "bury"}
BY PersistingIs, SyncingTopIs, SyncingBoxIs, RemovingIs DEF Pcs, Moving

(***************************************************************************)
(* What each kind of change does to a disk.                                *)
(***************************************************************************)
LEMMA EmptyIs ==
  /\ Empty \in Box /\ NoJournal.state = "none" /\ NoJournal \in [state : States, gen : File, plan : File]
  /\ Empty.old = NoPair /\ Empty.staging = NoPair /\ Empty.made = FALSE /\ Empty.journal = NoJournal
  /\ NoPair \in Pair /\ \A f \in Part : NoPair[f] = NoFile
BY DEF Empty, Box, NoPair, NoJournal, States, File, Pair

LEMMA DiskFields ==
  ASSUME NEW d \in Disk
  PROVE  /\ d.top \in Top /\ d.box \in Box
         /\ d.top.pair \in Pair /\ d.top.dir \in {"none", "txn", "tomb"}
         /\ d.box.old \in Pair /\ d.box.staging \in Pair /\ d.box.made \in BOOLEAN
         /\ d.box.journal \in [state : States, gen : File, plan : File]
         /\ d.box.journal.state \in States /\ d.box.journal.gen \in File
         /\ d.box.journal.plan \in File
         /\ \A f \in Part : d.top.pair[f] \in File /\ d.box.old[f] \in File /\ d.box.staging[f] \in File
BY DEF Disk, Top, Box, Pair

LEMMA BoxesEqual ==
  ASSUME NEW a \in Box, NEW b \in Box, a.old = b.old, a.staging = b.staging, a.made = b.made, a.journal = b.journal
  PROVE  a = b
BY DEF Box

LEMMA DisksEqual ==
  ASSUME NEW a \in Disk, NEW b \in Disk, a.top = b.top, a.box = b.box
  PROVE  a = b
BY DEF Disk

LEMMA NewTop ==
  ASSUME NEW d \in Disk, NEW t \in Top
  PROVE  LET e == [d EXCEPT !.top = t] IN e \in Disk /\ e.top = t /\ e.box = d.box
BY DEF Disk

LEMMA NewBox ==
  ASSUME NEW d \in Disk, NEW b \in Box
  PROVE  LET e == [d EXCEPT !.box = b] IN e \in Disk /\ e.top = d.top /\ e.box = b
BY DEF Disk

LEMMA NormIs ==
  ASSUME NEW d \in Disk
  PROVE  /\ Norm(d) \in Disk /\ Norm(d).top = d.top
         /\ d.top.dir = "none" => Norm(d).box = Empty
         /\ d.top.dir # "none" => Norm(d) = d
BY EmptyIs DEF Norm, Disk

LEMMA TearIs ==
  ASSUME NEW d \in Disk
  PROVE  /\ Tear(d) \in Disk /\ Tear(d).top = d.top
         /\ Tear(d).box.old = d.box.old /\ Tear(d).box.made = d.box.made
         /\ Tear(d).box.journal = d.box.journal
         /\ \A f \in Part : d.box.staging[f] = NoFile => Tear(d).box.staging[f] = NoFile
         /\ hard => Tear(d) = d
<1>1. CASE hard
  BY <1>1 DEF Tear
<1>2. CASE ~hard
  <2> DEFINE s == [f \in Part |-> IF d.box.staging[f] = NoFile THEN NoFile ELSE Odd]
  <2>1. s \in Pair /\ \A f \in Part : d.box.staging[f] = NoFile => s[f] = NoFile
    BY DEF Pair, File
  <2>2. Tear(d) = [d EXCEPT !.box.staging = s]
    BY <1>2 DEF Tear
  <2> HIDE DEF s
  <2>3. QED BY <1>2, <2>1, <2>2 DEF Disk, Box
<1> QED BY <1>1, <1>2

(***************************************************************************)
(* What a step leaves on the disk, and what it leaves a power loss.        *)
(***************************************************************************)
LEMMA RecordIs ==
  ASSUME TypeOK, NEW s \in States
  PROVE  /\ Record(s) \in [state : States, gen : File, plan : File]
         /\ Record(s).state = s /\ Record(s).gen = new
         /\ s = "staged" => Record(s).plan = pair["tar"]
         /\ s # "staged" => Record(s).plan = journal.plan
<1>1. pair["tar"] \in File /\ journal.plan \in File /\ new \in File
  BY DiskFields DEF TypeOK, pair, journal, Part
<1> QED BY <1>1 DEF Record

LEMMA TypeSync ==
  ASSUME TypeOK, SyncTop \/ SyncBox
  PROVE  disk' \in Disk /\ \A d \in lag' : d \in Disk
<1>1. disk \in Disk /\ \A d \in lag : d \in Disk
  BY DEF TypeOK
<1>2. disk.top \in Top /\ disk.box \in Box
  BY <1>1, DiskFields
<1>3. \A d \in lag : /\ Norm([d EXCEPT !.top = disk.top]) \in Disk
                     /\ Norm([d EXCEPT !.box = disk.box]) \in Disk
  BY <1>1, <1>2, NewTop, NewBox, NormIs
<1> QED BY <1>1, <1>3 DEF SyncTop, SyncBox

LEMMA SurvivorsAreDisks ==
  ASSUME TypeOK, NEW e \in Survivors
  PROVE  /\ e \in Disk
         /\ mount = "ordered" => \E d \in lag : e = Tear(d)
         /\ mount # "ordered" => \E a, b \in lag : \E d \in Disk :
              /\ d = Norm([top |-> a.top, box |-> b.box]) /\ e = Tear(d)
<1>1. \A d \in lag : d \in Disk
  BY DEF TypeOK
<1>2. \A a, b \in lag : [top |-> a.top, box |-> b.box] \in Disk
  BY <1>1 DEF Disk
<1>3. \A d \in Mixed : d \in Disk
  <2>1. \A a, b \in lag : Norm([top |-> a.top, box |-> b.box]) \in Disk
    BY <1>2, NormIs
  <2> SUFFICES ASSUME NEW d \in Mixed PROVE d \in Disk
    OBVIOUS
  <2>2. PICK a \in lag, b \in lag : d = Norm([top |-> a.top, box |-> b.box])
    BY DEF Mixed
  <2>3. QED BY <2>1, <2>2
<1>4. \A d \in Disk : Tear(d) \in Disk
  BY TearIs
<1>5. CASE mount = "ordered"
  BY <1>1, <1>4, <1>5 DEF Survivors
<1>6. CASE mount # "ordered"
  <2>1. PICK d \in Mixed : e = Tear(d)
    BY <1>6 DEF Survivors
  <2>2. PICK a \in lag, b \in lag : d = Norm([top |-> a.top, box |-> b.box])
    BY <2>1 DEF Mixed
  <2>3. QED BY <1>3, <1>4, <1>6, <2>1, <2>2
<1> QED BY <1>5, <1>6

LEMMA TypeInit == Init => TypeOK
<1> SUFFICES ASSUME Init PROVE TypeOK
  OBVIOUS
<1>1. PICK g \in Gens \cup {NoFile} :
        disk = [top |-> [pair |-> [f \in Part |-> g], dir |-> "none"], box |-> Empty]
  BY DEF Init
<1>2. disk \in Disk
  BY <1>1, EmptyIs DEF Disk, Top, Pair, File
<1> QED BY <1>2, PcsAre DEF Init, TypeOK, Exits, States, File

\* What each move does.  Only the named parts of the disk change.
SameRecord(e, d) == e.box.journal = d.box.journal /\ e.box.made = d.box.made
Moved(p) == pc' = p /\ UNCHANGED <<new, resumed, exit, hard, mount, stood, scarred, faults>>

LEMMA BackupDoes ==
  ASSUME TypeOK, NEW f \in Part, Backup(f)
  PROVE  /\ disk' \in Disk /\ Moved(IF f = "tar" THEN "backup_sha" ELSE "backup_txn")
         /\ IF pair[f] # NoFile /\ old[f] = NoFile
            THEN /\ lag' = lag \cup {disk'} /\ disk'.top.dir = dir
                 /\ disk'.top.pair = [pair EXCEPT ![f] = NoFile]
                 /\ disk'.box.old = [old EXCEPT ![f] = pair[f]]
                 /\ disk'.box.staging = staging /\ SameRecord(disk', disk)
            ELSE disk' = disk /\ lag' = lag
<1>1. disk \in Disk /\ pair[f] \in File /\ NoFile \in File
  BY DiskFields DEF TypeOK, pair, File
<1>2. Moved(IF f = "tar" THEN "backup_sha" ELSE "backup_txn")
  BY DEF Backup, Goto, world, NoFault, Moved
<1>3. CASE pair[f] # NoFile /\ old[f] = NoFile
  <2>1. disk' = [disk EXCEPT !.top.pair[f] = NoFile, !.box.old[f] = pair[f]] /\ lag' = lag \cup {disk'}
    BY <1>3 DEF Backup, Change
  <2>2. QED BY <1>1, <1>2, <1>3, <2>1 DEF Disk, Top, Box, Pair, pair, dir, old, staging, SameRecord
<1>4. CASE ~(pair[f] # NoFile /\ old[f] = NoFile)
  BY <1>1, <1>2, <1>4 DEF Backup, Keep
<1> QED BY <1>3, <1>4

LEMMA CommitNewDoes ==
  ASSUME TypeOK, NEW f \in Part, CommitNew(f)
  PROVE  /\ disk' \in Disk /\ Moved(IF f = "tar" THEN "tar_out" ELSE "sha_out")
         /\ staging[f] # NoFile
         /\ lag' = lag \cup {disk'} /\ disk'.top.dir = dir
         /\ disk'.top.pair = [pair EXCEPT ![f] = staging[f]]
         /\ disk'.box.staging = [staging EXCEPT ![f] = NoFile]
         /\ disk'.box.old = old /\ SameRecord(disk', disk)
<1>1. disk \in Disk /\ staging[f] \in File /\ NoFile \in File
  BY DiskFields DEF TypeOK, staging, File
<1>2. disk' = [disk EXCEPT !.top.pair[f] = staging[f], !.box.staging[f] = NoFile] /\ lag' = lag \cup {disk'}
  BY DEF CommitNew, Change
<1>3. Moved(IF f = "tar" THEN "tar_out" ELSE "sha_out") /\ staging[f] # NoFile
  BY DEF CommitNew, Goto, world, NoFault, Moved
<1> QED BY <1>1, <1>2, <1>3 DEF Disk, Top, Box, Pair, pair, dir, old, staging, SameRecord

LEMMA RemoveOldDoes ==
  ASSUME TypeOK, NEW f \in Part, RemoveOld(f)
  PROVE  /\ disk' \in Disk /\ Moved(IF f = "tar" THEN "rm_old_sha" ELSE "old_txn")
         /\ lag' = lag \cup {disk'} /\ disk'.top = disk.top
         /\ disk'.box.old = [old EXCEPT ![f] = NoFile]
         /\ disk'.box.staging = staging /\ SameRecord(disk', disk)
<1>1. disk \in Disk /\ NoFile \in File
  BY DEF TypeOK, File
<1>2. disk' = [disk EXCEPT !.box.old[f] = NoFile] /\ lag' = lag \cup {disk'}
  BY DEF RemoveOld, Change
<1>3. Moved(IF f = "tar" THEN "rm_old_sha" ELSE "old_txn")
  BY DEF RemoveOld, Goto, world, NoFault, Moved
<1> QED BY <1>1, <1>2, <1>3 DEF Disk, Top, Box, Pair, old, staging, SameRecord

LEMMA RemoveJournalDoes ==
  ASSUME TypeOK, RemoveJournal
  PROVE  /\ disk' \in Disk /\ Moved("rmtree")
         /\ lag' = lag \cup {disk'} /\ disk'.top = disk.top
         /\ disk'.box.old = old /\ disk'.box.staging = staging
         /\ disk'.box.made = disk.box.made /\ disk'.box.journal = NoJournal
<1>1. disk \in Disk /\ NoJournal \in [state : States, gen : File, plan : File]
  BY EmptyIs DEF TypeOK
<1>2. disk' = [disk EXCEPT !.box.journal = NoJournal] /\ lag' = lag \cup {disk'}
  BY DEF RemoveJournal, Change
<1>3. Moved("rmtree")
  BY DEF RemoveJournal, Goto, world, NoFault, Moved
<1> QED BY <1>1, <1>2, <1>3 DEF Disk, Top, Box, Pair, old, staging

LEMMA RemoveNewDoes ==
  ASSUME TypeOK, NEW f \in Part, RemoveNew(f)
  PROVE  /\ disk' \in Disk /\ Moved(IF f = "tar" THEN "rm_sha" ELSE "restore_tar")
         /\ IF Class(disk, f) = "new"
            THEN /\ lag' = lag \cup {disk'} /\ disk'.top.dir = dir /\ disk'.box = disk.box
                 /\ disk'.top.pair = [pair EXCEPT ![f] = NoFile]
            ELSE disk' = disk /\ lag' = lag
<1>1. disk \in Disk /\ NoFile \in File
  BY DEF TypeOK, File
<1>2. Moved(IF f = "tar" THEN "rm_sha" ELSE "restore_tar")
  BY DEF RemoveNew, Goto, world, NoFault, Moved
<1>3. CASE Class(disk, f) = "new"
  <2>1. disk' = [disk EXCEPT !.top.pair[f] = NoFile] /\ lag' = lag \cup {disk'}
    BY <1>3 DEF RemoveNew, Change
  <2>2. QED BY <1>1, <1>2, <1>3, <2>1 DEF Disk, Top, Box, Pair, pair, dir
<1>4. CASE Class(disk, f) # "new"
  BY <1>1, <1>2, <1>4 DEF RemoveNew, Keep
<1> QED BY <1>3, <1>4

LEMMA RestoreOldDoes ==
  ASSUME TypeOK, NEW f \in Part, RestoreOld(f)
  PROVE  /\ disk' \in Disk
         /\ IF old[f] # NoFile
            THEN /\ Moved(IF f = "tar" THEN "back_tar_out" ELSE "back_sha_out")
                 /\ lag' = lag \cup {disk'} /\ disk'.top.dir = dir
                 /\ disk'.top.pair = [pair EXCEPT ![f] = old[f]]
                 /\ disk'.box.old = [old EXCEPT ![f] = NoFile]
                 /\ disk'.box.staging = staging /\ SameRecord(disk', disk)
            ELSE /\ disk' = disk /\ lag' = lag
                 /\ Moved(IF f = "tar" THEN "restore_sha" ELSE "rolled")
<1>1. disk \in Disk /\ old[f] \in File /\ NoFile \in File
  BY DiskFields DEF TypeOK, old, File
<1>3. CASE old[f] # NoFile
  <2>1. disk' = [disk EXCEPT !.top.pair[f] = old[f], !.box.old[f] = NoFile] /\ lag' = lag \cup {disk'}
    BY <1>3 DEF RestoreOld, Change
  <2>2. Moved(IF f = "tar" THEN "back_tar_out" ELSE "back_sha_out")
    BY <1>3 DEF RestoreOld, Goto, world, NoFault, Moved
  <2>3. QED BY <1>1, <1>3, <2>1, <2>2 DEF Disk, Top, Box, Pair, pair, dir, old, staging, SameRecord
<1>4. CASE old[f] = NoFile
  <2>1. Moved(IF f = "tar" THEN "restore_sha" ELSE "rolled")
    BY <1>4 DEF RestoreOld, Goto, world, NoFault, Moved
  <2>2. QED BY <1>1, <1>4, <2>1 DEF RestoreOld, Keep
<1> QED BY <1>3, <1>4

\* What the other steps do that change the disk.
Ended(e) ==
  /\ pc' = "idle" /\ exit' = e /\ new' = NoFile /\ resumed' = "none"
  /\ UNCHANGED <<mount, stood>>

LEMMA MakeTxnDoes ==
  ASSUME TypeOK, MakeTxn
  PROVE  /\ pc = "fresh" /\ disk' \in Disk /\ Moved("build") /\ lag' = {disk'}
         /\ disk'.top.pair = pair /\ disk'.top.dir = "txn" /\ disk'.box = Empty
<1>1. disk \in Disk
  BY DEF TypeOK
<1>2. disk' = [disk EXCEPT !.top.dir = "txn", !.box = Empty] /\ lag' = {disk'} /\ pc = "fresh"
  BY DEF MakeTxn
<1>3. Moved("build")
  BY DEF MakeTxn, Goto, world, NoFault, Moved
<1> QED BY <1>1, <1>2, <1>3, EmptyIs DEF Disk, Top, Box, Pair, pair

LEMMA BuildDoes ==
  ASSUME TypeOK, Build
  PROVE  /\ pc = "build" /\ pc' = "compare" /\ hard' = FALSE
         /\ UNCHANGED <<resumed, exit, mount, stood, scarred, faults>>
         /\ new' \in Gens /\ disk' \in Disk /\ lag' = lag \cup {disk'}
         /\ disk'.top = disk.top /\ disk'.box.old = old /\ disk'.box.journal = journal
         /\ disk'.box.made = TRUE /\ \A f \in Part : disk'.box.staging[f] = new'
<1>1. PICK g \in Gens :
        /\ disk' = [disk EXCEPT !.box.staging = [f \in Part |-> g], !.box.made = TRUE]
        /\ lag' = lag \cup {disk'} /\ new' = g
  BY DEF Build, Change
<1>2. disk \in Disk
  BY DEF TypeOK
<1>3. [f \in Part |-> g] \in Pair
  BY DEF Pair, File
<1>4. /\ disk' \in Disk /\ disk'.top = disk.top /\ disk'.box.old = disk.box.old
      /\ disk'.box.staging = [f \in Part |-> g] /\ disk'.box.made = TRUE
      /\ disk'.box.journal = disk.box.journal
  BY <1>1, <1>2, <1>3 DEF Disk, Box
<1>5. /\ pc = "build" /\ pc' = "compare" /\ hard' = FALSE
      /\ UNCHANGED <<resumed, exit, mount, stood, scarred, faults>>
  BY DEF Build, NoFault
<1> QED BY <1>1, <1>4, <1>5 DEF old, journal

LEMMA NoOpDoes ==
  ASSUME TypeOK, NoOp
  PROVE  /\ pc = "noop" /\ disk' \in Disk /\ Ended("ok") /\ UNCHANGED <<hard, scarred, faults>>
         /\ lag' = lag \cup {disk'} /\ disk'.top = disk.top /\ disk'.box.old = old
         /\ disk'.box.staging = NoPair /\ disk'.box.made = FALSE /\ disk'.box.journal = journal
<1>1. disk \in Disk
  BY DEF TypeOK
<1>2. disk' = [disk EXCEPT !.box.staging = NoPair, !.box.made = FALSE] /\ lag' = lag \cup {disk'}
  BY DEF NoOp, Change
<1>3. pc = "noop" /\ Ended("ok") /\ UNCHANGED <<hard, scarred, faults>>
  BY DEF NoOp, End, world, NoFault, Ended
<1> QED BY <1>1, <1>2, <1>3, EmptyIs DEF Disk, Box, old, journal

LEMMA BoxLag ==   \* a disk left by the fsync of .txn
  ASSUME NEW b \in Box, NEW d \in Disk, NEW e, e = Norm([d EXCEPT !.box = b])
  PROVE  /\ e \in Disk /\ e.top = d.top
         /\ e.box = IF d.top.dir = "none" THEN Empty ELSE b
<1> DEFINE c == [d EXCEPT !.box = b]
<1>2. c \in Disk /\ c.top = d.top /\ c.box = b
  BY NewBox
<1>3. e = Norm(c)
  OBVIOUS
<1> HIDE DEF c
<1>4. QED BY <1>2, <1>3, NormIs

\* The journal, as both outcomes of persist_journal write it.
LEMMA PersistWrites ==
  ASSUME TypeOK, NEW s \in States, disk' = [disk EXCEPT !.box.journal = Record(s)]
  PROVE  /\ disk' \in Disk /\ disk'.top = disk.top /\ disk'.box.old = old
         /\ disk'.box.staging = staging /\ disk'.box.made = disk.box.made
         /\ disk'.box.journal = Record(s)
BY RecordIs DEF TypeOK, Disk, Box, old, staging

LEMMA PersistDoes ==
  ASSUME TypeOK, Persist
  PROVE  /\ pc \in DOMAIN Persisting /\ Persisting[pc][1] \in States
         /\ disk' \in Disk /\ Moved(Persisting[pc][2])
         /\ disk'.top = disk.top /\ disk'.box.old = old
         /\ disk'.box.staging = staging /\ disk'.box.made = disk.box.made
         /\ disk'.box.journal = Record(Persisting[pc][1])
         /\ mount = "ordered" => lag' = {disk'}
         /\ mount # "ordered" => \A e \in lag' : \E d \in lag :
              /\ e \in Disk /\ e.top = d.top
              /\ e.box = IF d.top.dir = "none" THEN Empty ELSE disk'.box
<1>1. pc \in DOMAIN Persisting /\ disk' = [disk EXCEPT !.box.journal = Record(Persisting[pc][1])]
  BY DEF Persist
<1>2. Persisting[pc][1] \in States
  BY <1>1, PersistingIs DEF States
<1>3. Moved(Persisting[pc][2])
  BY DEF Persist, Goto, world, NoFault, Moved
<1>4. disk' \in Disk /\ disk'.box \in Box
  BY <1>1, <1>2, PersistWrites, DiskFields
<1>5. ASSUME mount # "ordered", NEW e \in lag'
      PROVE \E d \in lag : /\ e \in Disk /\ e.top = d.top
                           /\ e.box = IF d.top.dir = "none" THEN Empty ELSE disk'.box
  <2>1. PICK d \in lag : e = Norm([d EXCEPT !.box = disk'.box])
    BY <1>5 DEF Persist
  <2>2. d \in Disk
    BY DEF TypeOK
  <2>3. /\ e \in Disk /\ e.top = d.top
        /\ e.box = IF d.top.dir = "none" THEN Empty ELSE disk'.box
    BY <1>4, <2>1, <2>2, BoxLag
  <2>4. QED BY <2>3
<1>6. mount = "ordered" => lag' = {disk'}
  BY DEF Persist
<1> QED BY <1>1, <1>2, <1>3, <1>5, <1>6, PersistWrites

LEMMA PersistFailsDoes ==
  ASSUME TypeOK, PersistFails
  PROVE  /\ pc \in DOMAIN Persisting /\ Persisting[pc][1] \in States
         /\ disk' \in Disk /\ Ended("stopped") /\ UNCHANGED <<hard, scarred>> /\ faults' = faults + 1
         /\ disk'.top = disk.top /\ disk'.box.old = old
         /\ disk'.box.staging = staging /\ disk'.box.made = disk.box.made
         /\ disk'.box.journal = Record(Persisting[pc][1])
         /\ lag' = lag \cup {disk'}
<1>1. pc \in DOMAIN Persisting /\ disk' = [disk EXCEPT !.box.journal = Record(Persisting[pc][1])]
      /\ lag' = lag \cup {disk'}
  BY DEF PersistFails, Change
<1>2. Persisting[pc][1] \in States
  BY <1>1, PersistingIs DEF States
<1>3. Ended("stopped") /\ UNCHANGED <<hard, scarred>> /\ faults' = faults + 1
  BY DEF PersistFails, End, world, Hit, Ended
<1> QED BY <1>1, <1>2, <1>3, PersistWrites

LEMMA RmtreeDoes ==
  ASSUME TypeOK, Rmtree
  PROVE  /\ pc \in DOMAIN Removing /\ UNCHANGED <<new, resumed, exit, hard, mount, stood, scarred, faults>>
         /\ disk' \in Disk /\ lag' = lag \cup {disk'} /\ disk'.top.pair = pair
         /\ \/ /\ pc' = pc /\ disk'.top = disk.top /\ disk'.box.old = old
               /\ \/ /\ disk'.box.staging = NoPair /\ disk'.box.made = FALSE
                     /\ disk'.box.journal = journal
                  \/ /\ disk'.box.staging = staging /\ disk'.box.made = disk.box.made
                     /\ disk'.box.journal = NoJournal
            \/ /\ pc' = Removing[pc] /\ disk'.top.dir = "none" /\ disk'.box = Empty
<1>1. disk \in Disk
  BY DEF TypeOK
<1>2. pc \in DOMAIN Removing /\ UNCHANGED <<new, resumed, exit, hard, mount, stood, scarred, faults>>
  BY DEF Rmtree, world, NoFault
<1>3. CASE disk' = [disk EXCEPT !.box.staging = NoPair, !.box.made = FALSE] /\ lag' = lag \cup {disk'} /\ pc' = pc
  BY <1>1, <1>2, <1>3, EmptyIs DEF Disk, Box, old, journal, pair
<1>4. CASE disk' = [disk EXCEPT !.box.journal = NoJournal] /\ lag' = lag \cup {disk'} /\ pc' = pc
  BY <1>1, <1>2, <1>4, EmptyIs DEF Disk, Box, old, staging, pair
<1>5. CASE disk' = [disk EXCEPT !.top.dir = "none", !.box = Empty] /\ lag' = lag \cup {disk'} /\ pc' = Removing[pc]
  <2>1. disk' \in Disk /\ disk'.top.pair = disk.top.pair /\ disk'.top.dir = "none" /\ disk'.box = Empty
    BY <1>1, <1>5, EmptyIs DEF Disk, Top
  <2>2. QED BY <1>2, <1>5, <2>1 DEF pair
<1> QED BY <1>3, <1>4, <1>5 DEF Rmtree, Change

LEMMA EntombDoes ==
  ASSUME TypeOK, Entomb
  PROVE  /\ pc = "entomb" /\ disk' \in Disk /\ Moved("tomb_out") /\ lag' = lag \cup {disk'}
         /\ disk'.top.pair = pair /\ disk'.top.dir = "tomb" /\ disk'.box = disk.box
<1>1. disk \in Disk
  BY DEF TypeOK
<1>2. pc = "entomb" /\ disk' = [disk EXCEPT !.top.dir = "tomb"] /\ lag' = lag \cup {disk'}
  BY DEF Entomb, Change
<1>3. Moved("tomb_out")
  BY DEF Entomb, Goto, world, NoFault, Moved
<1> QED BY <1>1, <1>2, <1>3 DEF Disk, Top, pair

LEMMA SyncTopDoes ==
  ASSUME TypeOK, SyncTop
  PROVE  /\ disk' = disk
         /\ mount = "ordered" => lag' = {disk}
         /\ mount # "ordered" => \A e \in lag' : \E d \in lag :
              /\ e \in Disk /\ e.top = disk.top
              /\ e.box = IF dir = "none" THEN Empty ELSE d.box
<1>1. disk \in Disk /\ (\A d \in lag : d \in Disk) /\ disk.top \in Top
  BY DiskFields DEF TypeOK
<1>2. ASSUME mount # "ordered", NEW e \in lag'
      PROVE \E d \in lag : /\ e \in Disk /\ e.top = disk.top
                           /\ e.box = IF dir = "none" THEN Empty ELSE d.box
  <2>1. PICK d \in lag : e = Norm([d EXCEPT !.top = disk.top])
    BY <1>2 DEF SyncTop
  <2>2. d \in Disk
    BY <1>1
  <2> DEFINE c == [d EXCEPT !.top = disk.top]
  <2>3. c \in Disk /\ c.top = disk.top /\ c.box = d.box
    BY <1>1, <2>2, NewTop
  <2>4. e = Norm(c)
    BY <2>1
  <2> HIDE DEF c
  <2>5. /\ e \in Disk /\ e.top = disk.top
        /\ e.box = IF dir = "none" THEN Empty ELSE d.box
    BY <2>3, <2>4, NormIs DEF dir
  <2>6. QED BY <2>5
<1> QED BY <1>2 DEF SyncTop

LEMMA SyncBoxDoes ==
  ASSUME TypeOK, SyncBox
  PROVE  /\ disk' = disk
         /\ mount = "ordered" => lag' = {disk}
         /\ mount # "ordered" => \A e \in lag' : \E d \in lag :
              /\ e \in Disk /\ e.top = d.top
              /\ e.box = IF d.top.dir = "none" THEN Empty ELSE disk.box
<1>1. (\A d \in lag : d \in Disk) /\ disk.box \in Box
  BY DiskFields DEF TypeOK
<1>2. ASSUME mount # "ordered", NEW e \in lag'
      PROVE \E d \in lag : /\ e \in Disk /\ e.top = d.top
                           /\ e.box = IF d.top.dir = "none" THEN Empty ELSE disk.box
  <2>1. PICK d \in lag : e = Norm([d EXCEPT !.box = disk.box])
    BY <1>2 DEF SyncBox
  <2>2. /\ e \in Disk /\ e.top = d.top
        /\ e.box = IF d.top.dir = "none" THEN Empty ELSE disk.box
    BY <1>1, <2>1, BoxLag
  <2>3. QED BY <2>2
<1> QED BY <1>2 DEF SyncBox

LEMMA DamageDoes ==
  ASSUME TypeOK, NEW f \in Part, Damage(f)
  PROVE  /\ pc \in {"idle", "check"} /\ scarred' = TRUE /\ faults' = faults + 1
         /\ UNCHANGED <<pc, new, resumed, exit, hard, mount, stood>>
         /\ disk' \in Disk /\ disk'.top.pair = [pair EXCEPT ![f] = Odd]
         /\ disk'.top.dir = dir /\ disk'.box = disk.box
         /\ \A e \in lag' : \E d \in lag :
              /\ e \in Disk /\ e.top.pair = [d.top.pair EXCEPT ![f] = Odd]
              /\ e.top.dir = d.top.dir /\ e.box = d.box
<1>1. disk \in Disk /\ (\A d \in lag : d \in Disk) /\ Odd \in File
  BY DEF TypeOK, File
<1>2. /\ pc \in {"idle", "check"} /\ scarred' = TRUE /\ faults' = faults + 1
      /\ UNCHANGED <<pc, new, resumed, exit, hard, mount, stood>>
      /\ disk' = [disk EXCEPT !.top.pair[f] = Odd]
      /\ lag' = {[d EXCEPT !.top.pair[f] = Odd] : d \in lag}
  BY DEF Damage, Hit
<1>3. /\ disk' \in Disk /\ disk'.top.pair = [pair EXCEPT ![f] = Odd]
      /\ disk'.top.dir = dir /\ disk'.box = disk.box
  BY <1>1, <1>2 DEF Disk, Top, Pair, pair, dir
<1>4. ASSUME NEW e \in lag'
      PROVE \E d \in lag : /\ e \in Disk /\ e.top.pair = [d.top.pair EXCEPT ![f] = Odd]
                           /\ e.top.dir = d.top.dir /\ e.box = d.box
  <2>1. PICK d \in lag : e = [d EXCEPT !.top.pair[f] = Odd]
    BY <1>2, <1>4
  <2>2. d \in Disk
    BY <1>1
  <2>3. /\ e \in Disk /\ e.top.pair = [d.top.pair EXCEPT ![f] = Odd]
        /\ e.top.dir = d.top.dir /\ e.box = d.box
    BY <1>1, <2>1, <2>2 DEF Disk, Top, Pair
  <2>4. QED BY <2>3
<1> QED BY <1>2, <1>3, <1>4

\* A survivor is one of the disks, its two directories, or, torn, one of each; what
\* was not fsynced in staging may be odd.
LEMMA PowerLossDoes ==
  ASSUME TypeOK, PowerLoss
  PROVE  /\ Ended("lost") /\ hard' = TRUE /\ faults' = faults + 1
         /\ disk' \in Survivors /\ disk' \in Disk /\ lag' = {disk'}
         /\ scarred' = (scarred \/ (mount = "torn" /\ disk' # Tear(disk)))
<1>1. disk' \in Survivors
  BY DEF PowerLoss
<1>2. disk' \in Disk
  BY <1>1, SurvivorsAreDisks
<1> QED BY <1>1, <1>2 DEF PowerLoss, End, Hit, Ended

(***************************************************************************)
(* Types.                                                                  *)
(***************************************************************************)
LEMMA GoesOn ==
  ASSUME TypeOK, NEW p \in Pcs, disk' \in Disk, \A d \in lag' : d \in Disk, Moved(p)
  PROVE  TypeOK'
BY DEF TypeOK, Moved

LEMMA EndsWell ==
  ASSUME TypeOK, NEW e \in Exits, disk' \in Disk, \A d \in lag' : d \in Disk, Ended(e),
         hard' \in BOOLEAN, scarred' \in BOOLEAN, faults' \in Nat
  PROVE  TypeOK'
BY PcsAre DEF TypeOK, Ended, States, File

LEMMA MoveTypes == TypeOK /\ Move => TypeOK'
<1> SUFFICES ASSUME TypeOK, Move PROVE TypeOK'
  OBVIOUS
<1>d. \A d \in lag : d \in Disk
  BY DEF TypeOK
<1>p. {"backup_sha", "backup_txn", "tar_out", "sha_out", "rm_old_sha", "old_txn", "rmtree",
       "rm_sha", "restore_tar", "back_tar_out", "back_sha_out", "restore_sha", "rolled"} \subseteq Pcs
  BY PcsAre
<1>1. ASSUME NEW f \in Part, Backup(f) PROVE TypeOK'
  <2>1. disk' \in Disk /\ (\A d \in lag' : d \in Disk)
    BY <1>d, <1>1, BackupDoes
  <2>2. Moved(IF f = "tar" THEN "backup_sha" ELSE "backup_txn")
    BY <1>1, BackupDoes
  <2>3. QED BY <1>p, <2>1, <2>2, GoesOn
<1>2. ASSUME NEW f \in Part, CommitNew(f) PROVE TypeOK'
  <2>1. disk' \in Disk /\ (\A d \in lag' : d \in Disk) /\ Moved(IF f = "tar" THEN "tar_out" ELSE "sha_out")
    BY <1>d, <1>2, CommitNewDoes
  <2>2. QED BY <1>p, <2>1, GoesOn
<1>3. ASSUME NEW f \in Part, RemoveOld(f) PROVE TypeOK'
  <2>1. disk' \in Disk /\ (\A d \in lag' : d \in Disk) /\ Moved(IF f = "tar" THEN "rm_old_sha" ELSE "old_txn")
    BY <1>d, <1>3, RemoveOldDoes
  <2>2. QED BY <1>p, <2>1, GoesOn
<1>4. ASSUME RemoveJournal PROVE TypeOK'
  <2>1. disk' \in Disk /\ (\A d \in lag' : d \in Disk) /\ Moved("rmtree")
    BY <1>d, <1>4, RemoveJournalDoes
  <2>2. QED BY <1>p, <2>1, GoesOn
<1>5. ASSUME NEW f \in Part, RemoveNew(f) PROVE TypeOK'
  <2>1. disk' \in Disk /\ (\A d \in lag' : d \in Disk)
    BY <1>d, <1>5, RemoveNewDoes
  <2>2. Moved(IF f = "tar" THEN "rm_sha" ELSE "restore_tar")
    BY <1>5, RemoveNewDoes
  <2>3. QED BY <1>p, <2>1, <2>2, GoesOn
<1>6. ASSUME NEW f \in Part, RestoreOld(f) PROVE TypeOK'
  <2>1. disk' \in Disk /\ (\A d \in lag' : d \in Disk)
    BY <1>d, <1>6, RestoreOldDoes
  <2>2. \E p \in Pcs : Moved(p)
    BY <1>p, <1>6, RestoreOldDoes
  <2>3. QED BY <2>1, <2>2, GoesOn
<1> QED BY <1>1, <1>2, <1>3, <1>4, <1>5, <1>6 DEF Move, Part

LEMMA ResumeIs == TypeOK => Resume \in Pcs
<1> SUFFICES ASSUME TypeOK PROVE Resume \in Pcs
  OBVIOUS
<1>1. journal.state \in States
  BY DiskFields DEF TypeOK, journal
<1> QED BY <1>1, PcsAre DEF Resume, States

LEMMA RunTypes == TypeOK /\ Run => TypeOK'
<1> SUFFICES ASSUME TypeOK, Run PROVE TypeOK'
  OBVIOUS
<1>d. disk \in Disk /\ \A d \in lag : d \in Disk
  BY DEF TypeOK
<1>s. hard \in BOOLEAN /\ scarred \in BOOLEAN /\ faults \in Nat
  BY DEF TypeOK
<1>j. journal.state \in States /\ journal.gen \in File
  BY <1>d, DiskFields DEF journal
<1>p. {"build", "noop", "sync_staging", "p_staged", "p_verified", "p_rolling", "rm_tar", "entomb", "tomb_out",
       "backup_tar", "commit_tar", "commit_sha", "check", "rm_old_tar", "roll", "p_backed", "p_tarball",
       "p_sha", "back_tar_txn", "back_sha_txn", "bury", "backup_out", "restore_sha", "rolled",
       "rm_journal", "scan", "fresh", "done_out", "bury_out", "compare", "idle"} \subseteq Pcs
      /\ {"ok", "restored", "refused", "none"} \subseteq Exits /\ "none" \in States /\ NoFile \in File
  BY PcsAre DEF Exits, States, File
<1>1. CASE Scan
  BY <1>1, <1>j, <1>p, ResumeIs DEF TypeOK, Scan, world, Keep, NoFault
<1>2. CASE Refuse
  <2>1. Ended("refused") /\ Keep /\ UNCHANGED <<hard, scarred, faults>>
    BY <1>2 DEF Refuse, End, world, NoFault, Ended
  <2>2. QED BY <1>d, <1>p, <1>s, <2>1, EndsWell DEF Keep
<1>3. CASE MakeTxn
  BY <1>3, <1>p, MakeTxnDoes, GoesOn
<1>4. CASE Build
  <2>1. disk' \in Disk /\ \A d \in lag' : d \in Disk
    BY <1>d, <1>4, BuildDoes
  <2>2. new' \in File
    BY <1>4, BuildDoes DEF File
  <2>3. QED BY <1>4, <1>p, <2>1, <2>2, BuildDoes DEF TypeOK
<1>5. CASE Compare
  <2>1. Moved(IF pair["tar"] = new THEN "noop" ELSE "sync_staging") /\ Keep
    BY <1>5 DEF Compare, Goto, world, NoFault, Moved
  <2>2. QED BY <1>d, <1>p, <2>1, GoesOn DEF Keep
<1>6. CASE NoOp
  <2>1. disk' \in Disk /\ (\A d \in lag' : d \in Disk) /\ Ended("ok") /\ UNCHANGED <<hard, scarred, faults>>
    BY <1>d, <1>6, NoOpDoes
  <2>2. QED BY <1>p, <1>s, <2>1, EndsWell
<1>7. CASE SyncStaging
  BY <1>7, <1>p DEF TypeOK, SyncStaging, Goto, Keep, NoFault
<1>8. CASE Persist
  <2>1. Persisting[pc][2] \in Pcs
    BY <1>8, <1>p, PersistDoes, PersistingIs
  <2>2. disk' \in Disk /\ Moved(Persisting[pc][2])
    BY <1>8, PersistDoes
  <2>3. \A d \in lag' : d \in Disk
    <3>2. CASE mount = "ordered"
      BY <1>8, <2>2, <3>2, PersistDoes
    <3>3. CASE mount # "ordered"
      <4>1. \A e \in lag' : \E d \in lag : e \in Disk
        BY <1>8, <3>3, PersistDoes
      <4>2. QED BY <4>1
    <3> QED BY <3>2, <3>3
  <2>4. QED BY <2>1, <2>2, <2>3, GoesOn
<1>9. CASE Sync
  <2>1. disk' \in Disk /\ \A d \in lag' : d \in Disk
    BY <1>9, TypeSync DEF Sync
  <2>2. (\E p \in Pcs : Moved(p)) \/ ((\E e \in Exits : Ended(e)) /\ UNCHANGED <<hard, scarred, faults>>)
    <3>1. CASE pc \in DOMAIN SyncingTop /\ SyncingTop[pc] \in Exits /\ End(SyncingTop[pc])
      BY <1>9, <3>1 DEF Sync, End, Ended, world, NoFault
    <3>2. CASE pc \in DOMAIN SyncingTop /\ SyncingTop[pc] \notin Exits /\ Goto(SyncingTop[pc])
      <4>1. SyncingTop[pc] \in Pcs
        BY <1>p, <3>2, SyncingTopIs
      <4>2. QED BY <1>9, <3>2, <4>1 DEF Sync, Goto, Moved, world, NoFault
    <3>3. CASE pc \in DOMAIN SyncingBox /\ Goto(SyncingBox[pc])
      <4>1. SyncingBox[pc] \in Pcs
        BY <1>p, <3>3, SyncingBoxIs
      <4>2. QED BY <1>9, <3>3, <4>1 DEF Sync, Goto, Moved, world, NoFault
    <3> QED BY <1>9, <3>1, <3>2, <3>3 DEF Sync
  <2>3. QED BY <1>s, <2>1, <2>2, GoesOn, EndsWell
<1>10. CASE Rmtree
  <2>1. disk' \in Disk /\ \A d \in lag' : d \in Disk
    BY <1>d, <1>10, RmtreeDoes
  <2>2. pc' \in Pcs
    BY <1>10, <1>p, RmtreeDoes, RemovingIs DEF TypeOK
  <2>3. UNCHANGED <<new, resumed, exit, hard, mount, stood, scarred, faults>>
    BY <1>10, RmtreeDoes
  <2>4. QED BY <2>1, <2>2, <2>3 DEF TypeOK
<1>11. CASE Move
  BY <1>11, MoveTypes
<1>12. CASE SelfCheck
  <2>1. /\ pc' \in {"p_verified", "p_rolling"} /\ faults' \in Nat /\ Keep
        /\ UNCHANGED <<new, resumed, exit, hard, mount, stood, scarred>>
    BY <1>12, <1>s DEF SelfCheck, Goto, world, NoFault, Hit
  <2>2. QED BY <1>p, <2>1 DEF TypeOK, Keep
<1>13. CASE Roll \/ Rolled
  <2>1. (Moved("rm_tar") \/ Moved("entomb")) /\ Keep
    BY <1>13 DEF Roll, Rolled, Goto, world, NoFault, Moved
  <2>2. QED BY <1>d, <1>p, <2>1, GoesOn DEF Keep
<1>14. CASE Entomb
  <2>1. disk' \in Disk /\ (\A d \in lag' : d \in Disk) /\ Moved("tomb_out")
    BY <1>d, <1>14, EntombDoes
  <2>2. QED BY <1>p, <2>1, GoesOn
<1> QED BY <1>1, <1>2, <1>3, <1>4, <1>5, <1>6, <1>7, <1>8, <1>9, <1>10, <1>11, <1>12, <1>13, <1>14 DEF Run

LEMMA TypeNext == TypeOK /\ [Next]_vars => TypeOK'
<1> SUFFICES ASSUME TypeOK, [Next]_vars PROVE TypeOK'
  OBVIOUS
<1>d. disk \in Disk /\ \A d \in lag : d \in Disk
  BY DEF TypeOK
<1>s. hard \in BOOLEAN /\ scarred \in BOOLEAN /\ faults \in Nat
  BY DEF TypeOK
<1>e. {"stopped", "lost", "none"} \subseteq Exits
  BY DEF Exits
<1>1. CASE Start
  <2>1. stood' \in File
    <3>1. journal.plan \in File /\ pair["tar"] \in File
      BY <1>d, DiskFields DEF journal, pair, Part
    <3>2. QED BY <1>1, <3>1 DEF Start
  <2>2. pc' \in Pcs
    BY <1>1, PcsAre DEF Start
  <2>3. QED BY <1>1, <1>e, <2>1, <2>2 DEF Start, TypeOK, Keep, NoFault
<1>2. CASE Run
  BY <1>2, RunTypes
<1>3. CASE PersistFails
  <2>1. disk' \in Disk /\ (\A d \in lag' : d \in Disk) /\ Ended("stopped") /\ UNCHANGED <<hard, scarred>>
        /\ faults' = faults + 1
    BY <1>d, <1>3, PersistFailsDoes
  <2>2. QED BY <1>s, <1>e, <2>1, EndsWell
<1>4. CASE Stop
  <2>1. Ended("stopped") /\ Keep /\ UNCHANGED <<hard, scarred>> /\ faults' = faults + 1
    BY <1>4 DEF Stop, End, world, Hit, Ended
  <2>2. QED BY <1>d, <1>s, <1>e, <2>1, EndsWell DEF Keep
<1>5. CASE PowerLoss
  <2>1. disk' \in Disk /\ lag' = {disk'} /\ Ended("lost") /\ hard' = TRUE /\ faults' = faults + 1
        /\ scarred' \in BOOLEAN
    BY <1>5, <1>s, PowerLossDoes
  <2>2. QED BY <1>s, <1>e, <2>1, EndsWell
<1>6. ASSUME NEW f \in Part, Damage(f) PROVE TypeOK'
  <2>1. disk' \in Disk /\ (\A d \in lag' : d \in Disk) /\ faults' = faults + 1 /\ scarred' = TRUE
        /\ UNCHANGED <<pc, new, resumed, exit, hard, mount, stood>>
    BY <1>6, DamageDoes
  <2>2. QED BY <1>s, <2>1 DEF TypeOK
<1>7. CASE UNCHANGED vars
  BY <1>7 DEF vars, TypeOK
<1> QED BY <1>1, <1>2, <1>3, <1>4, <1>5, <1>6, <1>7 DEF Next

\* Every disk a power loss may leave is one the recovery can read.
THEOREM SnapshotTypes == Spec => []TypeOK
BY TypeInit, TypeNext, PTL DEF Spec

(***************************************************************************)
(* Sound, in two parts: what the disks are, and where the run is.          *)
(***************************************************************************)
SoundDisks ==
  /\ \A d \in lag \cup {disk} : SoundBox(d.box)
  /\ ~hard => \A d \in lag \cup {disk} : d.box.journal = NoJournal
  /\ \A f \in Part : pair[f] = Odd => \A d \in lag : d.top.pair[f] = Odd

SoundRun ==
  /\ pc \in Committing \cup RollingBack => \A f \in Part : pair[f] \in Known
  /\ pc \in Journalled => journal.state # "none" /\ new = journal.gen
  /\ pc \in {"build"} \cup Preparing =>
       \A d \in lag \cup {disk} : d.top = disk.top /\ d.box.journal = NoJournal
  /\ pc \in Preparing => new \in Gens /\ \A f \in Part : staging[f] \in {NoFile, new}
  /\ pc \in {"sync_staging", "p_staged"} =>
       \A f \in Part : pair[f] \in Known /\ pair[f] = pair["tar"] /\ pair[f] # new
  /\ pc = "p_staged" => hard
  /\ pc = "scan" => dir # "tomb"

LEMMA SoundIs == Sound <=> SoundDisks /\ SoundRun
BY DEF Sound, SoundDisks, SoundRun

LEMMA SoundEmpty == SoundBox(Empty)
BY EmptyIs DEF SoundBox, Known

LEMMA SoundMakesKnown ==
  ASSUME NEW b, SoundBox(b), NEW f \in Part
  PROVE  /\ b.old[f] \in Known
         /\ b.journal.state # "none" => b.staging[f] \in Known /\ b.journal.gen \in Known
                                        /\ b.journal.plan \in Known
BY DEF SoundBox, Known

LEMMA KnownIsNotOdd == Odd \notin Known /\ NoFile \in Known
BY GensAssumption DEF Known

\* A change of one disk is sound when its box is, and puts nothing odd in OUT_DIR.
LEMMA SoundChange ==
  ASSUME TypeOK, SoundDisks, lag' = lag \cup {disk'}, hard' = hard, SoundBox(disk'.box),
         ~hard => disk'.box.journal = NoJournal,
         \A f \in Part : disk'.top.pair[f] = Odd => pair[f] = Odd
  PROVE  SoundDisks'
BY DEF SoundDisks, pair

LEMMA SoundKept ==
  ASSUME SoundDisks, Keep, hard' = hard \/ hard' = TRUE
  PROVE  SoundDisks'
BY DEF SoundDisks, Keep, pair

\* A run that has a journal goes on.
LEMMA SoundGoesOn ==
  ASSUME SoundRun, pc \in Journalled, NEW p \in Journalled, pc' = p, new' = new,
         disk'.box.journal = journal,
         p \in Committing \cup RollingBack => \A f \in Part : disk'.top.pair[f] \in Known
  PROVE  SoundRun'
BY DEF SoundRun, Journalled, Committing, RollingBack, Preparing, pair, journal

LEMMA SoundEnded ==
  ASSUME pc' \in {"idle", "tomb", "discard", "fresh", "rmtree", "done_out", "bury_out", "tomb_out", "bury"}
  PROVE  SoundRun'
BY DEF SoundRun, Journalled, Committing, RollingBack, Preparing

LEMMA HardWithJournal ==
  ASSUME SoundDisks, journal.state # "none"
  PROVE  hard
BY EmptyIs DEF SoundDisks, journal

LEMMA MoveSound ==
  ASSUME TypeOK, SoundDisks, SoundRun, Move
  PROVE  SoundDisks' /\ SoundRun' /\ \A f \in Part : pair[f] = Odd => disk'.top.pair[f] = Odd
<1>b. SoundBox(disk.box)
  BY DEF SoundDisks
<1>p. pc \in Journalled
  BY DEF Move, Journalled, Committing, RollingBack
<1>n. journal.state # "none" /\ new = journal.gen
  BY <1>p DEF SoundRun
<1>h. hard
  BY <1>n, HardWithJournal
<1>t. disk \in Disk /\ pair \in Pair /\ old \in Pair /\ staging \in Pair
  BY DiskFields DEF TypeOK, pair, old, staging
<1>1. ASSUME NEW f \in Part, Backup(f), pc \in {"backup_tar", "backup_sha"} PROVE SoundDisks' /\ SoundRun' /\ \A g \in Part : pair[g] = Odd => disk'.top.pair[g] = Odd
  <2>1. \A g \in Part : pair[g] \in Known
    BY <1>1 DEF SoundRun, Committing
  <2>2. Moved(IF f = "tar" THEN "backup_sha" ELSE "backup_txn")
    BY <1>1, BackupDoes
  <2>3. CASE pair[f] # NoFile /\ old[f] = NoFile
    <3>1. /\ lag' = lag \cup {disk'} /\ disk'.top.pair = [pair EXCEPT ![f] = NoFile]
          /\ disk'.box.old = [old EXCEPT ![f] = pair[f]]
          /\ disk'.box.staging = staging /\ disk'.box.journal = journal
      BY <1>1, <2>3, BackupDoes DEF SameRecord, journal
    <3>2. SoundBox(disk'.box)
      BY <1>b, <1>t, <2>1, <3>1 DEF SoundBox, old, staging, journal, Pair
    <3>3. \A g \in Part : disk'.top.pair[g] \in Known
      BY <1>t, <2>1, <3>1, KnownIsNotOdd DEF Pair
    <3>4. SoundDisks'
      BY <1>h, <2>2, <3>1, <3>2, <3>3, KnownIsNotOdd, SoundChange DEF Moved
    <3>5. SoundRun'
      BY <1>p, <2>2, <3>1, <3>3, SoundGoesOn DEF Moved, Journalled, Committing
    <3>6. QED BY <2>1, <3>4, <3>5, KnownIsNotOdd
  <2>4. CASE ~(pair[f] # NoFile /\ old[f] = NoFile)
    <3>1. Keep
      BY <1>1, <2>4, BackupDoes DEF Keep
    <3>2. SoundDisks'
      BY <2>2, <3>1, SoundKept DEF Moved
    <3>3. SoundRun'
      BY <1>p, <2>1, <2>2, <3>1, SoundGoesOn DEF Moved, Journalled, Committing, Keep, journal, pair
    <3>4. QED BY <3>1, <3>2, <3>3 DEF Keep, pair
  <2> QED BY <2>3, <2>4
<1>2. ASSUME NEW f \in Part, CommitNew(f), pc \in {"commit_tar", "commit_sha"} PROVE SoundDisks' /\ SoundRun' /\ \A g \in Part : pair[g] = Odd => disk'.top.pair[g] = Odd
  <2>1. \A g \in Part : pair[g] \in Known
    BY <1>2 DEF SoundRun, Committing
  <2>2. Moved(IF f = "tar" THEN "tar_out" ELSE "sha_out")
    BY <1>2, CommitNewDoes
  <2>3. /\ lag' = lag \cup {disk'} /\ disk'.top.pair = [pair EXCEPT ![f] = staging[f]]
        /\ disk'.box.staging = [staging EXCEPT ![f] = NoFile]
        /\ disk'.box.old = old /\ disk'.box.journal = journal
    BY <1>2, CommitNewDoes DEF SameRecord, journal
  <2>4. staging[f] \in Known
    BY <1>b, <1>n, SoundMakesKnown DEF journal, staging
  <2>5. SoundBox(disk'.box)
    BY <1>b, <1>t, <2>3 DEF SoundBox, old, staging, journal, Pair
  <2>6. \A g \in Part : disk'.top.pair[g] \in Known
    BY <1>t, <2>1, <2>3, <2>4 DEF Pair
  <2>7. SoundDisks'
    BY <1>h, <2>2, <2>3, <2>5, <2>6, KnownIsNotOdd, SoundChange DEF Moved
  <2>8. SoundRun'
    BY <1>p, <2>2, <2>3, <2>6, SoundGoesOn DEF Moved, Journalled, Committing
  <2>9. QED BY <2>1, <2>7, <2>8, KnownIsNotOdd
<1>3. ASSUME NEW f \in Part, RemoveOld(f) PROVE SoundDisks' /\ SoundRun' /\ \A g \in Part : pair[g] = Odd => disk'.top.pair[g] = Odd
  <2>2. Moved(IF f = "tar" THEN "rm_old_sha" ELSE "old_txn")
    BY <1>3, RemoveOldDoes
  <2>3. /\ lag' = lag \cup {disk'} /\ disk'.top = disk.top
        /\ disk'.box.old = [old EXCEPT ![f] = NoFile]
        /\ disk'.box.staging = staging /\ disk'.box.journal = journal
    BY <1>3, RemoveOldDoes DEF SameRecord, journal
  <2>5. SoundBox(disk'.box)
    BY <1>b, <1>t, <2>3, KnownIsNotOdd DEF SoundBox, old, staging, journal, Pair
  <2>7. SoundDisks'
    BY <1>h, <2>2, <2>3, <2>5, SoundChange DEF Moved, pair
  <2>8. SoundRun'
    BY <1>p, <2>2, <2>3, SoundGoesOn DEF Moved, Journalled, Committing, RollingBack
  <2>9. QED BY <2>3, <2>7, <2>8 DEF pair
<1>4. ASSUME RemoveJournal PROVE SoundDisks' /\ SoundRun' /\ \A g \in Part : pair[g] = Odd => disk'.top.pair[g] = Odd
  <2>1. /\ lag' = lag \cup {disk'} /\ disk'.top = disk.top /\ Moved("rmtree")
        /\ disk'.box.old = old /\ disk'.box.journal = NoJournal
    BY <1>4, RemoveJournalDoes
  <2>2. SoundBox(disk'.box)
    BY <1>b, <2>1, EmptyIs DEF SoundBox, old
  <2>3. SoundDisks'
    BY <2>1, <2>2, SoundChange DEF Moved, pair
  <2>4. QED BY <2>1, <2>3, SoundEnded DEF pair, Moved
<1>5. ASSUME NEW f \in Part, RemoveNew(f), pc \in {"rm_tar", "rm_sha"} PROVE SoundDisks' /\ SoundRun' /\ \A g \in Part : pair[g] = Odd => disk'.top.pair[g] = Odd
  <2>1. \A g \in Part : pair[g] \in Known
    BY <1>5 DEF SoundRun, RollingBack
  <2>2. Moved(IF f = "tar" THEN "rm_sha" ELSE "restore_tar")
    BY <1>5, RemoveNewDoes
  <2>3. CASE Class(disk, f) = "new"
    <3>1. /\ lag' = lag \cup {disk'} /\ disk'.top.pair = [pair EXCEPT ![f] = NoFile]
          /\ disk'.box = disk.box
      BY <1>5, <2>3, RemoveNewDoes
    <3>2. \A g \in Part : disk'.top.pair[g] \in Known
      BY <1>t, <2>1, <3>1, KnownIsNotOdd DEF Pair
    <3>3. SoundDisks'
      BY <1>b, <1>h, <2>2, <3>1, <3>2, KnownIsNotOdd, SoundChange DEF Moved
    <3>4. SoundRun'
      BY <1>p, <2>2, <3>1, <3>2, SoundGoesOn DEF Moved, Journalled, RollingBack, journal
    <3>5. QED BY <2>1, <3>3, <3>4, KnownIsNotOdd
  <2>4. CASE Class(disk, f) # "new"
    <3>1. Keep
      BY <1>5, <2>4, RemoveNewDoes DEF Keep
    <3>2. SoundDisks'
      BY <2>2, <3>1, SoundKept DEF Moved
    <3>3. SoundRun'
      BY <1>p, <2>1, <2>2, <3>1, SoundGoesOn DEF Moved, Journalled, RollingBack, Keep, journal, pair
    <3>4. QED BY <3>1, <3>2, <3>3 DEF Keep, pair
  <2> QED BY <2>3, <2>4
<1>6. ASSUME NEW f \in Part, RestoreOld(f), pc \in {"restore_tar", "restore_sha"} PROVE SoundDisks' /\ SoundRun' /\ \A g \in Part : pair[g] = Odd => disk'.top.pair[g] = Odd
  <2>1. \A g \in Part : pair[g] \in Known
    BY <1>6 DEF SoundRun, RollingBack
  <2>3. CASE old[f] # NoFile
    <3>1. /\ lag' = lag \cup {disk'} /\ disk'.top.pair = [pair EXCEPT ![f] = old[f]]
          /\ disk'.box.old = [old EXCEPT ![f] = NoFile]
          /\ disk'.box.staging = staging /\ disk'.box.journal = journal
          /\ Moved(IF f = "tar" THEN "back_tar_out" ELSE "back_sha_out")
      BY <1>6, <2>3, RestoreOldDoes DEF SameRecord, journal
    <3>2. old[f] \in Known
      BY <1>b, SoundMakesKnown DEF old
    <3>3. SoundBox(disk'.box)
      BY <1>b, <1>t, <3>1, KnownIsNotOdd DEF SoundBox, old, staging, journal, Pair
    <3>4. \A g \in Part : disk'.top.pair[g] \in Known
      BY <1>t, <2>1, <3>1, <3>2 DEF Pair
    <3>5. SoundDisks'
      BY <1>h, <3>1, <3>3, <3>4, KnownIsNotOdd, SoundChange DEF Moved
    <3>6. SoundRun'
      BY <1>p, <3>1, <3>4, SoundGoesOn DEF Moved, Journalled, RollingBack
    <3>7. QED BY <2>1, <3>5, <3>6, KnownIsNotOdd
  <2>4. CASE old[f] = NoFile
    <3>1. Keep /\ Moved(IF f = "tar" THEN "restore_sha" ELSE "rolled")
      BY <1>6, <2>4, RestoreOldDoes DEF Keep
    <3>2. SoundDisks'
      BY <3>1, SoundKept DEF Moved
    <3>3. SoundRun'
      BY <1>p, <2>1, <3>1, SoundGoesOn DEF Moved, Journalled, RollingBack, Keep, journal, pair
    <3>4. QED BY <3>1, <3>2, <3>3 DEF Keep, pair
  <2> QED BY <2>3, <2>4
<1> QED BY <1>1, <1>2, <1>3, <1>4, <1>5, <1>6 DEF Move, Part

LEMMA SoundInit == Init => Sound
<1> SUFFICES ASSUME Init PROVE Sound
  OBVIOUS
<1>1. PICK g \in Gens \cup {NoFile} :
        disk = [top |-> [pair |-> [f \in Part |-> g], dir |-> "none"], box |-> Empty]
  BY DEF Init
<1>2. disk.box = Empty /\ \A f \in Part : pair[f] = g
  BY <1>1 DEF pair
<1>3. lag = {disk} /\ hard = TRUE /\ pc = "idle"
  BY DEF Init
<1>4. SoundDisks
  BY <1>2, <1>3, SoundEmpty, GensAssumption DEF SoundDisks
<1>5. SoundRun
  BY <1>3 DEF SoundRun, Journalled, Committing, RollingBack, Preparing
<1> QED BY <1>4, <1>5, SoundIs

\* What a scan has accepted the run may move.
LEMMA ScanSound ==
  ASSUME TypeOK, SoundDisks, SoundRun, Scan
  PROVE  SoundRun'
<1>1. /\ pc = "scan" /\ Accepts(disk) /\ pc' = Resume /\ new' = journal.gen /\ disk' = disk
  BY DEF Scan, Keep
<1>2. dir \in {"none", "txn"} /\ journal.state \in States
  <2>1. dir \in {"none", "txn", "tomb"} /\ journal.state \in States
    BY DiskFields DEF TypeOK, dir, journal
  <2>2. QED BY <1>1, <2>1 DEF SoundRun
<1>3. CASE dir = "none" \/ journal.state = "none"
  <2>1. Resume \in {"fresh", "discard"}
    BY <1>3 DEF Resume
  <2>2. QED BY <1>1, <2>1, SoundEnded
<1>4. CASE dir = "txn" /\ journal.state # "none"
  <2>1. pc' \in {"backup_tar", "p_tarball", "commit_tar", "p_sha", "commit_sha", "check", "rm_old_tar", "roll"}
    BY <1>1, <1>2, <1>4 DEF Resume, States
  <2>2. Facts(disk)
    BY <1>1, <1>4 DEF Accepts, dir, journal
  <2>3. journal.gen \in Known /\ journal.plan \in Known
    BY <1>4, SoundMakesKnown DEF SoundDisks, journal, Part
  <2>4. \A f \in Part : pair[f] \in Known
    <3>1. \A f \in Part : Class(disk, f) # "unknown"
      BY <2>2 DEF Facts
    <3>2. QED BY <2>3, <3>1, KnownIsNotOdd DEF Class, pair, journal
  <2>5. QED BY <1>1, <1>4, <2>1, <2>4
            DEF SoundRun, Journalled, Committing, RollingBack, Preparing, journal, pair
<1> QED BY <1>2, <1>3, <1>4

\* The journal that follows another one, or the first one.
LEMMA RecordSound ==
  ASSUME TypeOK, SoundDisks, SoundRun, pc \in DOMAIN Persisting,
         disk'.box.journal = Record(Persisting[pc][1]), disk'.box.old = old,
         disk'.box.staging = staging
  PROVE  /\ hard /\ SoundBox(disk'.box) /\ disk'.box.journal.gen = new
         /\ disk'.box.journal.state \in States \ {"none"}
<1>b. SoundBox(disk.box)
  BY DEF SoundDisks
<1>s. Persisting[pc][1] \in States \ {"none"} /\ (Persisting[pc][1] = "staged" => pc = "p_staged")
  BY PersistingIs DEF States
<1>r. LET r == disk'.box.journal
      IN  /\ r.state = Persisting[pc][1] /\ r.gen = new
          /\ r.plan = IF r.state = "staged" THEN pair["tar"] ELSE journal.plan
  BY <1>s, RecordIs
<1>1. CASE pc = "p_staged"
  <2>1. /\ hard /\ new \in Gens /\ pair["tar"] \in Known /\ pair["tar"] # new
        /\ \A f \in Part : staging[f] \in {NoFile, new}
    BY <1>1 DEF SoundRun, Preparing, Part
  <2>2. Persisting[pc][1] = "staged"
    BY <1>1, PersistingIs
  <2>3. SoundBox(disk'.box)
    BY <1>b, <1>s, <1>r, <2>1, <2>2 DEF SoundBox, old
  <2>4. QED BY <1>s, <1>r, <2>1, <2>3
<1>2. CASE pc # "p_staged"
  <2>1. pc \in Journalled
    BY <1>2, PersistingIs DEF Journalled, Committing
  <2>2. journal.state # "none" /\ new = journal.gen
    BY <2>1 DEF SoundRun
  <2>3. hard
    BY <2>2, HardWithJournal
  <2>4. Persisting[pc][1] # "staged"
    BY <1>2, <1>s
  <2>5. SoundBox(disk'.box)
    BY <1>b, <1>s, <1>r, <2>2, <2>4 DEF SoundBox, old, staging, journal
  <2>6. QED BY <1>s, <1>r, <2>3, <2>5
<1> QED BY <1>1, <1>2

LEMMA PersistSound ==
  ASSUME TypeOK, SoundDisks, SoundRun, Persist
  PROVE  SoundDisks' /\ SoundRun' /\ disk'.top = disk.top
<1>0. /\ pc \in DOMAIN Persisting /\ Moved(Persisting[pc][2]) /\ disk'.top = disk.top
      /\ disk'.box.old = old /\ disk'.box.staging = staging /\ disk' \in Disk
      /\ disk'.box.journal = Record(Persisting[pc][1])
  BY PersistDoes
<1>1. /\ hard /\ SoundBox(disk'.box) /\ disk'.box.journal.gen = new
      /\ disk'.box.journal.state \in States \ {"none"}
  BY <1>0, RecordSound
<1>2. \A e \in lag' : /\ SoundBox(e.box)
                      /\ e = disk' \/ \E d \in lag : e.top = d.top
  <2>1. CASE mount = "ordered"
    BY <1>1, <2>1, PersistDoes
  <2>2. CASE mount # "ordered"
    <3>3. \A e \in lag' : \E d \in lag : e.top = d.top /\ e.box \in {Empty, disk'.box}
      BY <2>2, PersistDoes
    <3>4. QED BY <1>1, <3>3, SoundEmpty
  <2> QED BY <2>1, <2>2
<1>3. SoundDisks'
  BY <1>0, <1>1, <1>2 DEF SoundDisks, Moved, pair
<1>4. SoundRun'
  <2>1. Persisting[pc][2] \in {"backup_tar", "commit_tar", "commit_sha", "check", "rm_old_tar", "roll"}
    BY <1>0, PersistingIs
  <2>2. Persisting[pc][2] \in Committing => \A f \in Part : disk'.top.pair[f] \in Known
    <3>1. Persisting[pc][2] \in Committing => pc \in {"p_staged", "p_backed", "p_tarball"}
      BY <1>0, PersistingIs DEF Committing
    <3>2. pc \in {"p_staged", "p_backed", "p_tarball"} => \A f \in Part : pair[f] \in Known
      BY DEF SoundRun, Committing
    <3>3. QED BY <1>0, <3>1, <3>2 DEF pair
  <2>3. pc' = Persisting[pc][2] /\ new' = new
    BY <1>0 DEF Moved
  <2> HIDE DEF Persisting
  <2>4. QED BY <1>1, <2>1, <2>2, <2>3
            DEF SoundRun, Journalled, Committing, RollingBack, Preparing, pair, journal
<1> QED BY <1>0, <1>3, <1>4

LEMMA SyncSound ==
  ASSUME TypeOK, SoundDisks, SoundRun, Sync
  PROVE  SoundDisks' /\ SoundRun' /\ disk' = disk
<1>0. disk' = disk /\ hard' = hard
  BY SyncTopDoes, SyncBoxDoes DEF Sync, world
<1>1. \A e \in lag' : \E d \in lag \cup {disk}, t \in lag \cup {disk} : e.top = t.top /\ e.box \in {Empty, d.box}
  <2>1. CASE mount = "ordered"
    BY <2>1, SyncTopDoes, SyncBoxDoes DEF Sync
  <2>2. CASE mount # "ordered" /\ SyncTop
    <3>1. \A e \in lag' : \E d \in lag : e.top = disk.top /\ e.box \in {Empty, d.box}
      BY <2>2, SyncTopDoes
    <3>2. QED BY <3>1
  <2>3. CASE mount # "ordered" /\ SyncBox
    <3>1. \A e \in lag' : \E d \in lag : e.top = d.top /\ e.box \in {Empty, disk.box}
      BY <2>3, SyncBoxDoes
    <3>2. QED BY <3>1
  <2> QED BY <2>1, <2>2, <2>3 DEF Sync
<1>2. SoundDisks'
  <2>1. \A e \in lag' : SoundBox(e.box)
    BY <1>1, SoundEmpty DEF SoundDisks
  <2>2. ~hard => \A e \in lag' : e.box.journal = NoJournal
    BY <1>1, EmptyIs DEF SoundDisks
  <2>3. \A f \in Part : pair[f] = Odd => \A e \in lag' : e.top.pair[f] = Odd
    BY <1>1 DEF SoundDisks, pair
  <2>4. QED BY <1>0, <2>1, <2>2, <2>3 DEF SoundDisks, pair
<1>3. SoundRun'
  <2>1. CASE pc \in DOMAIN SyncingTop /\ SyncingTop[pc] \in Exits /\ End(SyncingTop[pc])
    BY <2>1, SoundEnded DEF End
  <2>2. CASE pc \in DOMAIN SyncingTop /\ SyncingTop[pc] \notin Exits /\ Goto(SyncingTop[pc])
    <3>1. CASE pc = "tomb_out"
      BY <2>2, <3>1, SyncingTopIs, SoundEnded DEF Goto
    <3>2. CASE pc # "tomb_out"
      <4>1. pc \in {"backup_out", "tar_out", "sha_out", "back_tar_out", "back_sha_out"}
        BY <2>2, <3>2, SyncingTopIs DEF Exits
      <4>2. /\ pc \in Journalled /\ pc \in Committing \cup RollingBack /\ SyncingTop[pc] \in Journalled
        BY <4>1, SyncingTopIs DEF Journalled, Committing, RollingBack
      <4>3. \A f \in Part : pair[f] \in Known
        BY <4>2 DEF SoundRun
      <4>4. pc' = SyncingTop[pc] /\ new' = new
        BY <2>2 DEF Goto
      <4>5. QED BY <1>0, <4>2, <4>3, <4>4, SoundGoesOn DEF journal, pair
    <3> QED BY <3>1, <3>2
  <2>3. CASE pc \in DOMAIN SyncingBox /\ Goto(SyncingBox[pc])
    <3>1. pc \in {"backup_txn", "back_tar_txn", "back_sha_txn", "old_txn"}
      BY <2>3, SyncingBoxIs
    <3>2. /\ pc \in Journalled /\ SyncingBox[pc] \in Journalled
          /\ SyncingBox[pc] \in Committing \cup RollingBack => pc \in Committing \cup RollingBack
      BY <3>1, SyncingBoxIs DEF Journalled, Committing, RollingBack
    <3>3. pc \in Committing \cup RollingBack => \A f \in Part : pair[f] \in Known
      BY DEF SoundRun
    <3>4. pc' = SyncingBox[pc] /\ new' = new
      BY <2>3 DEF Goto
    <3>5. QED BY <1>0, <3>2, <3>3, <3>4, SoundGoesOn DEF journal, pair
  <2> QED BY <2>1, <2>2, <2>3 DEF Sync
<1> QED BY <1>0, <1>2, <1>3

LEMMA RmtreeSound ==
  ASSUME TypeOK, SoundDisks, SoundRun, Rmtree
  PROVE  SoundDisks' /\ SoundRun' /\ disk'.top.pair = pair
<1>0. /\ pc \in DOMAIN Removing /\ hard' = hard /\ lag' = lag \cup {disk'} /\ disk'.top.pair = pair
      /\ disk' \in Disk
  BY RmtreeDoes
<1>b. SoundBox(disk.box) /\ (~hard => journal = NoJournal)
  BY DEF SoundDisks, journal
<1>1. SoundBox(disk'.box) /\ (disk'.box.journal \in {journal, NoJournal})
  <2>1. CASE disk'.box = Empty
    BY <2>1, EmptyIs, SoundEmpty
  <2>2. CASE disk'.box.old = old /\ disk'.box.staging = NoPair /\ disk'.box.journal = journal
    BY <1>b, <2>2, EmptyIs DEF SoundBox, old, journal
  <2>3. CASE disk'.box.old = old /\ disk'.box.journal = NoJournal
    BY <1>b, <2>3, EmptyIs DEF SoundBox, old, journal
  <2> QED BY <2>1, <2>2, <2>3, RmtreeDoes
<1>2. SoundDisks'
  BY <1>0, <1>b, <1>1, SoundChange
<1>3. pc' \in {"tomb", "discard", "fresh", "rmtree", "done_out", "bury_out", "bury"}
      \/ (pc' = "scan" /\ disk'.top.dir = "none")
  BY <1>0, RmtreeDoes, RemovingIs
<1>4. SoundRun'
  BY <1>3, SoundEnded DEF SoundRun, Journalled, Committing, RollingBack, Preparing, dir
<1> QED BY <1>0, <1>2, <1>4

\* What the other operations leave: the disks sound, the run where its phase says,
\* and nothing unknown touched.
StillSound == SoundDisks' /\ SoundRun'
OddKept == \A f \in Part : pair[f] = Odd => disk'.top.pair[f] = Odd

LEMMA BuildSound ==
  ASSUME TypeOK, SoundDisks, SoundRun, Build
  PROVE  StillSound /\ OddKept
<1>1. /\ pc = "build" /\ pc' = "compare" /\ hard' = FALSE
      /\ new' \in Gens /\ lag' = lag \cup {disk'}
      /\ disk'.top = disk.top /\ disk'.box.old = old /\ disk'.box.journal = journal
      /\ \A f \in Part : disk'.box.staging[f] = new'
  BY BuildDoes
<1>2. \A d \in lag \cup {disk} : d.top = disk.top /\ d.box.journal = NoJournal
  BY <1>1 DEF SoundRun
<1>3. SoundBox(disk'.box) /\ disk'.box.journal = NoJournal
  BY <1>1, <1>2, EmptyIs DEF SoundDisks, SoundBox, old, journal
<1>4. SoundDisks'
  BY <1>1, <1>2, <1>3 DEF SoundDisks, pair
<1>5. SoundRun'
  BY <1>1, <1>2, <1>3 DEF SoundRun, Journalled, Committing, RollingBack, Preparing, staging
<1> QED BY <1>1, <1>4, <1>5 DEF StillSound, OddKept, pair

LEMMA CompareSound ==
  ASSUME TypeOK, SoundDisks, SoundRun, Compare \/ SyncStaging
  PROVE  StillSound /\ OddKept
<1>1. Keep /\ (hard' = hard \/ hard' = TRUE) /\ new' = new
  BY DEF Compare, SyncStaging, Goto, world
<1>2. SoundDisks'
  BY <1>1, SoundKept
<1>3. /\ \A d \in lag \cup {disk} : d.top = disk.top /\ d.box.journal = NoJournal
      /\ new \in Gens /\ \A f \in Part : staging[f] \in {NoFile, new}
  BY DEF Compare, SyncStaging, SoundRun, Preparing
<1>4. CASE Compare
  <2>1. PairOk(disk) /\ pc' = IF pair["tar"] = new THEN "noop" ELSE "sync_staging"
    BY <1>4 DEF Compare, Goto
  <2>2. \A f \in Part : pair[f] \in Known /\ pair[f] = pair["tar"]
    BY <2>1, EmptyIs DEF PairOk, Whole, pair, Known, Part
  <2>3. pair["tar"] # new => \A f \in Part : pair[f] # new
    BY <2>2
  <2>4. SoundRun'
    BY <1>1, <1>3, <2>1, <2>2, <2>3
       DEF SoundRun, Journalled, Committing, RollingBack, Preparing, Keep, pair, staging
  <2>5. QED BY <1>1, <1>2, <2>4 DEF StillSound, OddKept, Keep, pair
<1>5. CASE SyncStaging
  <2>1. pc = "sync_staging" /\ pc' = "p_staged" /\ hard'
    BY <1>5 DEF SyncStaging, Goto
  <2>2. \A f \in Part : pair[f] \in Known /\ pair[f] = pair["tar"] /\ pair[f] # new
    BY <2>1 DEF SoundRun
  <2>4. SoundRun'
    BY <1>1, <1>3, <2>1, <2>2
       DEF SoundRun, Journalled, Committing, RollingBack, Preparing, Keep, pair, staging
  <2>5. QED BY <1>1, <1>2, <2>4 DEF StillSound, OddKept, Keep, pair
<1> QED BY <1>4, <1>5

LEMMA RollSound ==
  ASSUME TypeOK, SoundDisks, SoundRun, Roll \/ Rolled
  PROVE  StillSound /\ OddKept
<1>1. Keep /\ hard' = hard /\ new' = new /\ pc \in Journalled
  BY DEF Roll, Rolled, Goto, world, Journalled
<1>2. SoundDisks'
  BY <1>1, SoundKept
<1>3. CASE Rolled
  <2>1. pc' = "entomb"
    BY <1>3 DEF Rolled, Goto
  <2>2. SoundRun'
    BY <1>1, <2>1, SoundGoesOn DEF Journalled, Committing, RollingBack, Keep, journal
  <2>3. QED BY <1>1, <1>2, <2>2 DEF StillSound, OddKept, Keep, pair
<1>4. CASE Roll
  <2>1. pc' = "rm_tar" /\ \A f \in Part : Class(disk, f) # "unknown"
    BY <1>4 DEF Roll, Goto
  <2>2. journal.state # "none"
    BY <1>1 DEF SoundRun
  <2>3. journal.gen \in Known /\ journal.plan \in Known
    BY <2>2, SoundMakesKnown DEF SoundDisks, journal, Part
  <2>4. \A f \in Part : pair[f] \in Known
    BY <2>1, <2>3, KnownIsNotOdd DEF Class, pair, journal
  <2>5. SoundRun'
    BY <1>1, <2>1, <2>4, SoundGoesOn DEF Journalled, RollingBack, Keep, journal, pair
  <2>6. QED BY <1>1, <1>2, <2>5 DEF StillSound, OddKept, Keep, pair
<1> QED BY <1>3, <1>4

LEMMA RunSound ==
  ASSUME TypeOK, SoundDisks, SoundRun, Run
  PROVE  StillSound /\ OddKept
<1>1. CASE Scan
  <2>1. Keep /\ hard' = hard
    BY <1>1 DEF Scan, world
  <2>2. QED BY <1>1, <2>1, SoundKept, ScanSound DEF StillSound, OddKept, Keep, pair
<1>2. CASE Refuse
  <2>1. Keep /\ hard' = hard /\ pc' = "idle"
    BY <1>2 DEF Refuse, End, world
  <2>2. QED BY <2>1, SoundKept, SoundEnded DEF StillSound, OddKept, Keep, pair
<1>3. CASE MakeTxn
  <2>1. /\ lag' = {disk'} /\ hard' = hard /\ pc' = "build" /\ new' = new
        /\ disk'.top.pair = pair /\ disk'.top.dir = "txn" /\ disk'.box = Empty
    BY <1>3, MakeTxnDoes DEF Moved
  <2>2. SoundDisks'
    BY <2>1, SoundEmpty, EmptyIs DEF SoundDisks, pair
  <2>3. SoundRun'
    BY <2>1, EmptyIs DEF SoundRun, Journalled, Committing, RollingBack, Preparing
  <2>4. QED BY <2>1, <2>2, <2>3 DEF StillSound, OddKept, pair
<1>4. CASE Build
  BY <1>4, BuildSound
<1>5. CASE Compare \/ SyncStaging
  BY <1>5, CompareSound
<1>6. CASE NoOp
  <2>1. /\ lag' = lag \cup {disk'} /\ hard' = hard /\ pc' = "idle" /\ disk'.top = disk.top
        /\ disk'.box.old = old /\ disk'.box.staging = NoPair /\ disk'.box.journal = journal
    BY <1>6, NoOpDoes DEF Ended
  <2>2. SoundBox(disk.box) /\ (~hard => journal = NoJournal)
    BY DEF SoundDisks, journal
  <2>3. SoundBox(disk'.box)
    BY <2>1, <2>2, EmptyIs DEF SoundBox, old, journal
  <2>4. SoundDisks'
    BY <2>1, <2>2, <2>3, SoundChange DEF pair
  <2>5. QED BY <2>1, <2>4, SoundEnded DEF StillSound, OddKept, pair
<1>7. CASE Persist
  BY <1>7, PersistSound DEF StillSound, OddKept, pair
<1>8. CASE Sync
  BY <1>8, SyncSound DEF StillSound, OddKept, pair
<1>9. CASE Rmtree
  BY <1>9, RmtreeSound DEF StillSound, OddKept
<1>10. CASE Move
  BY <1>10, MoveSound DEF StillSound, OddKept
<1>11. CASE SelfCheck
  <2>1. Keep /\ hard' = hard /\ new' = new /\ pc' \in {"p_verified", "p_rolling"} /\ pc = "check"
    BY <1>11 DEF SelfCheck, Goto, world
  <2>2. SoundDisks'
    BY <2>1, SoundKept
  <2>3. SoundRun'
    BY <2>1 DEF SoundRun, Journalled, Committing, RollingBack, Preparing, Keep, journal
  <2>4. QED BY <2>1, <2>2, <2>3 DEF StillSound, OddKept, Keep, pair
<1>12. CASE Roll \/ Rolled
  BY <1>12, RollSound
<1>13. CASE Entomb
  <2>1. /\ lag' = lag \cup {disk'} /\ hard' = hard /\ pc' = "tomb_out"
        /\ disk'.top.pair = pair /\ disk'.box = disk.box
    BY <1>13, EntombDoes DEF Moved
  <2>2. SoundDisks'
    BY <2>1, SoundChange DEF SoundDisks
  <2>3. QED BY <2>1, <2>2, SoundEnded DEF StillSound, OddKept
<1> QED BY <1>1, <1>2, <1>3, <1>4, <1>5, <1>6, <1>7, <1>8, <1>9, <1>10, <1>11, <1>12, <1>13 DEF Run

\* Tearing what was not fsynced does not touch a journal, for there is none.
LEMMA TearSound ==
  ASSUME NEW d \in Disk, SoundBox(d.box), ~hard => d.box.journal = NoJournal
  PROVE  SoundBox(Tear(d).box) /\ Tear(d).box.journal = d.box.journal
<1>1. CASE hard
  BY <1>1, TearIs
<1>2. CASE ~hard
  <2>1. Tear(d).box.journal = NoJournal /\ Tear(d).box.old = d.box.old
    BY <1>2, TearIs
  <2>2. QED BY <1>2, <2>1, EmptyIs DEF SoundBox
<1> QED BY <1>1, <1>2

LEMMA PowerLossSound ==
  ASSUME TypeOK, SoundDisks, SoundRun, PowerLoss
  PROVE  StillSound /\ OddKept
<1>1. /\ pc' = "idle" /\ hard' = TRUE /\ lag' = {disk'} /\ disk' \in Survivors
  BY PowerLossDoes DEF Ended
<1>2. \E d \in Disk : \E a, b \in lag :
        disk' = Tear(d) /\ d.top = a.top /\ d.box \in {Empty, b.box}
  <2>1. CASE mount = "ordered"
    <3>1. PICK d \in lag : disk' = Tear(d)
      BY <1>1, <2>1, SurvivorsAreDisks
    <3>2. d \in Disk
      BY DEF TypeOK
    <3>3. QED BY <3>1, <3>2
  <2>2. CASE mount # "ordered"
    <3>1. PICK a \in lag, b \in lag : \E d \in Disk :
            d = Norm([top |-> a.top, box |-> b.box]) /\ disk' = Tear(d)
      BY <1>1, <2>2, SurvivorsAreDisks
    <3>2. PICK d \in Disk : d = Norm([top |-> a.top, box |-> b.box]) /\ disk' = Tear(d)
      BY <3>1
    <3>3. a \in Disk /\ b \in Disk
      BY DEF TypeOK
    <3> DEFINE c == [top |-> a.top, box |-> b.box]
    <3>4. c \in Disk /\ c.top = a.top /\ c.box = b.box /\ d = Norm(c)
      BY <3>2, <3>3, DiskFields DEF Disk
    <3> HIDE DEF c
    <3>5. d.top = a.top /\ d.box \in {Empty, b.box}
      BY <3>4, NormIs
    <3>6. QED BY <3>2, <3>5
  <2> QED BY <2>1, <2>2
<1>3. PICK d \in Disk, a \in lag, b \in lag :
        disk' = Tear(d) /\ d.top = a.top /\ d.box \in {Empty, b.box}
  BY <1>2
<1>4. SoundBox(d.box) /\ (~hard => d.box.journal = NoJournal)
  BY <1>3, SoundEmpty, EmptyIs DEF SoundDisks
<1>5. SoundBox(disk'.box) /\ disk'.top = a.top
  BY <1>3, <1>4, TearSound, TearIs
<1>6. SoundDisks'
  BY <1>1, <1>5 DEF SoundDisks, pair
<1>7. OddKept
  BY <1>5 DEF SoundDisks, OddKept
<1> QED BY <1>1, <1>6, <1>7, SoundEnded DEF StillSound

LEMMA DamageSound ==
  ASSUME TypeOK, SoundDisks, SoundRun, NEW f \in Part, Damage(f)
  PROVE  StillSound /\ OddKept
<1>1. /\ pc \in {"idle", "check"} /\ UNCHANGED <<pc, new, hard>>
      /\ disk'.top.pair = [pair EXCEPT ![f] = Odd] /\ disk'.box = disk.box
      /\ \A e \in lag' : \E d \in lag : e.top.pair = [d.top.pair EXCEPT ![f] = Odd] /\ e.box = d.box
  BY DamageDoes
<1>2. pair \in Pair /\ \A d \in lag : d.top.pair \in Pair
  BY DiskFields DEF TypeOK, pair
<1>3. \A g \in Part : disk'.top.pair[g] = Odd => \A e \in lag' : e.top.pair[g] = Odd
  <2> SUFFICES ASSUME NEW g \in Part, disk'.top.pair[g] = Odd, NEW e \in lag' PROVE e.top.pair[g] = Odd
    OBVIOUS
  <2>1. PICK d \in lag : e.top.pair = [d.top.pair EXCEPT ![f] = Odd]
    BY <1>1
  <2>2. g # f => d.top.pair[g] = Odd
    BY <1>1, <1>2 DEF SoundDisks, Pair
  <2>3. QED BY <1>2, <2>1, <2>2 DEF Pair
<1>4. SoundDisks'
  <2>1. ASSUME NEW e \in lag' PROVE SoundBox(e.box) /\ (~hard => e.box.journal = NoJournal)
    <3>1. PICK d \in lag : e.box = d.box
      BY <1>1
    <3>2. QED BY <3>1 DEF SoundDisks
  <2>2. QED BY <1>1, <1>3, <2>1 DEF SoundDisks, pair
<1>5. SoundRun'
  BY <1>1 DEF SoundRun, Journalled, Committing, RollingBack, Preparing, journal
<1>6. OddKept
  BY <1>1, <1>2 DEF OddKept, Pair
<1> QED BY <1>4, <1>5, <1>6 DEF StillSound

LEMMA SoundNext == TypeOK /\ Sound /\ [Next]_vars => Sound' /\ OddKept
<1> SUFFICES ASSUME TypeOK, Sound, [Next]_vars PROVE Sound' /\ OddKept
  OBVIOUS
<1>s. SoundDisks /\ SoundRun
  BY SoundIs
<1>1. CASE Start
  <2>1. Keep /\ hard' = hard /\ pc' = IF dir = "tomb" THEN "tomb" ELSE "scan"
    BY <1>1 DEF Start
  <2>2. SoundRun'
    BY <2>1 DEF SoundRun, Journalled, Committing, RollingBack, Preparing, Keep, dir
  <2>3. QED BY <1>s, <2>1, <2>2, SoundKept, SoundIs DEF OddKept, Keep, pair, Sound, SoundDisks, SoundRun
<1>2. ASSUME StillSound /\ OddKept PROVE Sound' /\ OddKept
  BY <1>2 DEF StillSound, Sound, SoundDisks, SoundRun
<1>3. CASE Run
  BY <1>s, <1>2, <1>3, RunSound
<1>4. CASE PersistFails
  <2>1. /\ pc \in DOMAIN Persisting /\ disk'.top = disk.top /\ lag' = lag \cup {disk'}
        /\ disk'.box.old = old /\ disk'.box.staging = staging /\ hard' = hard /\ pc' = "idle"
        /\ disk'.box.journal = Record(Persisting[pc][1])
    BY <1>4, PersistFailsDoes DEF Ended
  <2>2. hard /\ SoundBox(disk'.box)
    BY <1>s, <2>1, RecordSound
  <2>3. SoundDisks'
    BY <1>s, <2>1, <2>2, SoundChange DEF pair
  <2>4. QED BY <1>2, <2>1, <2>3, SoundEnded DEF StillSound, OddKept, pair
<1>5. CASE Stop
  <2>1. Keep /\ hard' = hard /\ pc' = "idle"
    BY <1>5 DEF Stop, End, world
  <2>2. QED BY <1>s, <1>2, <2>1, SoundKept, SoundEnded DEF StillSound, OddKept, Keep, pair
<1>6. CASE PowerLoss
  BY <1>s, <1>2, <1>6, PowerLossSound
<1>7. ASSUME NEW f \in Part, Damage(f) PROVE Sound' /\ OddKept
  BY <1>s, <1>2, <1>7, DamageSound
<1>8. CASE UNCHANGED vars
  BY <1>8 DEF vars, Sound, OddKept, pair, journal, staging, dir
<1> QED BY <1>1, <1>3, <1>4, <1>5, <1>6, <1>7, <1>8 DEF Next

\* Whatever the snapshots, the failures, the power losses and the damage: content that
\* belongs to no snapshot stays where it is.  The run moves a file only while both are
\* known, and no backup or journalled staging directory holds anything else.
THEOREM UnknownIsNeverTouched == Spec => UnknownIsKept
<1>1. TypeOK /\ Sound /\ [Next]_vars => [\A f \in Part : pair[f] = Odd => disk'.top.pair[f] = Odd]_vars
  BY SoundNext DEF OddKept
<1>2. TypeOK /\ Sound /\ [Next]_vars => Sound'
  BY SoundNext
<1>3. Init => TypeOK /\ Sound
  BY TypeInit, SoundInit
<1> QED BY <1>1, <1>2, <1>3, TypeNext, PTL DEF Spec, UnknownIsKept

(***************************************************************************)
(* The disk of the run: good, where its phase says, and what stood is its  *)
(* base.                                                                   *)
(***************************************************************************)
Local ==
  /\ Good(disk) /\ AtPhase
  /\ pc \notin {"idle", "rmtree", "done_out"} => stood = Base(disk)
  /\ stood # NoFile => Stands(disk, stood)

LEMMA JournalFacts ==
  ASSUME Sound, journal.state # "none"
  PROVE  /\ journal.gen \in Gens /\ journal.gen # NoFile /\ journal.gen # Odd
         /\ journal.plan # journal.gen /\ journal.plan \in Known
         /\ \A f \in Part : staging[f] \in {NoFile, journal.gen}
BY GensAssumption DEF Sound, SoundBox, journal, staging, Known

LEMMA PairIs ==
  ASSUME NEW p \in Pair
  PROVE  p = NoPair <=> p["tar"] = NoFile /\ p["sha"] = NoFile
BY DEF Pair, NoPair, Part

LEMMA PairOkIs ==
  ASSUME NEW d \in Disk
  PROVE  /\ PairOk(d) <=> Whole(d) \/ (d.top.pair["tar"] = NoFile /\ d.top.pair["sha"] = NoFile)
         /\ Whole(d) <=> d.top.pair["tar"] \in Gens /\ d.top.pair["sha"] = d.top.pair["tar"]
BY PairIs, DiskFields DEF PairOk, Whole, Part

\* A run that goes on keeps what stood as its base, or has a whole pair instead.
LEMMA BaseKept ==
  ASSUME Local, pc # "idle", stood' = stood,
         pc \in {"rmtree", "done_out", "rm_journal"} => Whole(disk)', 
         pc \notin {"rmtree", "done_out", "rm_journal"} =>
           Base(disk)' = Base(disk) /\ pc' \notin {"rmtree", "done_out"},
         pc \in {"rmtree", "done_out", "rm_journal"} => pc' \in {"rmtree", "done_out", "idle"}
  PROVE  /\ pc' \notin {"idle", "rmtree", "done_out"} => stood' = Base(disk)'
         /\ stood' # NoFile => Stands(disk, stood)'
BY DEF Local, Stands

LEMMA LocalBackup ==
  ASSUME TypeOK, Sound, Local, NEW f \in Part,
         \/ pc = "backup_tar" /\ f = "tar"
         \/ pc = "backup_sha" /\ f = "sha",
         Backup(f)
  PROVE  Local'
<1>1. /\ In("staged") /\ pc' = IF f = "tar" THEN "backup_sha" ELSE "backup_txn"
      /\ (f = "sha" => Away(disk, "tar")) /\ stood' = stood
  BY BackupDoes DEF Local, AtPhase, Moved
<1>2. /\ journal.state = "staged" /\ dir = "txn" /\ HasJournal(disk) /\ disk.box.made /\ Progress(disk)
  BY <1>1 DEF In, HasJournal, Local, Good, dir, journal
<1>3. pair \in Pair /\ old \in Pair
  BY DiskFields DEF TypeOK, pair, old
<1>4. /\ disk'.top.dir = "txn" /\ disk'.box.journal = journal /\ disk'.box.staging = staging
      /\ disk'.box.made
      /\ \A g \in Part : g # f => disk'.top.pair[g] = pair[g] /\ disk'.box.old[g] = old[g]
      /\ Away(disk', f)
  <2>1. InPlace(disk, f) \/ Away(disk, f)
    BY <1>1, <1>2 DEF Progress, journal, Part
  <2>2. CASE pair[f] # NoFile /\ old[f] = NoFile
    BY <1>2, <1>3, <2>1, <2>2, BackupDoes DEF SameRecord, Away, InPlace, pair, old, dir, journal, Pair
  <2>3. CASE ~(pair[f] # NoFile /\ old[f] = NoFile)
    BY <1>2, <2>1, <2>3, BackupDoes DEF SameRecord, Away, InPlace, pair, old, dir, journal, staging
  <2> QED BY <2>2, <2>3
<1>5. Good(disk)'
  <2>1. Fingerprint(disk)'
    BY <1>2, <1>4 DEF Progress, Fingerprint, journal, staging
  <2>2. Progress(disk)'
    <3>1. CASE f = "tar"
      <4>1. InPlace(disk, "sha") \/ Away(disk, "sha")
        BY <1>2 DEF Progress, journal, Part
      <4>2. Away(disk, "tar")' /\ (InPlace(disk, "sha")' \/ Away(disk, "sha")')
        BY <1>4, <3>1, <4>1 DEF Away, InPlace, Part, pair, old, journal
      <4>3. QED BY <1>2, <1>4, <2>1, <4>2 DEF Progress, journal
    <3>2. CASE f = "sha"
      <4>1. Away(disk, "tar")' /\ Away(disk, "sha")'
        BY <1>1, <1>4, <3>2 DEF Away, Part, pair, old, journal
      <4>2. QED BY <1>2, <1>4, <2>1, <4>1 DEF Progress, journal
    <3> QED BY <3>1, <3>2 DEF Part
  <2>3. QED BY <1>2, <1>4, <2>2 DEF Good, HasJournal, journal
<1>6. AtPhase'
  <2>1. In("staged")'
    BY <1>2, <1>4 DEF In, dir, journal
  <2>2. f = "tar" => Away(disk, "tar")'
    BY <1>4
  <2>3. f = "sha" => BothAway'
    BY <1>1, <1>4 DEF BothAway, Away, Part, pair, old, journal
  <2>4. QED BY <1>1, <2>1, <2>2, <2>3 DEF AtPhase, Preparing, RollingBack
<1>7. Base(disk)' = Base(disk)
  BY <1>2, <1>4 DEF Base, HasJournal, journal, dir
<1> QED BY <1>1, <1>5, <1>6, <1>7, BaseKept DEF Local

LEMMA LocalCommitNew ==
  ASSUME TypeOK, Sound, Local, NEW f \in Part,
         \/ pc = "commit_tar" /\ f = "tar"
         \/ pc = "commit_sha" /\ f = "sha",
         CommitNew(f)
  PROVE  Local'
<1>1. /\ In(IF f = "tar" THEN "backed_up" ELSE "tarball_committed")
      /\ pc' = IF f = "tar" THEN "tar_out" ELSE "sha_out"
      /\ Away(disk, f) /\ stood' = stood
  BY CommitNewDoes DEF Local, AtPhase, Moved
<1>2. /\ journal.state = IF f = "tar" THEN "backed_up" ELSE "tarball_committed"
      /\ dir = "txn" /\ HasJournal(disk) /\ disk.box.made /\ Progress(disk)
  BY <1>1 DEF In, HasJournal, Local, Good, dir, journal
<1>3. pair \in Pair /\ old \in Pair
  BY DiskFields DEF TypeOK, pair, old
<1>4. staging[f] = journal.gen
  BY <1>2, JournalFacts, CommitNewDoes
<1>5. /\ disk'.top.dir = "txn" /\ disk'.box.journal = journal
      /\ disk'.box.made /\ disk'.box.old = old
      /\ \A g \in Part : g # f => disk'.top.pair[g] = pair[g]
      /\ Replaced(disk', f)
  BY <1>1, <1>2, <1>3, <1>4, CommitNewDoes DEF SameRecord, Replaced, Away, pair, old, dir, journal, Pair
<1>6. Progress(disk)'
  <2>1. CASE f = "tar"
    <3>1. Away(disk, "sha")'
      BY <1>2, <1>5, <2>1 DEF Progress, Away, Part, pair, old, journal
    <3>2. QED BY <1>2, <1>5, <2>1, <3>1 DEF Progress, journal
  <2>2. CASE f = "sha"
    <3>1. Replaced(disk, "tar")'
      BY <1>2, <1>5, <2>2 DEF Progress, Replaced, Part, pair, old, journal
    <3>2. QED BY <1>2, <1>5, <2>2, <3>1 DEF Progress, journal
  <2> QED BY <2>1, <2>2 DEF Part
<1>7. Good(disk)'
  BY <1>2, <1>5, <1>6 DEF Good, HasJournal, journal
<1>8. AtPhase'
  <2>1. In(IF f = "tar" THEN "backed_up" ELSE "tarball_committed")'
    BY <1>2, <1>5 DEF In, dir, journal
  <2>2. QED BY <1>1, <1>5, <2>1 DEF AtPhase, Preparing, RollingBack
<1>9. Base(disk)' = Base(disk)
  BY <1>2, <1>5 DEF Base, HasJournal, journal, dir
<1> QED BY <1>1, <1>7, <1>8, <1>9, BaseKept DEF Local

LEMMA LocalRemoveOld ==
  ASSUME TypeOK, Sound, Local, NEW f \in Part,
         \/ pc = "rm_old_tar" /\ f = "tar"
         \/ pc = "rm_old_sha" /\ f = "sha",
         RemoveOld(f)
  PROVE  Local'
<1>1. /\ In("verified") /\ pc' = IF f = "tar" THEN "rm_old_sha" ELSE "old_txn"
      /\ (f = "sha" => old["tar"] = NoFile) /\ stood' = stood
  BY RemoveOldDoes DEF Local, AtPhase, Moved
<1>2. /\ journal.state = "verified" /\ dir = "txn" /\ HasJournal(disk) /\ disk.box.made /\ Progress(disk)
  BY <1>1 DEF In, HasJournal, Local, Good, dir, journal
<1>3. old \in Pair
  BY DiskFields DEF TypeOK, old
<1>4. /\ disk'.top = disk.top /\ disk'.box.journal = journal /\ disk'.box.made
      /\ disk'.box.old[f] = NoFile
      /\ \A g \in Part : g # f => disk'.box.old[g] = old[g]
  BY <1>2, <1>3, RemoveOldDoes DEF SameRecord, journal, Pair
<1>5. Progress(disk)'
  <2>1. \A g \in Part : /\ disk'.top.pair[g] = journal.gen
                        /\ disk'.box.old[g] \in {NoFile, journal.plan}
    BY <1>2, <1>4 DEF Progress, journal, old
  <2>2. QED BY <1>2, <1>4, <2>1 DEF Progress, journal
<1>6. Good(disk)'
  BY <1>2, <1>4, <1>5 DEF Good, HasJournal, journal, dir
<1>7. AtPhase'
  <2>1. In("verified")'
    BY <1>2, <1>4 DEF In, dir, journal
  <2>2. disk'.box.old["tar"] = NoFile /\ (f = "sha" => disk'.box.old["sha"] = NoFile)
    BY <1>1, <1>4 DEF Part
  <2>3. QED BY <1>1, <2>1, <2>2 DEF AtPhase, Preparing, RollingBack, old
<1>8. Base(disk)' = Base(disk)
  BY <1>2, <1>4 DEF Base, HasJournal, journal, dir
<1> QED BY <1>1, <1>6, <1>7, <1>8, BaseKept DEF Local

LEMMA LocalRemoveJournal ==
  ASSUME TypeOK, Sound, Local, pc = "rm_journal", RemoveJournal
  PROVE  Local'
<1>1. In("verified") /\ old["tar"] = NoFile /\ old["sha"] = NoFile
  BY DEF Local, AtPhase
<1>2. /\ journal.state = "verified" /\ dir = "txn" /\ HasJournal(disk) /\ Progress(disk)
  BY <1>1 DEF In, HasJournal, Local, Good, dir, journal
<1>3. Whole(disk)
  BY <1>2, JournalFacts DEF Progress, Whole, journal
<1>4. old = NoPair
  BY <1>1, PairIs, DiskFields DEF TypeOK, old
<1>5. /\ disk'.top = disk.top /\ disk'.box.old = old /\ disk'.box.journal = NoJournal
      /\ pc' = "rmtree" /\ stood' = stood
  BY RemoveJournalDoes DEF Moved
<1>6. Whole(disk)'
  BY <1>3, <1>5 DEF Whole
<1>7. NoRecord'
  BY <1>2, <1>4, <1>5 DEF NoRecord, dir, journal, old
<1>8. Good(disk)'
  BY <1>6, <1>7, EmptyIs DEF Good, HasJournal, PairOk, NoRecord, dir, journal, old
<1>9. AtPhase'
  BY <1>5, <1>6, <1>7 DEF AtPhase, Preparing, RollingBack
<1> QED BY <1>5, <1>6, <1>8, <1>9, BaseKept DEF Local

LEMMA LocalRemoveNew ==
  ASSUME TypeOK, Sound, Local, NEW f \in Part,
         \/ pc = "rm_tar" /\ f = "tar"
         \/ pc = "rm_sha" /\ f = "sha",
         RemoveNew(f)
  PROVE  Local'
<1>1. /\ In("rolling_back") /\ pc' = IF f = "tar" THEN "rm_sha" ELSE "restore_tar"
      /\ (f = "sha" => ~Replaced(disk, "tar")) /\ stood' = stood
  BY RemoveNewDoes DEF Local, AtPhase, Moved, RollingBack
<1>2. /\ journal.state = "rolling_back" /\ dir = "txn" /\ HasJournal(disk) /\ disk.box.made /\ Progress(disk)
  BY <1>1 DEF In, HasJournal, Local, Good, dir, journal
<1>3. pair \in Pair /\ old \in Pair
  BY DiskFields DEF TypeOK, pair, old
<1>4. journal.gen # NoFile /\ journal.plan # journal.gen
  BY <1>2, JournalFacts
<1>5. /\ disk'.top.dir = "txn" /\ disk'.box = disk.box
      /\ \A g \in Part : g # f => disk'.top.pair[g] = pair[g]
      /\ disk'.top.pair[f] = IF pair[f] = journal.gen THEN NoFile ELSE pair[f]
  <2>1. Class(disk, f) = "new" <=> pair[f] = journal.gen
    BY <1>4 DEF Class, pair, journal
  <2>2. CASE Class(disk, f) = "new"
    <3>1. disk'.top.dir = dir /\ disk'.box = disk.box /\ disk'.top.pair = [pair EXCEPT ![f] = NoFile]
      BY <2>2, RemoveNewDoes
    <3>2. QED BY <1>2, <1>3, <2>1, <2>2, <3>1 DEF Pair
  <2>3. CASE Class(disk, f) # "new"
    <3>1. disk' = disk
      BY <2>3, RemoveNewDoes
    <3>2. QED BY <1>2, <2>1, <2>3, <3>1 DEF pair, dir
  <2> QED BY <2>2, <2>3
<1>6. Progress(disk)' /\ ~Replaced(disk, f)' /\ (f = "sha" => ~Replaced(disk, "tar")')
  <2>1. \/ Replaced(disk, "sha") /\ (Replaced(disk, "tar") \/ Away(disk, "tar"))
        \/ Away(disk, "sha") /\ (Away(disk, "tar") \/ InPlace(disk, "tar"))
        \/ InPlace(disk, "tar") /\ InPlace(disk, "sha")
    BY <1>2 DEF Progress, journal, Part
  <2>2. ~Replaced(disk, f)' /\ (f = "sha" => ~Replaced(disk, "tar")')
    BY <1>1, <1>4, <1>5 DEF Replaced, journal, pair, Part
  <2>3. \/ Replaced(disk, "sha")' /\ (Replaced(disk, "tar")' \/ Away(disk, "tar")')
        \/ Away(disk, "sha")' /\ (Away(disk, "tar")' \/ InPlace(disk, "tar")')
        \/ InPlace(disk, "tar")' /\ InPlace(disk, "sha")'
    BY <1>1, <1>4, <1>5, <2>1 DEF Replaced, Away, InPlace, journal, pair, Part
  <2>4. QED BY <1>2, <1>5, <2>2, <2>3 DEF Progress, journal, Part
<1>7. Good(disk)'
  BY <1>2, <1>5, <1>6 DEF Good, HasJournal, journal
<1>8. AtPhase'
  <2>1. In("rolling_back")'
    BY <1>2, <1>5 DEF In, dir, journal
  <2>2. QED BY <1>1, <1>6, <2>1 DEF AtPhase, Preparing, RollingBack, Part
<1>9. Base(disk)' = Base(disk)
  BY <1>2, <1>5 DEF Base, HasJournal, journal, dir
<1> QED BY <1>1, <1>7, <1>8, <1>9, BaseKept DEF Local

LEMMA LocalRestoreOld ==
  ASSUME TypeOK, Sound, Local, NEW f \in Part,
         \/ pc = "restore_tar" /\ f = "tar"
         \/ pc = "restore_sha" /\ f = "sha",
         RestoreOld(f)
  PROVE  Local'
<1>1. /\ In("rolling_back") /\ stood' = stood
      /\ pc' \in IF f = "tar" THEN {"back_tar_out", "restore_sha"} ELSE {"back_sha_out", "rolled"}
      /\ (f = "tar" => ~Replaced(disk, "tar") /\ ~Replaced(disk, "sha"))
      /\ (f = "sha" => InPlace(disk, "tar") /\ ~Replaced(disk, "sha"))
  <2>1. /\ In("rolling_back")
        /\ (f = "tar" => ~Replaced(disk, "tar") /\ ~Replaced(disk, "sha"))
        /\ (f = "sha" => InPlace(disk, "tar") /\ ~Replaced(disk, "sha"))
    BY DEF Local, AtPhase, RollingBack, Part
  <2>2. QED BY <2>1, RestoreOldDoes DEF Moved
<1>2. /\ journal.state = "rolling_back" /\ dir = "txn" /\ HasJournal(disk) /\ disk.box.made /\ Progress(disk)
  BY <1>1 DEF In, HasJournal, Local, Good, dir, journal
<1>3. pair \in Pair /\ old \in Pair
  BY DiskFields DEF TypeOK, pair, old
<1>4. InPlace(disk, f) \/ Away(disk, f)
  BY <1>1, <1>2 DEF Progress, journal, Part
<1>5. /\ disk'.top.dir = "txn" /\ disk'.box.journal = journal /\ disk'.box.made
      /\ \A g \in Part : g # f => disk'.top.pair[g] = pair[g] /\ disk'.box.old[g] = old[g]
      /\ InPlace(disk', f)
  <2>1. CASE old[f] # NoFile
    BY <1>2, <1>3, <1>4, <2>1, RestoreOldDoes DEF SameRecord, Away, InPlace, pair, old, dir, journal, Pair
  <2>2. CASE old[f] = NoFile
    BY <1>2, <1>4, <2>2, RestoreOldDoes DEF SameRecord, Away, InPlace, pair, old, dir, journal
  <2> QED BY <2>1, <2>2
<1>6. /\ f = "tar" => Away(disk, "sha")' \/ InPlace(disk, "sha")'
      /\ f = "sha" => InPlace(disk, "tar")'
  <2>1. f = "tar" => Away(disk, "sha") \/ InPlace(disk, "sha")
    BY <1>1, <1>2 DEF Progress, journal, Part
  <2>2. QED BY <1>1, <1>5, <2>1 DEF Away, InPlace, journal, pair, old, Part
<1>7. Progress(disk)'
  BY <1>2, <1>5, <1>6 DEF Progress, journal, Part
<1>8. Good(disk)'
  BY <1>2, <1>5, <1>7 DEF Good, HasJournal, journal
<1>9. AtPhase'
  <2>1. In("rolling_back")'
    BY <1>2, <1>5 DEF In, dir, journal
  <2>2. journal.gen # NoFile
    BY <1>2, JournalFacts
  <2>3. f = "tar" => ~Replaced(disk, "sha")'
    BY <1>1, <1>5 DEF Replaced, journal, pair, old, Part
  <2>4. f = "sha" => \A g \in Part : InPlace(disk, g)'
    BY <1>5, <1>6 DEF Part
  <2>5. QED BY <1>1, <1>5, <2>1, <2>3, <2>4 DEF AtPhase, Preparing, RollingBack, Part
<1>10. Base(disk)' = Base(disk)
  BY <1>2, <1>5 DEF Base, HasJournal, journal, dir
<1> QED BY <1>1, <1>8, <1>9, <1>10, BaseKept DEF Local

LEMMA MoveLocal == TypeOK /\ Sound /\ Local /\ Move => Local'
BY LocalBackup, LocalCommitNew, LocalRemoveOld, LocalRemoveJournal, LocalRemoveNew, LocalRestoreOld
   DEF Move, Part

\* A journal is written over a good disk.
LEMMA RecordLocal ==
  ASSUME TypeOK, Sound, Local, pc \in DOMAIN Persisting, NEW s, s = Persisting[pc][1],
         disk'.top = disk.top, disk'.box.old = old, disk'.box.staging = staging,
         disk'.box.made = disk.box.made, disk'.box.journal = Record(s)
  PROVE  /\ Good(disk)' /\ Base(disk)' = Base(disk) /\ dir = "txn"
         /\ In(s)'
         /\ pc = "p_backed" => Away(disk, "tar")'
         /\ pc = "p_tarball" => Away(disk, "sha")'
<1>r. LET r == disk'.box.journal
      IN  /\ r.state = s /\ r.gen = new
          /\ r.plan = IF r.state = "staged" THEN pair["tar"] ELSE journal.plan
  BY RecordIs, PersistingIs DEF States
<1>p. /\ SoundRun
      /\ \/ pc = "p_staged" /\ s = "staged"
         \/ pc = "p_backed" /\ s = "backed_up"
         \/ pc = "p_tarball" /\ s = "tarball_committed"
         \/ pc = "p_sha" /\ s = "sha_committed"
         \/ pc = "p_verified" /\ s = "verified"
         \/ pc = "p_rolling" /\ s = "rolling_back"
  BY PersistingIs, SoundIs
<1>1. CASE pc = "p_staged"
  <2>1. /\ NoRecord /\ disk.box.made /\ \A f \in Part : staging[f] = new
    BY <1>1 DEF Local, AtPhase, Preparing
  <2>2. \A f \in Part : pair[f] = pair["tar"] /\ old[f] = NoFile
    BY <1>1, <1>p, <2>1, EmptyIs DEF SoundRun, NoRecord
  <2>3. In("staged")' /\ dir = "txn"
    BY <1>1, <1>p, <1>r, <2>1 DEF In, NoRecord, dir, journal
  <2>4. Fingerprint(disk)' /\ \A f \in Part : InPlace(disk, f)'
    BY <1>1, <1>p, <1>r, <2>1, <2>2 DEF Fingerprint, InPlace, staging, pair, old, dir, journal
  <2>5. Good(disk)'
    BY <2>1, <2>3, <2>4 DEF Good, HasJournal, In, Progress, dir, journal
  <2>6. Base(disk)' = Base(disk)
    BY <1>1, <1>p, <1>r, <2>1, <2>3, EmptyIs DEF Base, HasJournal, In, NoRecord, dir, journal, pair
  <2>7. QED BY <1>1, <1>p, <2>3, <2>5, <2>6
<1>2. CASE pc # "p_staged"
  <2>1. /\ pc \in Journalled /\ new = journal.gen /\ journal.state # "none"
    BY <1>2, <1>p DEF SoundRun, Journalled, Committing
  <2>2. /\ dir = "txn" /\ Progress(disk) /\ disk.box.made /\ HasJournal(disk)
        /\ \/ pc = "p_backed" /\ In("staged") /\ BothAway
           \/ pc = "p_tarball" /\ In("backed_up") /\ Replaced(disk, "tar")
           \/ pc = "p_sha" /\ In("tarball_committed") /\ Replaced(disk, "sha")
           \/ pc = "p_verified" /\ In("sha_committed")
           \/ pc = "p_rolling" /\ In("sha_committed")
    <3>1. \/ pc = "p_backed" /\ In("staged") /\ BothAway
          \/ pc = "p_tarball" /\ In("backed_up") /\ Replaced(disk, "tar")
          \/ pc = "p_sha" /\ In("tarball_committed") /\ Replaced(disk, "sha")
          \/ pc = "p_verified" /\ In("sha_committed")
          \/ pc = "p_rolling" /\ In("sha_committed")
      BY <1>2, <1>p DEF Local, AtPhase
    <3>2. dir = "txn"
      BY <3>1 DEF In
    <3>3. QED BY <2>1, <3>1, <3>2 DEF Local, Good, HasJournal, dir, journal
  <2>3. disk'.box.journal.gen = journal.gen /\ disk'.box.journal.plan = journal.plan
        /\ disk'.box.journal.state = s
    BY <1>2, <1>p, <1>r, <2>1
  <2>4. \A f \in Part : /\ InPlace(disk, f)' <=> InPlace(disk, f)
                        /\ Away(disk, f)' <=> Away(disk, f)
                        /\ Replaced(disk, f)' <=> Replaced(disk, f)
    BY <2>3 DEF InPlace, Away, Replaced, old, journal
  <2>5. Progress(disk)' /\ (pc = "p_backed" => Away(disk, "tar")') /\ (pc = "p_tarball" => Away(disk, "sha")')
    <3>1. CASE pc = "p_backed"
      BY <1>p, <2>2, <2>3, <2>4, <3>1 DEF BothAway, Progress, Part
    <3>2. CASE pc = "p_tarball"
      <4>1. Away(disk, "sha")
        BY <2>2, <3>2 DEF Progress, In, journal
      <4>2. QED BY <1>p, <2>2, <2>3, <2>4, <3>2, <4>1 DEF Progress, Part
    <3>3. CASE pc = "p_sha"
      <4>1. Replaced(disk, "tar")
        BY <2>2, <3>3 DEF Progress, In, journal
      <4>2. QED BY <1>p, <2>2, <2>3, <2>4, <3>3, <4>1 DEF Progress, Part
    <3>4. CASE pc \in {"p_verified", "p_rolling"}
      <4>1. \A f \in Part : Replaced(disk, f)
        BY <2>2, <3>4 DEF Progress, In, journal
      <4>2. \A f \in Part : Replaced(disk, f)'
        BY <2>4, <4>1
      <4>3. CASE pc = "p_verified"
        BY <1>p, <2>3, <4>2, <4>3 DEF Progress, Replaced
      <4>4. CASE pc = "p_rolling"
        BY <1>p, <2>3, <4>2, <4>4 DEF Progress, Part
      <4> QED BY <3>4, <4>3, <4>4
    <3> QED BY <2>2, <3>1, <3>2, <3>3, <3>4
  <2>6. Good(disk)' /\ In(s)'
    BY <1>p, <2>2, <2>3, <2>5 DEF Good, HasJournal, In, dir, journal
  <2>7. Base(disk)' = Base(disk)
    <3>1. HasJournal(disk)' /\ HasJournal(disk)
      BY <1>p, <2>2, <2>3 DEF HasJournal, dir
    <3>2. QED BY <2>3, <3>1 DEF Base, journal
  <2>8. QED BY <2>2, <2>5, <2>6, <2>7
<1> QED BY <1>1, <1>2

LEMMA PersistLocal == TypeOK /\ Sound /\ Local /\ Persist => Local'
<1> SUFFICES ASSUME TypeOK, Sound, Local, Persist PROVE Local'
  OBVIOUS
<1>0. PICK r : r = Persisting[pc][1]
  OBVIOUS
<1>1. /\ Good(disk)' /\ Base(disk)' = Base(disk)
      /\ In(r)'
      /\ pc = "p_backed" => Away(disk, "tar")'
      /\ pc = "p_tarball" => Away(disk, "sha")'
  BY <1>0, PersistDoes, RecordLocal
<1>2. /\ stood' = stood /\ pc' = Persisting[pc][2] /\ pc \in DOMAIN Persisting
  BY PersistDoes DEF Moved
<1>3. AtPhase'
  BY <1>0, <1>1, <1>2, PersistingIs DEF AtPhase, Preparing, RollingBack
<1>4. pc \notin {"rmtree", "done_out", "rm_journal", "idle"} /\ pc' \notin {"rmtree", "done_out"}
  BY <1>2, PersistingIs
<1> QED BY <1>1, <1>2, <1>3, <1>4, BaseKept DEF Local

LEMMA SyncLocal == TypeOK /\ Sound /\ Local /\ Sync => Local'
<1> SUFFICES ASSUME TypeOK, Sound, Local, Sync PROVE Local'
  OBVIOUS
<1>1. disk' = disk /\ stood' = stood
  BY SyncTopDoes, SyncBoxDoes DEF Sync, world
<1>2. Good(disk)' /\ Base(disk)' = Base(disk)
  BY <1>1 DEF Local, Good, Base, HasJournal, PairOk, Whole, Progress, Fingerprint, InPlace, Away, Replaced
<1>3. \/ pc \in DOMAIN SyncingTop /\ pc' = IF SyncingTop[pc] \in Exits THEN "idle" ELSE SyncingTop[pc]
      \/ pc \in DOMAIN SyncingBox /\ pc' = SyncingBox[pc]
  BY DEF Sync, End, Goto
<1>4. \/ pc = "backup_out" /\ pc' = "p_backed"
      \/ pc = "tar_out" /\ pc' = "p_tarball"
      \/ pc = "sha_out" /\ pc' = "p_sha"
      \/ pc = "back_tar_out" /\ pc' = "back_tar_txn"
      \/ pc = "back_sha_out" /\ pc' = "back_sha_txn"
      \/ pc = "tomb_out" /\ pc' = "bury"
      \/ pc = "done_out" /\ pc' = "idle"
      \/ pc = "bury_out" /\ pc' = "idle"
      \/ pc = "backup_txn" /\ pc' = "backup_out"
      \/ pc = "back_tar_txn" /\ pc' = "restore_sha"
      \/ pc = "back_sha_txn" /\ pc' = "rolled"
      \/ pc = "old_txn" /\ pc' = "rm_journal"
  BY <1>3, SyncingTopIs, SyncingBoxIs DEF Exits
<1>5. AtPhase'
  BY <1>1, <1>4 DEF Local, AtPhase, Preparing, RollingBack, dir, journal, old, staging, In, NoRecord, BothAway,
       Away, InPlace, Replaced, Whole
<1>6. pc = "done_out" => Whole(disk)'
  BY <1>1 DEF Local, AtPhase, Whole
<1> QED BY <1>1, <1>2, <1>4, <1>5, <1>6, BaseKept DEF Local

LEMMA SameDisk ==
  ASSUME disk' = disk
  PROVE  /\ Good(disk)' <=> Good(disk)
         /\ Base(disk)' = Base(disk) /\ (Whole(disk)' <=> Whole(disk))
BY DEF Good, Base, HasJournal, PairOk, Whole, Progress, Fingerprint, InPlace, Away, Replaced

\* A run that ends leaves the pair it found, or a whole one.
LEMMA LocalEnds ==
  ASSUME Local, pc # "idle", pc' = "idle", Good(disk)', stood' = stood,
         Base(disk)' = Base(disk), Whole(disk) => Whole(disk)'
  PROVE  Local'
<1>1. AtPhase'
  BY DEF AtPhase, Preparing, RollingBack
<1>2. stood' # NoFile => Stands(disk, stood)'
  BY DEF Local, Stands
<1> QED BY <1>1, <1>2 DEF Local

\* A journal found on the disk says how far its transaction has come.
LEMMA ScanLocal == TypeOK /\ Sound /\ Local /\ Scan => Local'
<1> SUFFICES ASSUME TypeOK, Sound, Local, Scan PROVE Local'
  OBVIOUS
<1>1. /\ pc = "scan" /\ pc' = Resume /\ disk' = disk /\ stood' = stood
  BY DEF Scan, Keep, world
<1>2. dir \in {"none", "txn"} /\ journal.state \in States
  <2>1. dir \in {"none", "txn", "tomb"} /\ journal.state \in States
    BY DiskFields DEF TypeOK, dir, journal
  <2>2. QED BY <1>1, <2>1 DEF Sound
<1>3. AtPhase'
  <2>1. CASE dir = "none"
    <3>1. pc' = "fresh"
      BY <1>1, <2>1 DEF Resume
    <3>2. QED BY <1>1, <2>1, <3>1 DEF AtPhase, Preparing, RollingBack, dir
  <2>2. CASE dir = "txn" /\ journal.state = "none"
    <3>1. pc' = "discard"
      BY <1>1, <2>2 DEF Resume
    <3>2. NoRecord
      <4>1. journal = NoJournal
        BY <2>2 DEF Sound, SoundBox, journal
      <4>2. old = NoPair
        BY <2>2 DEF Local, Good, HasJournal, dir, journal, old
      <4>3. QED BY <2>2, <4>1, <4>2 DEF NoRecord
    <3>3. NoRecord'
      BY <1>1, <3>2 DEF NoRecord, dir, journal, old
    <3>4. QED BY <3>1, <3>3 DEF AtPhase, Preparing, RollingBack
  <2>3. CASE dir = "txn" /\ journal.state # "none"
    <3>1. Progress(disk) /\ In(journal.state)
      BY <2>3 DEF Local, Good, HasJournal, In, dir, journal
    <3>2. journal.gen # NoFile
      BY <2>3, JournalFacts
    <3>3. \/ pc' = "backup_tar" /\ In("staged")
          \/ pc' = "p_tarball" /\ In("backed_up") /\ Replaced(disk, "tar")
          \/ pc' = "commit_tar" /\ In("backed_up") /\ Away(disk, "tar")
          \/ pc' = "p_sha" /\ In("tarball_committed") /\ Replaced(disk, "sha")
          \/ pc' = "commit_sha" /\ In("tarball_committed") /\ Away(disk, "sha")
          \/ pc' = "check" /\ In("sha_committed")
          \/ pc' = "rm_old_tar" /\ In("verified")
          \/ pc' = "roll" /\ In("rolling_back")
      <4>1. CASE journal.state = "backed_up"
        <5>1. Away(disk, "tar") \/ Replaced(disk, "tar")
          BY <3>1, <4>1 DEF Progress, journal
        <5>2. Class(disk, "tar") = "new" => Replaced(disk, "tar")
          BY <3>2, <5>1 DEF Class, Away, Replaced, journal
        <5>3. Class(disk, "tar") # "new" => Away(disk, "tar")
          BY <3>2, <5>1 DEF Class, Away, Replaced, journal
        <5>4. QED BY <1>1, <2>3, <3>1, <4>1, <5>2, <5>3 DEF Resume
      <4>2. CASE journal.state = "tarball_committed"
        <5>1. Away(disk, "sha") \/ Replaced(disk, "sha")
          BY <3>1, <4>2 DEF Progress, journal
        <5>2. Class(disk, "sha") = "new" => Replaced(disk, "sha")
          BY <3>2, <5>1 DEF Class, Away, Replaced, journal
        <5>3. Class(disk, "sha") # "new" => Away(disk, "sha")
          BY <3>2, <5>1 DEF Class, Away, Replaced, journal
        <5>4. QED BY <1>1, <2>3, <3>1, <4>2, <5>2, <5>3 DEF Resume
      <4>3. CASE journal.state \notin {"backed_up", "tarball_committed"}
        BY <1>1, <1>2, <2>3, <3>1, <4>3 DEF Resume, States
      <4> QED BY <4>1, <4>2, <4>3
    <3>4. QED BY <1>1, <3>3 DEF AtPhase, Preparing, RollingBack, In, Away, Replaced, dir, journal
  <2> QED BY <1>2, <2>1, <2>2, <2>3
<1>4. pc' \notin {"rmtree", "done_out"}
  BY <1>1, <1>2 DEF Resume, States
<1> QED BY <1>1, <1>3, <1>4, SameDisk, BaseKept DEF Local

LEMMA PrepareLocal == TypeOK /\ Sound /\ Local /\ (MakeTxn \/ Build \/ Compare \/ SyncStaging) => Local'
<1> SUFFICES ASSUME TypeOK, Sound, Local, MakeTxn \/ Build \/ Compare \/ SyncStaging PROVE Local'
  OBVIOUS
<1>1. CASE MakeTxn
  <2>1. /\ pc = "fresh" /\ pc' = "build" /\ stood' = stood
        /\ disk'.top.pair = pair /\ disk'.top.dir = "txn" /\ disk'.box = Empty
    BY <1>1, MakeTxnDoes DEF Moved
  <2>2. dir = "none" /\ PairOk(disk)
    BY <2>1 DEF Local, AtPhase, Good, HasJournal, dir
  <2>3. PairOk(disk)' /\ NoRecord'
    BY <2>1, <2>2, EmptyIs DEF PairOk, Whole, NoRecord, pair, dir, journal, old
  <2>4. Good(disk)'
    BY <2>1, <2>3, EmptyIs DEF Good, HasJournal
  <2>5. Base(disk)' = Base(disk)
    BY <2>1, <2>2, EmptyIs DEF Base, HasJournal, dir, pair
  <2>6. AtPhase'
    BY <2>1, <2>3 DEF AtPhase, Preparing, RollingBack
  <2>7. QED BY <2>1, <2>4, <2>5, <2>6, BaseKept DEF Local
<1>2. CASE Build
  <2>1. /\ pc = "build" /\ pc' = "compare" /\ stood' = stood
        /\ disk'.top = disk.top /\ disk'.box.old = old /\ disk'.box.journal = journal
        /\ disk'.box.made = TRUE /\ \A f \in Part : disk'.box.staging[f] = new'
    BY <1>2, BuildDoes
  <2>2. NoRecord /\ PairOk(disk)
    BY <2>1, EmptyIs DEF Local, AtPhase, Good, HasJournal, NoRecord, journal
  <2>3. NoRecord' /\ PairOk(disk)'
    BY <2>1, <2>2 DEF NoRecord, PairOk, Whole, dir, journal, old
  <2>4. Good(disk)'
    BY <2>3, EmptyIs DEF Good, HasJournal, NoRecord, dir, journal, old
  <2>5. Base(disk)' = Base(disk)
    BY <2>1 DEF Base, HasJournal, journal
  <2>6. AtPhase'
    BY <2>1, <2>3 DEF AtPhase, Preparing, RollingBack, staging
  <2>7. QED BY <2>1, <2>4, <2>5, <2>6, BaseKept DEF Local
<1>3. CASE Compare
  <2>1. /\ pc = "compare" /\ PairOk(disk) /\ pc' = (IF pair["tar"] = new THEN "noop" ELSE "sync_staging")
        /\ stood' = stood /\ disk' = disk /\ new' = new /\ new \in Gens
    BY <1>3 DEF Compare, Goto, Keep, world, Sound, Preparing
  <2>2. pair["tar"] = new => Whole(disk)
    BY <2>1, GensAssumption, PairOkIs DEF TypeOK, pair
  <2>3. NoRecord /\ disk.box.made /\ \A f \in Part : staging[f] = new
    BY <2>1 DEF Local, AtPhase, Preparing
  <2>4. AtPhase'
    BY <2>1, <2>2, <2>3, SameDisk DEF AtPhase, Preparing, RollingBack, NoRecord, dir, journal, old, staging
  <2>5. QED BY <2>1, <2>4, SameDisk, BaseKept DEF Local
<1>4. CASE SyncStaging
  <2>1. /\ pc = "sync_staging" /\ pc' = "p_staged" /\ stood' = stood /\ disk' = disk /\ new' = new
    BY <1>4 DEF SyncStaging, Goto, Keep
  <2>3. NoRecord /\ disk.box.made /\ \A f \in Part : staging[f] = new
    BY <2>1 DEF Local, AtPhase, Preparing
  <2>4. AtPhase'
    BY <2>1, <2>3 DEF AtPhase, Preparing, RollingBack, NoRecord, dir, journal, old, staging
  <2>5. QED BY <2>1, <2>4, SameDisk, BaseKept DEF Local
<1> QED BY <1>1, <1>2, <1>3, <1>4

LEMMA RmtreeLocal == TypeOK /\ Sound /\ Local /\ Rmtree => Local'
<1> SUFFICES ASSUME TypeOK, Sound, Local, Rmtree PROVE Local'
  OBVIOUS
<1>1. /\ pc \in {"tomb", "discard", "rmtree", "bury"} /\ stood' = stood /\ disk'.top.pair = pair
  BY RmtreeDoes, RemovingIs
<1>2. /\ pc \in {"tomb", "bury"} => dir = "tomb"
      /\ pc \in {"discard", "rmtree"} => NoRecord
      /\ pc = "rmtree" => Whole(disk)
  BY DEF Local, AtPhase
<1>3. ~HasJournal(disk) /\ PairOk(disk)
  BY <1>1, <1>2, EmptyIs DEF Local, Good, HasJournal, NoRecord, dir, journal
<1>4. PairOk(disk)' /\ (Whole(disk)' <=> Whole(disk))
  BY <1>1, <1>3 DEF PairOk, Whole, pair
<1>5. CASE /\ pc' = pc /\ disk'.top = disk.top /\ disk'.box.old = old
           /\ disk'.box.journal \in {journal, NoJournal}
  <2>1. ~HasJournal(disk)' /\ (disk'.top.dir = "txn" => NoRecord')
    BY <1>1, <1>2, <1>3, <1>5, EmptyIs DEF HasJournal, NoRecord, dir, journal, old
  <2>2. disk'.top.dir # "none"
    BY <1>1, <1>2, <1>5 DEF NoRecord, dir
  <2>3. Good(disk)'
    BY <1>4, <2>1, <2>2 DEF Good, NoRecord, old
  <2>4. Base(disk)' = Base(disk)
    BY <1>1, <1>3, <2>1 DEF Base, pair
  <2>5. AtPhase'
    BY <1>1, <1>2, <1>4, <1>5, <2>1 DEF AtPhase, Preparing, RollingBack, NoRecord, dir
  <2>6. QED BY <1>1, <1>2, <1>4, <1>5, <2>3, <2>4, <2>5, BaseKept DEF Local
<1>6. CASE pc' = Removing[pc] /\ disk'.top.dir = "none" /\ disk'.box = Empty
  <2>1. ~HasJournal(disk)' /\ Good(disk)'
    BY <1>4, <1>6 DEF HasJournal, Good
  <2>2. Base(disk)' = Base(disk)
    BY <1>1, <1>3, <2>1 DEF Base, pair
  <2>3. pc' \in {"scan", "fresh", "done_out", "bury_out"} /\ (pc = "rmtree" <=> pc' = "done_out")
    BY <1>1, <1>6, RemovingIs
  <2>4. AtPhase'
    BY <1>2, <1>4, <1>6, <2>3 DEF AtPhase, Preparing, RollingBack, dir
  <2>5. QED BY <1>1, <1>2, <1>4, <2>1, <2>2, <2>3, <2>4, BaseKept DEF Local
<1> QED BY <1>5, <1>6, RmtreeDoes

LEMMA RollLocal == TypeOK /\ Sound /\ Local /\ (SelfCheck \/ Roll \/ Rolled) => Local'
<1> SUFFICES ASSUME TypeOK, Sound, Local, SelfCheck \/ Roll \/ Rolled PROVE Local'
  OBVIOUS
<1>1. /\ disk' = disk /\ stood' = stood
      /\ \/ pc = "check" /\ pc' \in {"p_verified", "p_rolling"}
         \/ pc = "roll" /\ pc' = "rm_tar"
         \/ pc = "rolled" /\ pc' = "entomb"
  BY DEF SelfCheck, Roll, Rolled, Goto, Keep, world
<1>2. AtPhase'
  BY <1>1 DEF Local, AtPhase, Preparing, RollingBack, In, InPlace, dir, journal
<1> QED BY <1>1, <1>2, SameDisk, BaseKept DEF Local

LEMMA EntombLocal == TypeOK /\ Sound /\ Local /\ Entomb => Local'
<1> SUFFICES ASSUME TypeOK, Sound, Local, Entomb PROVE Local'
  OBVIOUS
<1>1. /\ pc = "entomb" /\ disk' \in Disk /\ pc' = "tomb_out" /\ stood' = stood
      /\ disk'.top.pair = pair /\ disk'.top.dir = "tomb" /\ disk'.box = disk.box
  BY EntombDoes DEF Moved
<1>2. In("rolling_back") /\ \A f \in Part : InPlace(disk, f)
  BY <1>1 DEF Local, AtPhase
<1>3. \A f \in Part : pair[f] = journal.plan
  BY <1>2 DEF InPlace, pair, journal
<1>4. journal.plan \in Gens \cup {NoFile}
  BY <1>2, JournalFacts DEF In, Known
<1>5. PairOk(disk)'
  <2>1. PairOk(disk') <=> Whole(disk') \/ (disk'.top.pair["tar"] = NoFile /\ disk'.top.pair["sha"] = NoFile)
    BY <1>1, PairOkIs
  <2>2. QED BY <1>1, <1>3, <1>4, <2>1 DEF Whole, Part
<1>6. Good(disk)'
  BY <1>1, <1>5 DEF Good, HasJournal
<1>7. Base(disk)' = Base(disk)
  BY <1>1, <1>2, <1>3 DEF Base, HasJournal, In, dir, journal, Part
<1>8. AtPhase'
  BY <1>1 DEF AtPhase, Preparing, RollingBack, dir
<1> QED BY <1>1, <1>6, <1>7, <1>8, BaseKept DEF Local

LEMMA RunLocal == TypeOK /\ Sound /\ Local /\ Run => Local'
<1> SUFFICES ASSUME TypeOK, Sound, Local, Run PROVE Local'
  OBVIOUS
<1>1. CASE Refuse
  <2>1. pc # "idle" /\ pc' = "idle" /\ disk' = disk /\ stood' = stood
    BY <1>1 DEF Refuse, End, Keep, world
  <2>2. QED BY <2>1, SameDisk, LocalEnds DEF Local
<1>2. CASE NoOp
  <2>1. /\ pc = "noop" /\ pc' = "idle" /\ stood' = stood
        /\ disk'.top = disk.top /\ disk'.box.old = old /\ disk'.box.journal = journal
    BY <1>2, NoOpDoes DEF Ended
  <2>2. NoRecord /\ PairOk(disk)
    BY <2>1 DEF Local, AtPhase, PairOk, Preparing
  <2>3. NoRecord' /\ PairOk(disk)' /\ (Whole(disk) => Whole(disk)')
    BY <2>1, <2>2 DEF NoRecord, PairOk, Whole, dir, journal, old
  <2>4. Good(disk)'
    BY <2>3, EmptyIs DEF Good, HasJournal, NoRecord, dir, journal, old
  <2>5. Base(disk)' = Base(disk)
    BY <2>1 DEF Base, HasJournal, journal
  <2>6. QED BY <2>1, <2>3, <2>4, <2>5, LocalEnds
<1> QED BY <1>1, <1>2, ScanLocal, PrepareLocal, PersistLocal, SyncLocal, RmtreeLocal, MoveLocal, RollLocal,
           EntombLocal DEF Run

LEMMA StartStands ==
  ASSUME Sound, Start
  PROVE  stood' = Base(disk)
<1>1. journal = NoJournal <=> journal.state = "none"
  BY EmptyIs DEF Sound, SoundBox, journal
<1>2. stood' = IF dir = "txn" /\ journal # NoJournal THEN journal.plan ELSE pair["tar"]
  BY DEF Start
<1> QED BY <1>1, <1>2 DEF Base, HasJournal, dir, journal, pair

LEMMA LocalNext == TypeOK /\ Sound /\ Local /\ (Start \/ Run \/ PersistFails \/ Stop) => Local'
<1> SUFFICES ASSUME TypeOK, Sound, Local, Start \/ Run \/ PersistFails \/ Stop PROVE Local'
  OBVIOUS
<1>1. CASE Start
  <2>1. /\ disk' = disk /\ pc' = IF dir = "tomb" THEN "tomb" ELSE "scan"
    BY <1>1 DEF Start, Keep
  <2>2. stood' = Base(disk)'
    BY <1>1, <2>1, StartStands, SameDisk
  <2>3. AtPhase'
    BY <2>1 DEF AtPhase, Preparing, RollingBack, dir
  <2>4. QED BY <2>1, <2>2, <2>3, SameDisk DEF Local, Stands
<1>2. CASE Run
  BY <1>2, RunLocal
<1>3. CASE PersistFails
  <2>1. /\ pc # "idle" /\ pc' = "idle" /\ stood' = stood /\ disk'.top = disk.top
    BY <1>3, PersistFailsDoes, PersistingIs DEF Ended
  <2>2. Good(disk)' /\ Base(disk)' = Base(disk)
    BY <1>3, PersistFailsDoes, RecordLocal
  <2>3. Whole(disk) => Whole(disk)'
    BY <2>1 DEF Whole
  <2>4. QED BY <2>1, <2>2, <2>3, LocalEnds
<1>4. CASE Stop
  <2>1. pc # "idle" /\ pc' = "idle" /\ disk' = disk /\ stood' = stood
    BY <1>4 DEF Stop, End, Keep, world
  <2>2. QED BY <2>1, SameDisk, LocalEnds DEF Local
<1> QED BY <1>1, <1>2, <1>3, <1>4

\* Tearing what was not fsynced takes nothing from a good disk.
LEMMA TearGood ==
  ASSUME NEW d \in Disk, Good(d), ~hard => d.box.journal = NoJournal
  PROVE  /\ Good(Tear(d)) /\ Base(Tear(d)) = Base(d) /\ (Whole(Tear(d)) <=> Whole(d))
<1>1. CASE hard
  BY <1>1, TearIs
<1>2. CASE ~hard
  <2> DEFINE e == Tear(d)
  <2>1. /\ e \in Disk /\ e.top = d.top /\ e.box.old = d.box.old /\ e.box.made = d.box.made
        /\ e.box.journal = NoJournal /\ d.box.journal = NoJournal
        /\ \A f \in Part : d.box.staging[f] = NoFile => e.box.staging[f] = NoFile
    BY <1>2, TearIs
  <2> HIDE DEF e
  <2>2. ~HasJournal(d) /\ ~HasJournal(e)
    BY <2>1, EmptyIs DEF HasJournal
  <2>3. d.top.dir = "none" => e.box = Empty
    <3> SUFFICES ASSUME d.top.dir = "none" PROVE e.box = Empty
      OBVIOUS
    <3>1. d.box = Empty
      BY DEF Good
    <3>2. e.box.staging = NoPair
      BY <2>1, <3>1, EmptyIs, PairIs, DiskFields DEF Part
    <3>3. QED BY <2>1, <3>1, <3>2, EmptyIs, BoxesEqual, DiskFields
  <2>4. Good(e)
    BY <2>1, <2>2, <2>3 DEF Good, PairOk, Whole
  <2>5. QED BY <2>1, <2>2, <2>4 DEF e, Base, Whole
<1> QED BY <1>1, <1>2

(***************************************************************************)
(* What a run reports is on every disk a power loss may leave.             *)
(***************************************************************************)
LEMMA ReportedNext ==
  ASSUME TypeOK, Sound, Local, Reported, Start \/ Run \/ PersistFails \/ Stop
  PROVE  Reported'
<1>1. CASE exit' \notin {"ok", "restored"}
  BY <1>1 DEF Reported
<1>2. CASE NoOp
  <2>1. /\ pc = "noop" /\ pc' = "idle" /\ exit' = "ok" /\ lag' = lag \cup {disk'} /\ disk'.top = disk.top
        /\ disk'.box.journal = journal
    BY <1>2, NoOpDoes DEF Ended
  <2>2. \A d \in lag \cup {disk} : d.top = disk.top /\ d.box.journal = NoJournal
    BY <2>1 DEF Sound, Preparing
  <2>3. Whole(disk)
    BY <2>1 DEF Local, AtPhase
  <2>4. QED BY <2>1, <2>2, <2>3 DEF Reported, SameTop, Unrecorded, PairOk, Whole, journal
<1>3. CASE Sync /\ pc \in {"done_out", "bury_out"}
  <2>1. dir = "none" /\ Good(disk) /\ (pc = "done_out" => Whole(disk))
    BY <1>3 DEF Local, AtPhase
  <2>2. disk.box = Empty /\ PairOk(disk)
    BY <2>1 DEF Good, HasJournal, dir
  <2>3. SyncTop /\ pc' = "idle" /\ exit' = IF pc = "done_out" THEN "ok" ELSE "restored"
    BY <1>3, SyncingTopIs, SyncingBoxIs DEF Sync, End, Exits
  <2>4. disk' = disk /\ \A e \in lag' : e.top = disk.top /\ e.box = Empty
    <3>1. CASE mount = "ordered"
      BY <2>2, <2>3, <3>1, SyncTopDoes
    <3>2. CASE mount # "ordered"
      <4>1. \A e \in lag' : \E d \in lag : e.top = disk.top /\ e.box = IF dir = "none" THEN Empty ELSE d.box
        BY <2>3, <3>2, SyncTopDoes
      <4>2. QED BY <2>1, <2>3, <4>1, SyncTopDoes
    <3> QED BY <3>1, <3>2
  <2>5. QED BY <2>1, <2>2, <2>3, <2>4, EmptyIs DEF Reported, SameTop, Unrecorded, PairOk, Whole, journal
<1>4. CASE Sync /\ pc \notin {"done_out", "bury_out"}
  <2>1. exit' = exit /\ pc # "idle"
    <3>1. CASE pc \in DOMAIN SyncingTop
      <4>1. SyncingTop[pc] \notin Exits /\ pc # "idle" /\ pc \notin DOMAIN SyncingBox
        BY <1>4, <3>1, SyncingTopIs, SyncingBoxIs DEF Exits
      <4>2. QED BY <1>4, <3>1, <4>1 DEF Sync, Goto
    <3>2. CASE pc \notin DOMAIN SyncingTop
      BY <1>4, <3>2, SyncingBoxIs DEF Sync, Goto
    <3> QED BY <3>1, <3>2
  <2>2. QED BY <1>1, <2>1 DEF Reported
<1>5. CASE exit' = exit /\ pc # "idle"
  BY <1>1, <1>5 DEF Reported
<1>6. CASE Start
  BY <1>1, <1>6 DEF Start
<1>7. CASE PersistFails \/ Stop
  BY <1>1, <1>7 DEF PersistFails, Stop, End
<1>8. CASE Refuse
  BY <1>1, <1>8 DEF Refuse, End
<1>9. CASE Rmtree
  BY <1>5, <1>9, RmtreeDoes, RemovingIs
<1>10. CASE Persist
  BY <1>5, <1>10, PersistDoes, PersistingIs DEF Moved
<1>11. CASE Move
  BY <1>5, <1>11 DEF Move, Backup, CommitNew, RemoveOld, RemoveJournal, RemoveNew, RestoreOld, Goto
<1>12. CASE Scan \/ MakeTxn \/ Build \/ Compare \/ SyncStaging \/ SelfCheck \/ Roll \/ Rolled \/ Entomb
  BY <1>5, <1>12 DEF Scan, MakeTxn, Build, Compare, SyncStaging, SelfCheck, Roll, Rolled, Entomb, Goto
<1> QED BY <1>2, <1>3, <1>4, <1>6, <1>7, <1>8, <1>9, <1>10, <1>11, <1>12 DEF Run

(***************************************************************************)
(* An ordered file system.                                                 *)
(***************************************************************************)
\* Where a run can come from when it is about to end, and what it did then.
LEMMA RunFlow ==
  ASSUME TypeOK, Run
  PROVE  /\ pc # "idle" /\ stood' = stood /\ mount' = mount /\ scarred' = scarred
         /\ pc' \in {"rmtree", "done_out"} => pc \in {"rm_journal", "rmtree"}
         /\ pc' = "rm_journal" => pc = "old_txn" /\ Sync
         /\ pc' = "idle" => disk' = disk \/ NoOp
<1> USE DEF Goto, End, Keep, world
<1>1. CASE Scan
  <2>1. journal.state \in States
    BY DiskFields DEF TypeOK, journal
  <2>2. QED BY <1>1, <2>1 DEF Scan, Resume, States
<1>2. CASE Refuse \/ MakeTxn \/ Build \/ Compare \/ NoOp \/ SyncStaging \/ SelfCheck \/ Roll \/ Rolled \/ Entomb
  BY <1>2 DEF Refuse, MakeTxn, Build, Compare, NoOp, SyncStaging, SelfCheck, Roll, Rolled, Entomb
<1>3. CASE Persist
  BY <1>3, PersistDoes, PersistingIs DEF Moved
<1>4. CASE Sync
  <2>1. /\ disk' = disk /\ stood' = stood /\ mount' = mount /\ scarred' = scarred
        /\ \/ pc \in DOMAIN SyncingTop /\ pc' \in {"idle", SyncingTop[pc]}
           \/ pc \in DOMAIN SyncingBox /\ pc' = SyncingBox[pc]
    BY <1>4, SyncTopDoes, SyncBoxDoes DEF Sync
  <2>2. QED BY <1>4, <2>1, SyncingTopIs, SyncingBoxIs
<1>5. CASE Rmtree
  BY <1>5, RmtreeDoes, RemovingIs
<1>6. CASE Move
  BY <1>6 DEF Move, Backup, CommitNew, RemoveOld, RemoveJournal, RemoveNew, RestoreOld
<1> QED BY <1>1, <1>2, <1>3, <1>4, <1>5, <1>6 DEF Run

LEMMA StepBase ==
  ASSUME TypeOK, Sound, Local, Local', Start \/ Run \/ PersistFails \/ Stop,
         pc \notin {"rm_journal", "rmtree", "done_out"}
  PROVE  Base(disk)' = Base(disk)
<1>1. CASE Start \/ Stop
  BY <1>1, SameDisk DEF Start, Stop, Keep
<1>2. CASE PersistFails
  BY <1>2, PersistFailsDoes, RecordLocal
<1>3. CASE Run /\ pc' # "idle"
  BY <1>3, RunFlow DEF Local
<1>4. CASE Run /\ pc' = "idle"
  <2>1. CASE disk' = disk
    BY <2>1, SameDisk
  <2>2. CASE NoOp
    BY <2>2, NoOpDoes DEF Base, HasJournal, journal
  <2> QED BY <1>4, <2>1, <2>2, RunFlow
<1> QED BY <1>1, <1>2, <1>3, <1>4

\* A step adds the new disk to those a power loss may leave, or leaves only that one.
LEMMA OrderedStep ==
  ASSUME TypeOK, mount = "ordered", Start \/ Run \/ PersistFails \/ Stop
  PROVE  \/ lag' = {disk'}
         \/ lag' = lag \cup {disk'}
         \/ disk' = disk /\ lag' = lag
<1>1. CASE Start \/ Stop \/ Scan \/ Refuse \/ Compare \/ SyncStaging \/ SelfCheck \/ Roll \/ Rolled
  BY <1>1 DEF Start, Stop, Scan, Refuse, Compare, SyncStaging, SelfCheck, Roll, Rolled, Keep
<1>2. CASE MakeTxn \/ Build \/ NoOp \/ Rmtree \/ Entomb \/ PersistFails
  BY <1>2, MakeTxnDoes, BuildDoes, NoOpDoes, RmtreeDoes, EntombDoes, PersistFailsDoes
<1>3. CASE Persist
  BY <1>3, PersistDoes
<1>4. CASE Sync
  BY <1>4, SyncTopDoes, SyncBoxDoes DEF Sync
<1>5. CASE Move
  BY <1>5 DEF Move, Backup, CommitNew, RemoveOld, RemoveJournal, RemoveNew, RestoreOld, Change, Keep
<1> QED BY <1>1, <1>2, <1>3, <1>4, <1>5 DEF Run

LEMMA WholeWhenVerified ==
  ASSUME Sound, Local, pc = "old_txn"
  PROVE  Whole(disk)
<1>1. In("verified")
  BY DEF Local, AtPhase
<1>2. journal.state = "verified" /\ Progress(disk)
  BY <1>1 DEF Local, Good, HasJournal, In, dir, journal
<1> QED BY <1>2, JournalFacts DEF Progress, Whole, journal

LEMMA OrderedNext ==
  ASSUME TypeOK, Sound, Local, Local', mount = "ordered", OrderedLag,
         Start \/ Run \/ PersistFails \/ Stop
  PROVE  OrderedLag'
<1>n. /\ Good(disk)' /\ Stands(disk, Base(disk))' /\ (stood' # NoFile => Stands(disk, stood)')
      /\ pc' \in {"rmtree", "done_out"} => Whole(disk)'
  BY DEF Local, AtPhase, Stands
<1>1. CASE lag' = {disk'}
  <2>1. pc' = "rm_journal" => Whole(disk)'
    <3>1. pc' = "rm_journal" => Run
      BY DEF Start, PersistFails, Stop, End
    <3>2. pc' = "rm_journal" => pc = "old_txn" /\ disk' = disk
      BY <3>1, RunFlow, SyncTopDoes, SyncBoxDoes DEF Sync
    <3>3. QED BY <3>2, WholeWhenVerified, SameDisk
  <2>2. QED BY <1>1, <1>n, <2>1 DEF OrderedLag
<1>2. CASE pc \in {"rm_journal", "rmtree", "done_out"} /\ lag' \subseteq lag \cup {disk'} /\ disk' \in lag'
  <2>1. \A d \in lag : Good(d) /\ Whole(d)
    BY <1>2 DEF OrderedLag
  <2>2. pc' = "rm_journal" => Whole(disk)'
    <3>1. CASE Run
      <4>1. pc' # "rm_journal"
        BY <1>2, <3>1, RunFlow
      <4>2. QED BY <4>1
    <3>2. CASE Start \/ PersistFails \/ Stop
      BY <3>2 DEF Start, PersistFails, Stop, End
    <3> QED BY <3>1, <3>2
  <2>3. QED BY <1>2, <1>n, <2>1, <2>2 DEF OrderedLag, Stands
<1>3. CASE /\ pc \notin {"rm_journal", "rmtree", "done_out"} /\ lag' \subseteq lag \cup {disk'} /\ disk' \in lag'
           /\ lag' # {disk'}
  <2>1. Base(disk)' = Base(disk)
    BY <1>3, StepBase
  <2>2. stood' = stood \/ stood' = Base(disk)
    BY RunFlow, StartStands DEF PersistFails, Stop, world
  <2>3. pc' \notin {"rm_journal", "rmtree", "done_out"}
    <3>1. CASE Run
      <4>1. pc' \notin {"rmtree", "done_out"}
        BY <1>3, <3>1, RunFlow
      <4>2. pc' # "rm_journal"
        <5> SUFFICES ASSUME pc' = "rm_journal" PROVE FALSE
          OBVIOUS
        <5>1. pc = "old_txn" /\ Sync
          BY <3>1, RunFlow
        <5>2. lag' = {disk'}
          BY <5>1, SyncTopDoes, SyncBoxDoes DEF Sync
        <5>3. QED BY <1>3, <5>2
      <4>3. QED BY <4>1, <4>2
    <3>2. CASE Start \/ PersistFails \/ Stop
      BY <3>2 DEF Start, PersistFails, Stop, End
    <3> QED BY <3>1, <3>2
  <2>4. \A d \in lag : Good(d) /\ Stands(d, Base(disk)) /\ (stood # NoFile => Stands(d, stood))
    BY DEF OrderedLag
  <2>5. QED BY <1>3, <1>n, <2>1, <2>2, <2>3, <2>4 DEF OrderedLag
<1> QED BY <1>1, <1>2, <1>3, OrderedStep DEF OrderedLag

(***************************************************************************)
(* A torn file system, and a run that has resumed nothing.                 *)
(***************************************************************************)
LEMMA TornElsewhere ==   \* nothing is asked of a run that is not in its transaction
  ASSUME pc' \in {"idle", "tomb", "scan", "fresh", "discard", "build", "compare", "noop",
                  "sync_staging", "p_staged", "rmtree", "done_out", "tomb_out", "bury_out"}
  PROVE  TornLag'
BY DEF TornLag, Journalled, Committing, RollingBack

LEMMA TornInTxn ==   \* all that is asked elsewhere is that the directory is there
  ASSUME pc' \in {"backup_sha", "backup_txn", "rm_old_sha", "old_txn", "rm_journal",
                  "back_tar_out", "back_sha_out", "back_sha_txn", "rolled", "entomb"},
         \A d \in lag' : d.top.dir = "txn"
  PROVE  TornLag'
BY DEF TornLag, Journalled, Committing, RollingBack

LEMMA TxnOnLag ==
  ASSUME Sound, Local, TornLag, pc \in Journalled \cup {"p_staged"}
  PROVE  \A d \in lag \cup {disk} : d.top.dir = "txn"
<1>1. CASE pc = "p_staged"
  BY <1>1 DEF Sound, Preparing, Local, AtPhase, NoRecord, dir
<1>2. CASE pc \in Journalled
  <2>1. dir = "txn"
    BY <1>2 DEF Local, AtPhase, Journalled, Committing, RollingBack, In
  <2>2. QED BY <1>2, <2>1 DEF TornLag, dir
<1> QED BY <1>1, <1>2

LEMMA TornPersist ==
  ASSUME TypeOK, Sound, Local, mount = "torn", TornLag, Persist
  PROVE  TornLag'
<1>1. /\ pc \in {"p_staged", "p_backed", "p_tarball", "p_sha", "p_verified", "p_rolling"}
      /\ pc' \in {"backup_tar", "commit_tar", "commit_sha", "check", "rm_old_tar", "roll"}
      /\ disk'.top = disk.top
  BY PersistDoes, PersistingIs DEF Moved
<1>2. SameTop
  BY <1>1 DEF TornLag, Sound, Preparing, SameTop
<1>3. \A d \in lag : d.top.dir = "txn"
  BY <1>1, TxnOnLag DEF Journalled, Committing
<1>4. \A e \in lag' : \E d \in lag : e.top = d.top /\ e.box = IF d.top.dir = "none" THEN Empty ELSE disk'.box
  BY PersistDoes
<1>5. \A e \in lag' : e.top = disk.top /\ e.box = disk'.box /\ e.top.dir = "txn"
  BY <1>2, <1>3, <1>4 DEF SameTop
<1>6. SameTop' /\ SameBox' /\ \A d \in lag' : d.top.dir = "txn"
  BY <1>1, <1>5 DEF SameTop, SameBox
<1> QED BY <1>1, <1>6 DEF TornLag

LEMMA TornSync ==
  ASSUME TypeOK, Sound, Local, Local', mount = "torn", TornLag, Sync
  PROVE  TornLag'
<1>0. /\ disk' = disk
      /\ SyncTop => \A e \in lag' : \E d \in lag :
           /\ e \in Disk /\ e.top = disk.top /\ e.box = IF dir = "none" THEN Empty ELSE d.box
      /\ SyncBox => \A e \in lag' : \E d \in lag :
           /\ e \in Disk /\ e.top = d.top /\ e.box = IF d.top.dir = "none" THEN Empty ELSE disk.box
  BY SyncTopDoes, SyncBoxDoes DEF Sync
<1>1. \/ pc = "backup_out" /\ pc' = "p_backed" /\ SyncTop
      \/ pc = "tar_out" /\ pc' = "p_tarball" /\ SyncTop
      \/ pc = "sha_out" /\ pc' = "p_sha" /\ SyncTop
      \/ pc = "back_tar_out" /\ pc' = "back_tar_txn" /\ SyncTop
      \/ pc = "back_sha_out" /\ pc' = "back_sha_txn" /\ SyncTop
      \/ pc = "tomb_out" /\ pc' = "bury" /\ SyncTop
      \/ pc \in {"done_out", "bury_out"} /\ pc' = "idle"
      \/ pc = "backup_txn" /\ pc' = "backup_out" /\ SyncBox
      \/ pc = "back_tar_txn" /\ pc' = "restore_sha" /\ SyncBox
      \/ pc = "back_sha_txn" /\ pc' = "rolled" /\ SyncBox
      \/ pc = "old_txn" /\ pc' = "rm_journal" /\ SyncBox
  <2>1. \/ pc \in DOMAIN SyncingTop /\ SyncTop /\ pc' = IF SyncingTop[pc] \in Exits THEN "idle" ELSE SyncingTop[pc]
        \/ pc \in DOMAIN SyncingBox /\ SyncBox /\ pc' = SyncingBox[pc]
    BY DEF Sync, End, Goto
  <2>2. QED BY <2>1, SyncingTopIs, SyncingBoxIs DEF Exits
<1>2. CASE pc = "tomb_out"
  <2>1. SameTop' /\ pc' = "bury"
    BY <1>0, <1>1, <1>2 DEF SameTop
  <2>2. QED BY <2>1 DEF TornLag, Journalled, Committing, RollingBack
<1>3. CASE pc \in {"done_out", "bury_out"}
  BY <1>1, <1>3, TornElsewhere
<1>4. CASE pc \notin {"tomb_out", "done_out", "bury_out"}
  <2>1. \A d \in lag \cup {disk} : d.top.dir = "txn"
    <3>1. pc \in Journalled
      BY <1>1, <1>4 DEF Journalled, Committing, RollingBack
    <3>2. QED BY <3>1, TxnOnLag
  <2>2. /\ SyncTop => \A e \in lag' : \E d \in lag : e \in Disk /\ e.top = disk.top /\ e.box = d.box
        /\ SyncBox => \A e \in lag' : \E d \in lag : e \in Disk /\ e.top = d.top /\ e.box = disk.box
    BY <1>0, <2>1 DEF dir
  <2>3. \A e \in lag' : e.top.dir = "txn"
    BY <1>1, <1>4, <2>1, <2>2
  <2>4. CASE pc \in {"backup_out", "tar_out", "sha_out", "back_tar_out"}
    <3>1. SyncTop
      BY <1>1, <2>4
    <3>2. SameTop'
      BY <1>0, <2>2, <3>1 DEF SameTop
    <3>3. pc = "backup_out" => SameBox'
      BY <1>0, <2>2, <3>1 DEF TornLag, SameBox
    <3>4. pc \in {"tar_out", "sha_out"} => SameJournal'
      BY <1>0, <2>2, <3>1 DEF TornLag, SameJournal, journal, old
    <3>5. QED BY <1>1, <2>3, <2>4, <3>2, <3>3, <3>4 DEF TornLag
  <2>5. CASE pc \in {"back_sha_out", "back_sha_txn", "old_txn"}
    BY <1>1, <2>3, <2>5, TornInTxn
  <2>6. CASE pc = "backup_txn"
    <3>1. SameBox' /\ pc' = "backup_out"
      BY <1>0, <1>1, <2>2, <2>6 DEF SameBox
    <3>2. QED BY <2>3, <3>1 DEF TornLag
  <2>7. CASE pc = "back_tar_txn"
    <3>1. SameBox' /\ pc' = "restore_sha"
      BY <1>0, <1>1, <2>2, <2>7 DEF SameBox
    <3>2. SameTop
      BY <2>7 DEF TornLag
    <3>3. \A e \in lag' : e \in Disk /\ e.top = disk.top /\ e.box = disk.box
      BY <1>1, <2>2, <2>7, <3>2 DEF SameTop
    <3>4. disk \in Disk
      BY DEF TypeOK
    <3>5. \A e \in lag' : e = disk
      BY <3>3, <3>4, DisksEqual
    <3>6. \A e \in lag' : Good(e)
      BY <3>5 DEF Local
    <3>7. QED BY <2>3, <3>1, <3>6 DEF TornLag
  <2> QED BY <1>1, <1>4, <2>4, <2>5, <2>6, <2>7
<1> QED BY <1>2, <1>3, <1>4

LEMMA TornMove ==
  ASSUME TypeOK, Sound, Local, Local', mount = "torn", TornLag, Move
  PROVE  TornLag'
<1>1. \A d \in lag \cup {disk} : d.top.dir = "txn"
  <2>1. pc \in Journalled
    BY DEF Move, Journalled, Committing, RollingBack
  <2>2. QED BY <2>1, TxnOnLag
<1>2. ASSUME NEW f \in Part, Backup(f) PROVE TornLag'
  <2>1. pc' \in {"backup_sha", "backup_txn"} /\ \A d \in lag' : d.top.dir = "txn"
    <3>1. CASE lag' = lag \cup {disk'} /\ disk'.top.dir = dir
      BY <1>1, <1>2, <3>1, BackupDoes DEF Moved, dir
    <3>2. CASE lag' = lag
      BY <1>1, <1>2, <3>2, BackupDoes DEF Moved
    <3> QED BY <1>2, <3>1, <3>2, BackupDoes
  <2>2. QED BY <2>1, TornInTxn
<1>3. ASSUME NEW f \in Part, CommitNew(f), \/ pc = "commit_tar" /\ f = "tar"
                                           \/ pc = "commit_sha" /\ f = "sha"
      PROVE TornLag'
  <2>1. /\ pc' \in {"tar_out", "sha_out"} /\ lag' = lag \cup {disk'} /\ disk'.top.dir = dir
        /\ disk'.box.old = old /\ SameRecord(disk', disk)
    BY <1>3, CommitNewDoes DEF Moved
  <2>2. SameBox
    BY <1>3 DEF TornLag
  <2>3. SameJournal' /\ \A d \in lag' : d.top.dir = "txn"
    BY <1>1, <2>1, <2>2 DEF SameJournal, SameBox, SameRecord, journal, old, dir
  <2>4. QED BY <2>1, <2>3 DEF TornLag
<1>4. ASSUME NEW f \in Part, RemoveOld(f) PROVE TornLag'
  <2>1. pc' \in {"rm_old_sha", "old_txn"} /\ \A d \in lag' : d.top.dir = "txn"
    <3>1. disk'.top = disk.top /\ lag' = lag \cup {disk'}
      BY <1>4, RemoveOldDoes
    <3>2. pc' = IF f = "tar" THEN "rm_old_sha" ELSE "old_txn"
      BY <1>4, RemoveOldDoes DEF Moved
    <3>3. QED BY <1>1, <3>1, <3>2
  <2>2. QED BY <2>1, TornInTxn
<1>5. CASE RemoveJournal
  BY <1>5, RemoveJournalDoes, TornElsewhere DEF Moved
<1>6. ASSUME NEW f \in Part, RemoveNew(f), \/ pc = "rm_tar" /\ f = "tar"
                                           \/ pc = "rm_sha" /\ f = "sha"
      PROVE TornLag'
  <2>1. SameBox /\ \A d \in lag : Good(d)
    BY <1>6 DEF TornLag
  <2>2. pc' \in {"rm_sha", "restore_tar"} /\ Good(disk)'
    BY <1>6, RemoveNewDoes DEF Moved, Local
  <2>3. SameBox' /\ (\A d \in lag' : Good(d)) /\ \A d \in lag' : d.top.dir = "txn"
    <3>1. CASE lag' = lag \cup {disk'} /\ disk'.top.dir = dir /\ disk'.box = disk.box
      BY <1>1, <2>1, <2>2, <3>1 DEF SameBox, dir
    <3>2. CASE disk' = disk /\ lag' = lag
      BY <1>1, <2>1, <3>2 DEF SameBox
    <3> QED BY <1>6, <3>1, <3>2, RemoveNewDoes
  <2>4. QED BY <2>2, <2>3 DEF TornLag
<1>7. ASSUME NEW f \in Part, RestoreOld(f), \/ pc = "restore_tar" /\ f = "tar"
                                            \/ pc = "restore_sha" /\ f = "sha"
      PROVE TornLag'
  <2>1. CASE old[f] # NoFile
    <3>1. pc' \in {"back_tar_out", "back_sha_out"} /\ \A d \in lag' : d.top.dir = "txn"
      BY <1>1, <1>7, <2>1, RestoreOldDoes DEF Moved, dir
    <3>2. QED BY <3>1, TornInTxn
  <2>2. CASE old[f] = NoFile
    <3>1. disk' = disk /\ lag' = lag /\ pc' \in {"restore_sha", "rolled"}
      BY <1>7, <2>2, RestoreOldDoes DEF Moved
    <3>2. SameBox /\ \A d \in lag : Good(d)
      BY <1>7 DEF TornLag
    <3>3. SameBox' /\ (\A d \in lag' : Good(d)) /\ \A d \in lag' : d.top.dir = "txn"
      BY <1>1, <3>1, <3>2 DEF SameBox
    <3>4. QED BY <3>1, <3>3 DEF TornLag
  <2> QED BY <2>1, <2>2
<1> QED BY <1>2, <1>3, <1>4, <1>5, <1>6, <1>7 DEF Move, Part

LEMMA TornNext ==
  ASSUME TypeOK, Sound, Local, Local', mount = "torn", resumed = "none", TornLag,
         Start \/ Run \/ PersistFails \/ Stop, resumed' = "none"
  PROVE  TornLag'
<1>1. CASE Start \/ PersistFails \/ Stop \/ Refuse \/ MakeTxn \/ Build \/ Compare \/ NoOp \/ SyncStaging
           \/ Entomb
  BY <1>1, TornElsewhere DEF Start, PersistFails, Stop, Refuse, MakeTxn, Build, Compare, NoOp,
     SyncStaging, Entomb, End, Goto
<1>2. CASE Scan
  <2>1. dir \in {"none", "txn"}
    <3>1. dir \in {"none", "txn", "tomb"}
      BY DiskFields DEF TypeOK, dir
    <3>2. QED BY <1>2, <3>1 DEF Scan, Sound
  <2>2. dir = "txn" => journal.state = "none"
    BY <1>2 DEF Scan
  <2>3. pc' \in {"fresh", "discard"}
    BY <1>2, <2>1, <2>2 DEF Scan, Resume
  <2>4. QED BY <2>3, TornElsewhere
<1>3. CASE Rmtree
  <2>1. pc' # "bury" => TornLag'
    <3>1. pc' # "bury" => pc' \in {"tomb", "scan", "fresh", "discard", "rmtree", "done_out", "bury_out"}
      BY <1>3, RmtreeDoes, RemovingIs
    <3>2. QED BY <3>1, TornElsewhere
  <2>2. pc' = "bury" => TornLag'
    <3> SUFFICES ASSUME pc' = "bury" PROVE TornLag'
      OBVIOUS
    <3>1. pc = "bury" /\ disk'.top = disk.top /\ lag' = lag \cup {disk'}
      BY <1>3, RmtreeDoes, RemovingIs
    <3>2. SameTop'
      BY <3>1 DEF TornLag, SameTop
    <3>3. QED BY <3>2 DEF TornLag, Journalled, Committing, RollingBack
  <2>3. QED BY <2>1, <2>2
<1>4. CASE SelfCheck \/ Roll \/ Rolled
  <2>1. /\ disk' = disk /\ lag' = lag
        /\ \/ pc = "check" /\ pc' \in {"p_verified", "p_rolling"}
           \/ pc = "roll" /\ pc' = "rm_tar"
           \/ pc = "rolled" /\ pc' = "entomb"
    BY <1>4 DEF SelfCheck, Roll, Rolled, Goto, Keep
  <2>2. \A d \in lag' : d.top.dir = "txn"
    BY <2>1, TxnOnLag DEF Journalled
  <2>3. CASE pc = "rolled"
    BY <2>1, <2>2, <2>3, TornInTxn
  <2>4. CASE pc \in {"check", "roll"}
    <3>1. SameTop /\ SameBox
      BY <2>4 DEF TornLag
    <3>2. SameTop' /\ SameBox'
      BY <2>1, <3>1 DEF SameTop, SameBox
    <3>3. \A d \in lag : d = disk
      BY <3>1, DisksEqual DEF SameTop, SameBox, TypeOK
    <3>4. \A d \in lag' : Good(d)
      BY <2>1, <3>3 DEF Local
    <3>5. QED BY <2>1, <2>2, <2>4, <3>2, <3>4 DEF TornLag
  <2> QED BY <2>1, <2>3, <2>4
<1> QED BY <1>1, <1>2, <1>3, <1>4, TornPersist, TornSync, TornMove DEF Run

(***************************************************************************)
(* The invariant.                                                          *)
(***************************************************************************)
LEMMA UnscarredIs ==
  Unscarred <=> /\ Local /\ Reported
                /\ mount = "ordered" => OrderedLag
                /\ mount = "torn" /\ resumed = "none" => TornLag
BY DEF Unscarred, Local

\* A disk a power loss may leave is the last one, torn, or was left by an earlier step.
LEMMA PowerLossUnscarred ==
  ASSUME TypeOK, Sound, ~scarred => Unscarred, PowerLoss
  PROVE  (~scarred => Unscarred)'
<1> SUFFICES ASSUME ~scarred' PROVE Unscarred'
  OBVIOUS
<1>1. /\ pc' = "idle" /\ exit' = "lost" /\ resumed' = "none" /\ UNCHANGED <<mount, stood>>
      /\ disk' \in Survivors /\ lag' = {disk'} /\ ~scarred
      /\ ~(mount = "torn" /\ disk' # Tear(disk))
  BY PowerLossDoes DEF Ended
<1>2. /\ Local /\ (mount = "ordered" => OrderedLag)
  BY <1>1, UnscarredIs
<1>3. \A d \in lag \cup {disk} : d \in Disk /\ (~hard => d.box.journal = NoJournal)
  BY DEF TypeOK, Sound
<1>4. \E d \in lag \cup {disk} : /\ disk' = Tear(d) /\ Good(d)
                                 /\ stood # NoFile => Stands(d, stood)
  <2>1. CASE mount = "ordered"
    <3>1. PICK d \in lag : disk' = Tear(d)
      BY <1>1, <2>1, SurvivorsAreDisks
    <3>2. QED BY <1>2, <2>1, <3>1 DEF OrderedLag
  <2>2. CASE mount = "torn"
    BY <1>1, <1>2, <2>2 DEF Local
  <2> QED BY <2>1, <2>2, MountsAssumption DEF TypeOK
<1>5. PICK d \in lag \cup {disk} : disk' = Tear(d) /\ Good(d) /\ (stood # NoFile => Stands(d, stood))
  BY <1>4
<1>6. d \in Disk /\ (~hard => d.box.journal = NoJournal)
  BY <1>3
<1>7. Good(disk') /\ (stood # NoFile => Stands(disk', stood))
  <2>1. Good(Tear(d)) /\ Base(Tear(d)) = Base(d) /\ (Whole(Tear(d)) <=> Whole(d))
    BY <1>5, <1>6, TearGood
  <2>2. QED BY <1>5, <2>1 DEF Stands
<1>8. Local'
  BY <1>1, <1>7 DEF Local, AtPhase, Preparing, RollingBack
<1>9. OrderedLag'
  BY <1>1, <1>7 DEF OrderedLag, Stands
<1>10. TornLag'
  BY <1>1, TornElsewhere
<1>11. Reported'
  BY <1>1 DEF Reported
<1> QED BY <1>8, <1>9, <1>10, <1>11 DEF Unscarred, Local

LEMMA UnscarredNext ==
  ASSUME TypeOK, Sound, ~scarred => Unscarred, Start \/ Run \/ PersistFails \/ Stop
  PROVE  (~scarred => Unscarred)'
<1> SUFFICES ASSUME ~scarred' PROVE Unscarred'
  OBVIOUS
<1>1. ~scarred /\ mount' = mount
  BY RunFlow, PersistFailsDoes DEF Start, Stop, world, Ended
<1>2. /\ Local /\ Reported
      /\ mount = "ordered" => OrderedLag
      /\ mount = "torn" /\ resumed = "none" => TornLag
  BY <1>1, UnscarredIs
<1>3. Local'
  BY <1>2, LocalNext
<1>4. Reported'
  BY <1>2, ReportedNext
<1>5. mount' = "ordered" => OrderedLag'
  BY <1>1, <1>2, <1>3, OrderedNext
<1>6. mount' = "torn" /\ resumed' = "none" => TornLag'
  <2>1. CASE resumed = "none"
    BY <1>1, <1>2, <1>3, <2>1, TornNext
  <2>2. CASE resumed # "none"
    <3>1. resumed' = "none" => pc' \in {"idle", "tomb", "scan", "fresh", "discard"} \/ resumed' = resumed
      <4>1. CASE Scan
        <5>1. dir \in {"none", "txn"}
          <6>1. dir \in {"none", "txn", "tomb"}
            BY DiskFields DEF TypeOK, dir
          <6>2. QED BY <4>1, <6>1 DEF Scan, Sound
        <5>2. QED BY <4>1, <5>1 DEF Scan, Resume
      <4>2. CASE Start \/ Refuse \/ PersistFails \/ Stop \/ NoOp
        BY <4>2 DEF Start, Refuse, PersistFails, Stop, NoOp, End
      <4>3. CASE Sync
        BY <4>3 DEF Sync, End, Goto
      <4>4. CASE Persist
        BY <4>4, PersistDoes DEF Moved
      <4>5. CASE Rmtree
        BY <4>5, RmtreeDoes
      <4>6. CASE MakeTxn \/ Build \/ Compare \/ SyncStaging \/ SelfCheck \/ Roll \/ Rolled \/ Entomb
        BY <4>6 DEF MakeTxn, Build, Compare, SyncStaging, SelfCheck, Roll, Rolled, Entomb, Goto
      <4>7. CASE Move
        BY <4>7 DEF Move, Backup, CommitNew, RemoveOld, RemoveJournal, RemoveNew, RestoreOld, Goto
      <4> QED BY <4>1, <4>2, <4>3, <4>4, <4>5, <4>6, <4>7 DEF Run
    <3>2. QED BY <2>2, <3>1, TornElsewhere
  <2> QED BY <2>1, <2>2
<1> QED BY <1>3, <1>4, <1>5, <1>6 DEF Unscarred, Local

LEMMA UnscarredInit == Init => Unscarred
<1> SUFFICES ASSUME Init PROVE Unscarred
  OBVIOUS
<1>1. PICK g \in Gens \cup {NoFile} :
        disk = [top |-> [pair |-> [f \in Part |-> g], dir |-> "none"], box |-> Empty]
  BY DEF Init
<1>2. disk.box = Empty /\ disk.top.dir = "none" /\ \A f \in Part : disk.top.pair[f] = g
  BY <1>1
<1>3. lag = {disk} /\ pc = "idle" /\ stood = NoFile /\ exit = "none" /\ resumed = "none"
  BY DEF Init
<1>4. PairOk(disk)
  <2>1. disk \in Disk
    BY TypeInit DEF TypeOK
  <2>2. QED BY <1>2, <2>1, PairOkIs DEF Whole, Part
<1>5. Good(disk)
  BY <1>2, <1>4 DEF Good, HasJournal
<1>6. Local
  BY <1>3, <1>5 DEF Local, AtPhase, Preparing, RollingBack
<1>7. OrderedLag
  BY <1>3, <1>5 DEF OrderedLag, Stands
<1>8. TornLag
  BY <1>3 DEF TornLag, Journalled, Committing, RollingBack
<1>9. Reported
  BY <1>3 DEF Reported
<1> QED BY <1>6, <1>7, <1>8, <1>9 DEF Unscarred, Local

LEMMA UnscarredStutter ==
  ASSUME ~scarred => Unscarred, UNCHANGED vars
  PROVE  (~scarred => Unscarred)'
<1> SUFFICES ASSUME ~scarred, Unscarred PROVE Unscarred'
  BY DEF vars
<1> USE DEF vars
<1>1. Local'
  <2>1. AtPhase' <=> AtPhase
    BY DEF AtPhase, In, NoRecord, BothAway, Away, InPlace, Replaced, Whole, dir, journal, old, staging
  <2>2. Good(disk)' /\ Base(disk)' = Base(disk) /\ (Whole(disk)' <=> Whole(disk))
    BY SameDisk DEF Unscarred
  <2>3. QED BY <2>1, <2>2 DEF Unscarred, Local, Stands
<1>2. Reported'
  BY DEF Unscarred, Reported, SameTop, Unrecorded, PairOk, Whole, journal
<1>3. OrderedLag' <=> OrderedLag
  <2>1. Base(disk)' = Base(disk)
    BY SameDisk DEF Unscarred
  <2>2. QED BY <2>1 DEF OrderedLag
<1>4. TornLag' <=> TornLag
  BY DEF TornLag, SameTop, SameBox, SameJournal, journal, old
<1> QED BY <1>1, <1>2, <1>3, <1>4 DEF Unscarred, Local

LEMMA SnapshotInvNext == SnapshotInv /\ [Next]_vars => SnapshotInv'
<1> SUFFICES ASSUME SnapshotInv, [Next]_vars PROVE SnapshotInv'
  OBVIOUS
<1>1. TypeOK /\ Sound /\ (~scarred => Unscarred)
  BY DEF SnapshotInv
<1>2. TypeOK' /\ Sound'
  BY <1>1, TypeNext, SoundNext
<1>3. (~scarred => Unscarred)'
  <2>1. CASE PowerLoss
    BY <1>1, <2>1, PowerLossUnscarred
  <2>2. CASE Start \/ Run \/ PersistFails \/ Stop
    BY <1>1, <2>2, UnscarredNext
  <2>3. ASSUME NEW f \in Part, Damage(f) PROVE (~scarred => Unscarred)'
    BY <1>1, <2>3, DamageDoes
  <2>4. CASE UNCHANGED vars
    BY <1>1, <2>4, UnscarredStutter
  <2> QED BY <2>1, <2>2, <2>3, <2>4 DEF Next
<1> QED BY <1>2, <1>3 DEF SnapshotInv

LEMMA SnapshotInvariant == Spec => []SnapshotInv
<1>1. Init => SnapshotInv
  BY TypeInit, SoundInit, UnscarredInit DEF SnapshotInv
<1> QED BY <1>1, SnapshotInvNext, PTL DEF Spec

(***************************************************************************)
(* What is good can be explained, and holds what stood.                    *)
(***************************************************************************)
LEMMA ClassIs ==
  ASSUME NEW d \in Disk, NEW f \in Part,
         d.box.journal.gen \in Gens, d.box.journal.plan \in Known \ {d.box.journal.gen}
  PROVE  LET plan == d.box.journal.plan IN
         /\ InPlace(d, f) => /\ Class(d, f) = IF plan = NoFile THEN "absent" ELSE "old"
                             /\ d.box.old[f] = NoFile
         /\ Away(d, f) => Class(d, f) = "absent" /\ d.box.old[f] = plan
         /\ Replaced(d, f) => Class(d, f) = "new" /\ d.box.old[f] = plan
         /\ d.top.pair[f] = d.box.journal.gen => Class(d, f) = "new"
BY GensAssumption DEF Class, InPlace, Away, Replaced, Known

LEMMA GoodAccepts ==
  ASSUME NEW d \in Disk, Good(d), SoundBox(d.box)
  PROVE  Accepts(d)
<1> DEFINE j == d.box.journal
<1> SUFFICES ASSUME d.top.dir = "txn", j.state # "none"
             PROVE  /\ d.box.made /\ Facts(d) /\ Invariants(d)
                    /\ j.state = "staged" => Fingerprint(d)
  BY DEF Accepts, Good, HasJournal
<1>1. d.box.made /\ Progress(d)
  BY DEF Good, HasJournal
<1>2. j.gen \in Gens /\ j.plan \in Known \ {j.gen}
  BY DEF SoundBox
<1>3. j.state \in States
  BY DiskFields
<1>4. ASSUME NEW f \in Part
      PROVE  /\ InPlace(d, f) => /\ Class(d, f) = IF j.plan = NoFile THEN "absent" ELSE "old"
                                 /\ d.box.old[f] = NoFile
             /\ Away(d, f) => Class(d, f) = "absent" /\ d.box.old[f] = j.plan
             /\ Replaced(d, f) => Class(d, f) = "new" /\ d.box.old[f] = j.plan
             /\ d.top.pair[f] = j.gen => Class(d, f) = "new"
  BY <1>2, ClassIs
<1>5. j.state # "verified" =>
        \A f \in Part : InPlace(d, f) \/ Away(d, f) \/ Replaced(d, f)
  BY <1>1, <1>3 DEF Progress, Part, States
<1>6. Facts(d)
  <2>1. \A f \in Part : Class(d, f) # "unknown" /\ d.box.old[f] \in {NoFile, j.plan}
    <3>1. CASE j.state = "verified"
      BY <1>1, <1>4, <3>1 DEF Progress
    <3>2. CASE j.state # "verified"
      BY <1>4, <1>5, <3>2
    <3> QED BY <3>1, <3>2
  <2>2. j.state # "verified" =>
          \A f \in Part : IF j.plan = NoFile THEN d.box.old[f] = NoFile
                          ELSE d.box.old[f] # NoFile <=> Class(d, f) # "old"
    BY <1>4, <1>5
  <2>3. j.state # "rolling_back" => Classes(d) \notin {<<"new", "old">>, <<"old", "new">>}
    <3>1. CASE j.state = "staged"
      BY <1>1, <1>4, <3>1 DEF Progress, Classes, Part
    <3>2. CASE j.state \in {"backed_up", "tarball_committed", "sha_committed"}
      BY <1>1, <1>4, <3>2 DEF Progress, Classes, Part
    <3>3. CASE j.state = "verified"
      BY <1>1, <1>4, <3>3 DEF Progress, Classes, Part
    <3> QED BY <1>3, <3>1, <3>2, <3>3 DEF States
  <2>4. QED BY <2>1, <2>2, <2>3 DEF Facts
<1>7. Invariants(d)
  <2>1. CASE j.state = "staged"
    <3>1. \A f \in Part : Class(d, f) # "new"
      BY <1>1, <1>4, <2>1 DEF Progress, Part
    <3>2. QED BY <2>1, <3>1 DEF Invariants
  <2>2. CASE j.state = "rolling_back"
    <3>1. Classes(d) \in RollingBackOk
      <4>1. CASE Replaced(d, "sha") /\ (Replaced(d, "tar") \/ Away(d, "tar"))
        BY <1>4, <4>1 DEF Classes, Part, RollingBackOk
      <4>2. CASE Away(d, "sha") /\ (Away(d, "tar") \/ InPlace(d, "tar"))
        BY <1>4, <4>2 DEF Classes, Part, RollingBackOk
      <4>3. CASE \A f \in Part : InPlace(d, f)
        BY <1>4, <4>3 DEF Classes, Part, RollingBackOk
      <4> QED BY <1>1, <2>2, <4>1, <4>2, <4>3 DEF Progress
    <3>2. QED BY <2>2, <3>1 DEF Invariants
  <2>3. CASE j.state \in {"backed_up", "tarball_committed"}
    BY <1>1, <1>4, <2>3 DEF Progress, Invariants, Part
  <2>4. CASE j.state \in {"sha_committed", "verified"}
    <3>1. \A f \in Part : Class(d, f) = "new"
      BY <1>1, <1>4, <2>4 DEF Progress
    <3>2. QED BY <2>4, <3>1 DEF Invariants, Classes, Part
  <2> QED BY <1>3, <2>1, <2>2, <2>3, <2>4 DEF States
<1>8. j.state = "staged" => Fingerprint(d)
  BY <1>1 DEF Progress
<1> QED BY <1>1, <1>6, <1>7, <1>8

LEMMA GoodHolds ==
  ASSUME NEW d \in Disk, Good(d), SoundBox(d.box), NEW g, g # NoFile, Stands(d, g)
  PROVE  Whole(d) \/ \A f \in Part : g \in {d.top.pair[f], d.box.old[f]}
<1>1. CASE HasJournal(d)
  <2>1. Progress(d) /\ d.box.journal.gen \in Gens /\ d.box.journal.state \in States
    BY <1>1, DiskFields DEF Good, SoundBox, HasJournal
  <2>2. CASE d.box.journal.state = "verified"
    BY <2>1, <2>2 DEF Progress, Whole
  <2>3. CASE d.box.journal.state # "verified"
    <3>1. \A f \in Part : InPlace(d, f) \/ Away(d, f) \/ Replaced(d, f)
      BY <1>1, <2>1, <2>3 DEF Progress, Part, States, HasJournal
    <3>2. Whole(d) \/ d.box.journal.plan = g
      BY <1>1 DEF Stands, Base
    <3>3. QED BY <3>1, <3>2 DEF InPlace, Away, Replaced
  <2> QED BY <2>2, <2>3
<1>2. CASE ~HasJournal(d)
  BY <1>2, PairOkIs DEF Good, Stands, Base
<1> QED BY <1>1, <1>2

(***************************************************************************)
(* Behind a barrier it does not matter which moment of each directory a    *)
(* torn file system keeps.                                                 *)
(***************************************************************************)
LEMMA MixedIs ==
  ASSUME TypeOK, NEW e \in Mixed
  PROVE  \E a, b \in lag :
           /\ a \in Disk /\ b \in Disk /\ e \in Disk /\ e.top = a.top
           /\ e.box = b.box \/ e.box = Empty
           /\ a.top.dir # "none" => e.box = b.box
<1>1. PICK a \in lag, b \in lag : e = Norm([top |-> a.top, box |-> b.box])
  BY DEF Mixed
<1>2. a \in Disk /\ b \in Disk
  BY DEF TypeOK
<1> DEFINE d == [top |-> a.top, box |-> b.box]
<1>3. d \in Disk /\ d.top = a.top /\ d.box = b.box
  BY <1>2 DEF Disk
<1> HIDE DEF d
<1>4. Norm(d) \in Disk /\ Norm(d).top = d.top /\ (d.top.dir = "none" => Norm(d).box = Empty)
      /\ (d.top.dir # "none" => Norm(d) = d)
  BY <1>3, NormIs
<1>5. /\ e \in Disk /\ e.top = a.top
      /\ e.box = b.box \/ e.box = Empty
      /\ a.top.dir # "none" => e.box = b.box
  BY <1>1, <1>3, <1>4 DEF d
<1> QED BY <1>2, <1>5

LEMMA SameProgress ==
  ASSUME NEW d \in Disk, NEW e \in Disk, Good(d), HasJournal(d), d.box.journal.state # "staged",
         e.top = d.top, e.box.journal = d.box.journal, e.box.old = d.box.old,
         e.box.made = d.box.made
  PROVE  Good(e) /\ Base(e) = Base(d)
<1>1. HasJournal(e) /\ Base(e) = Base(d)
  BY DEF HasJournal, Base
<1>2. Progress(e)
  <2>1. \A f \in Part : /\ InPlace(e, f) <=> InPlace(d, f)
                        /\ Away(e, f) <=> Away(d, f)
                        /\ Replaced(e, f) <=> Replaced(d, f)
    BY DEF InPlace, Away, Replaced
  <2>2. Progress(d) /\ d.box.journal.state \in States
    BY DiskFields DEF Good
  <2>3. QED BY <2>1, <2>2 DEF Progress, Part, States
<1> QED BY <1>1, <1>2 DEF Good, HasJournal

LEMMA MixedGood ==
  ASSUME TypeOK, Sound, Unscarred, mount = "torn", AtBarrier, NEW e \in Mixed
  PROVE  /\ e \in Disk /\ Good(e) /\ Base(e) = stood /\ SoundBox(e.box)
         /\ ~hard => e.box.journal = NoJournal
<1>1. PICK a \in lag, b \in lag :
        /\ a \in Disk /\ b \in Disk /\ e \in Disk /\ e.top = a.top
        /\ a.top.dir # "none" => e.box = b.box
  BY MixedIs
<1>2. TornLag /\ stood = Base(disk) /\ Good(disk) /\ disk \in Disk
  BY DEF Unscarred, AtBarrier, TypeOK
<1>3. CASE pc = "bury"
  <2>1. dir = "tomb" /\ e.top = disk.top /\ e.box = b.box
    BY <1>1, <1>2, <1>3 DEF Unscarred, AtPhase, TornLag, SameTop, dir
  <2>2. Good(e) /\ Base(e) = Base(disk)
    BY <1>2, <2>1 DEF Good, HasJournal, Base, PairOk, Whole, dir
  <2>3. QED BY <1>1, <1>2, <2>1, <2>2 DEF Sound
<1>4. CASE pc # "bury"
  <2>1. pc \in Journalled
    BY <1>4 DEF AtBarrier, Journalled, Committing, RollingBack
  <2>2. a.top.dir = "txn" /\ e.box = b.box
    BY <1>1, <1>2, <2>1 DEF TornLag
  <2>3. Good(e) /\ Base(e) = Base(disk)
    <3>1. CASE SameTop /\ SameBox
      <4>1. e = disk
        BY <1>1, <1>2, <2>2, <3>1, DisksEqual DEF SameTop, SameBox
      <4>2. QED BY <1>2, <4>1
    <3>2. CASE pc \in {"p_tarball", "p_sha"}
      <4>1. SameTop /\ SameJournal
        BY <1>2, <3>2 DEF TornLag
      <4>2. HasJournal(disk) /\ journal.state # "staged"
        BY <3>2 DEF Unscarred, AtPhase, In, HasJournal, dir, journal
      <4>3. QED BY <1>1, <1>2, <2>2, <4>1, <4>2, SameProgress DEF SameTop, SameJournal, journal, old
    <3>3. CASE pc = "restore_sha"
      <4>1. SameBox /\ Good(a)
        BY <1>2, <3>3 DEF TornLag
      <4>2. e = a
        BY <1>1, <2>2, <4>1, DisksEqual DEF SameBox
      <4>3. dir = "txn" /\ a.box = disk.box
        BY <3>3, <4>1 DEF Unscarred, AtPhase, In, RollingBack, SameBox
      <4>4. journal.state # "none"
        BY <2>1 DEF Sound
      <4>5. QED BY <2>2, <4>1, <4>2, <4>3, <4>4 DEF Base, HasJournal, dir, journal
    <3>4. pc \in {"p_backed", "commit_tar", "commit_sha", "check", "p_verified", "rm_old_tar",
                  "p_rolling", "roll"} => SameTop /\ SameBox
      BY <1>2 DEF TornLag
    <3> QED BY <1>4, <3>1, <3>2, <3>3, <3>4 DEF AtBarrier
  <2>4. QED BY <1>1, <1>2, <2>2, <2>3 DEF Sound
<1> QED BY <1>3, <1>4

LEMMA SurvivorsGood ==
  ASSUME SnapshotInv, ~scarred, mount = "ordered" \/ AtBarrier, NEW e \in Survivors
  PROVE  /\ e \in Disk /\ Good(e) /\ SoundBox(e.box)
         /\ stood # NoFile => Stands(e, stood)
<1>1. TypeOK /\ Sound /\ Unscarred
  BY DEF SnapshotInv
<1>2. \E d \in Disk : /\ e = Tear(d) /\ Good(d) /\ SoundBox(d.box)
                      /\ ~hard => d.box.journal = NoJournal
                      /\ stood # NoFile => Stands(d, stood)
  <2>1. CASE mount = "ordered"
    <3>1. PICK d \in lag : e = Tear(d)
      BY <1>1, <2>1, SurvivorsAreDisks
    <3>2. d \in Disk /\ SoundBox(d.box) /\ (~hard => d.box.journal = NoJournal)
      BY <1>1 DEF TypeOK, Sound
    <3>3. Good(d) /\ (stood # NoFile => Stands(d, stood))
      BY <1>1, <2>1 DEF Unscarred, OrderedLag
    <3>4. QED BY <3>1, <3>2, <3>3
  <2>2. CASE mount # "ordered"
    <3>1. mount = "torn" /\ AtBarrier
      BY <1>1, <2>2, MountsAssumption DEF TypeOK
    <3>2. PICK d \in Mixed : e = Tear(d)
      BY <2>2 DEF Survivors
    <3>3. /\ d \in Disk /\ Good(d) /\ Base(d) = stood /\ SoundBox(d.box)
          /\ ~hard => d.box.journal = NoJournal
      BY <1>1, <3>1, MixedGood
    <3>4. QED BY <3>2, <3>3 DEF Stands
  <2> QED BY <2>1, <2>2
<1>3. PICK d \in Disk : /\ e = Tear(d) /\ Good(d) /\ SoundBox(d.box)
                        /\ ~hard => d.box.journal = NoJournal
                        /\ stood # NoFile => Stands(d, stood)
  BY <1>2
<1>4. e \in Disk /\ Good(e) /\ Base(e) = Base(d) /\ (Whole(e) <=> Whole(d)) /\ SoundBox(e.box)
  BY <1>3, TearIs, TearGood, TearSound
<1> QED BY <1>3, <1>4 DEF Stands

\* Whatever the crash, the next run can read the journal and go on from the disk:
\* the checks of read_journal, facts_check and state_invariants pass.
THEOREM EveryCrashIsExplained == Spec => []Explained
<1>1. SnapshotInv => Explained
  <2> SUFFICES ASSUME SnapshotInv, ~scarred, mount = "ordered" \/ AtBarrier, NEW d \in Survivors
               PROVE  Accepts(d)
    BY DEF Explained
  <2> QED BY SurvivorsGood, GoodAccepts
<1> QED BY <1>1, SnapshotInvariant, PTL

\* The pair the run found survives any crash, in OUT_DIR or in the backups of .txn,
\* until a whole pair stands there durably.
THEOREM EveryCrashKeepsAPair == Spec => []KeepsAPair
<1>1. SnapshotInv => KeepsAPair
  <2> SUFFICES ASSUME SnapshotInv, ~scarred, mount = "ordered" \/ AtBarrier, stood # NoFile,
                      NEW d \in Survivors
               PROVE  Whole(d) \/ \A f \in Part : stood \in {d.top.pair[f], d.box.old[f]}
    BY DEF KeepsAPair
  <2>1. d \in Disk /\ Good(d) /\ SoundBox(d.box) /\ Stands(d, stood)
    BY SurvivorsGood
  <2> QED BY <2>1, GoodHolds
<1> QED BY <1>1, SnapshotInvariant, PTL

\* What exit 0 and exit 1 say of the disk is true of it after a power loss too.
THEOREM ReportsAreDurable == Spec => []ReportIsDurable
<1>1. SnapshotInv => ReportIsDurable
  <2> SUFFICES ASSUME SnapshotInv, exit \in {"ok", "restored"}, ~scarred, NEW e \in Survivors
               PROVE  /\ PairOk(e) /\ e.box.journal = NoJournal
                      /\ exit = "ok" => Whole(e) /\ e.top.pair = pair
    BY DEF ReportIsDurable
  <2>1. TypeOK /\ SameTop /\ Unrecorded /\ PairOk(disk) /\ (exit = "ok" => Whole(disk))
    BY DEF SnapshotInv, Unscarred, Reported
  <2>2. e.top = disk.top /\ e.box.journal = NoJournal
    <3>1. CASE mount = "ordered"
      <4>1. PICK d \in lag : e = Tear(d)
        BY <2>1, <3>1, SurvivorsAreDisks
      <4>2. d \in Disk
        BY <2>1 DEF TypeOK
      <4>3. QED BY <2>1, <4>1, <4>2, TearIs DEF SameTop, Unrecorded
    <3>2. CASE mount # "ordered"
      <4>1. PICK d \in Mixed : e = Tear(d)
        BY <3>2 DEF Survivors
      <4>2. PICK a \in lag, b \in lag : /\ d \in Disk /\ d.top = a.top
                                        /\ d.box = b.box \/ d.box = Empty
        BY <2>1, MixedIs
      <4>3. QED BY <2>1, <4>1, <4>2, TearIs, EmptyIs DEF SameTop, Unrecorded
    <3> QED BY <3>1, <3>2
  <2>3. QED BY <2>1, <2>2 DEF PairOk, Whole, pair
<1> QED BY <1>1, SnapshotInvariant, PTL

(***************************************************************************)
(* The transaction implements the generation store.  A verified journal    *)
(* makes the new pair the one the directory stands for; on an ordered file *)
(* system only when no disk a power loss may leave stands for the old one  *)
(* any more.                                                               *)
(***************************************************************************)
Verified(d) == HasJournal(d) /\ d.box.journal.state = "verified"
Held(d) == IF Verified(d) THEN d.box.journal.gen ELSE Base(d)

Lasting ==
  IF mount = "ordered" /\ \E d \in lag : Held(d) = Base(disk) THEN Base(disk) ELSE Held(disk)

\* Odd bytes are no snapshot.
Named(g) == IF g \in Gens THEN g ELSE NoFile

Store == Named(Lasting)
Target == Named(IF HasJournal(disk) THEN journal.gen ELSE new)

Promise == INSTANCE GenerationStore
             WITH None <- NoFile, Wrecks <- TRUE,
                  store <- Store, target <- Target, hurt <- scarred

\* What a power loss leaves stands for the pair before the transaction the disk is
\* in, or for the one it has verified; and .txn is durable before its journal goes.
LagIsHeld ==
  ~scarred /\ mount = "ordered" =>
    /\ \A d \in lag : Held(d) = Base(disk) \/ Held(d) = Held(disk)
    /\ pc = "rm_journal" => lag = {disk}

LEMMA HeldKept ==
  ASSUME Base(disk)' = Base(disk),
         \/ ~Verified(disk) /\ ~Verified(disk)'
         \/ Verified(disk) /\ Verified(disk)' /\ journal.gen' = journal.gen
  PROVE  Held(disk)' = Held(disk)
BY DEF Held, journal

LEMMA SameHeld ==
  ASSUME disk' = disk
  PROVE  Base(disk)' = Base(disk) /\ Held(disk)' = Held(disk)
BY DEF Held, Verified, Base, HasJournal

\* In a journalled phase it is the journal that says what is verified.
LEMMA VerifiedIs ==
  /\ In("verified") => Verified(disk)
  /\ \A s \in States \ {"verified"} : In(s) => ~Verified(disk)
  /\ NoRecord => ~HasJournal(disk)
  /\ dir # "txn" => ~HasJournal(disk)
BY EmptyIs DEF In, NoRecord, Verified, HasJournal, dir, journal

LEMMA VerifiedSame ==
  ASSUME disk'.top.dir = dir, disk'.box.journal = journal
  PROVE  /\ Verified(disk)' <=> Verified(disk)
         /\ journal.gen' = journal.gen
         /\ HasJournal(disk)' <=> HasJournal(disk)
BY DEF Verified, HasJournal, dir, journal

\* A finished check makes the new pair the one that is held, the removal of the
\* journal makes it the base; no other step of a run changes either.
LEMMA HeldPersist ==
  ASSUME TypeOK, Sound, Local, Base(disk)' = Base(disk), Persist \/ PersistFails
  PROVE  \/ Held(disk)' = Held(disk)
         \/ /\ pc = "p_verified" /\ Held(disk) = Base(disk)
            /\ HasJournal(disk) /\ Held(disk)' = journal.gen
<1>0. /\ pc \in DOMAIN Persisting /\ Persisting[pc][1] \in States
      /\ disk'.top = disk.top /\ disk'.box.journal = Record(Persisting[pc][1])
  BY PersistDoes, PersistFailsDoes
<1>r. Record(Persisting[pc][1]).state = Persisting[pc][1] /\ Record(Persisting[pc][1]).gen = new
  BY <1>0, RecordIs
<1>1. CASE pc = "p_verified"
  <2>1. In("sha_committed") /\ new = journal.gen
    BY <1>1 DEF Local, AtPhase, Sound, Journalled
  <2>2. ~Verified(disk) /\ HasJournal(disk) /\ dir = "txn"
    BY <2>1 DEF In, Verified, HasJournal, dir, journal
  <2>3. Verified(disk)' /\ journal.gen' = new
    BY <1>0, <1>1, <1>r, <2>2, PersistingIs DEF Verified, HasJournal, dir, journal
  <2>4. Held(disk)' = journal.gen /\ Held(disk) = Base(disk)
    BY <2>1, <2>2, <2>3 DEF Held, journal
  <2> QED BY <1>1, <2>2, <2>4
<1>2. CASE pc # "p_verified"
  <2>1. Persisting[pc][1] # "verified"
    BY <1>0, <1>2, PersistingIs
  <2>2. ~Verified(disk)'
    BY <1>0, <1>r, <2>1 DEF Verified
  <2>3. \/ NoRecord
        \/ \E s \in States \ {"verified"} : In(s)
    BY <1>0, <1>2, PersistingIs DEF Local, AtPhase, Preparing, States
  <2>4. ~Verified(disk)
    BY <2>3, VerifiedIs DEF Verified
  <2> QED BY <2>2, <2>4, HeldKept
<1> QED BY <1>1, <1>2

LEMMA HeldMove ==
  ASSUME TypeOK, Sound, Local, Base(disk)' = Base(disk), Move, pc # "rm_journal"
  PROVE  Held(disk)' = Held(disk)
<1>1. ASSUME NEW f \in Part, Backup(f) \/ CommitNew(f) \/ RemoveOld(f) \/ RemoveNew(f) \/ RestoreOld(f)
      PROVE  disk'.top.dir = dir /\ disk'.box.journal = journal
  <2>1. CASE Backup(f)
    BY <2>1, BackupDoes DEF SameRecord, dir, journal
  <2>2. CASE CommitNew(f)
    BY <2>2, CommitNewDoes DEF SameRecord, journal
  <2>3. CASE RemoveOld(f)
    BY <2>3, RemoveOldDoes DEF SameRecord, dir, journal
  <2>4. CASE RemoveNew(f)
    BY <2>4, RemoveNewDoes DEF dir, journal
  <2>5. CASE RestoreOld(f)
    BY <2>5, RestoreOldDoes DEF SameRecord, dir, journal
  <2> QED BY <1>1, <2>1, <2>2, <2>3, <2>4, <2>5
<1>2. disk'.top.dir = dir /\ disk'.box.journal = journal
  BY <1>1 DEF Move, Part
<1> QED BY <1>2, VerifiedSame, HeldKept

\* What rmtree removes is no journal of a transaction.
LEMMA HeldRmtree ==
  ASSUME TypeOK, Sound, Local, Rmtree
  PROVE  Base(disk)' = Base(disk) /\ Held(disk)' = Held(disk)
<1>1. pc \in {"tomb", "discard", "rmtree", "bury"} /\ disk'.top.pair = pair
  BY RmtreeDoes, RemovingIs
<1>2. ~HasJournal(disk)
  BY <1>1, VerifiedIs DEF Local, AtPhase
<1>3. \/ disk'.top.dir = dir /\ disk'.box.journal \in {journal, NoJournal}
      \/ disk'.top.dir = "none"
  BY RmtreeDoes DEF dir
<1>4. ~HasJournal(disk)'
  BY <1>2, <1>3, EmptyIs DEF HasJournal, dir, journal
<1> QED BY <1>1, <1>2, <1>4 DEF Held, Verified, Base, pair

LEMMA HeldRun ==
  ASSUME TypeOK, Sound, Local, Local', Start \/ Run \/ PersistFails \/ Stop
  PROVE  \/ Base(disk)' = Base(disk) /\ Held(disk)' = Held(disk)
         \/ /\ pc = "p_verified" /\ Base(disk)' = Base(disk) /\ Held(disk) = Base(disk)
            /\ HasJournal(disk) /\ Held(disk)' = journal.gen
         \/ pc = "rm_journal" /\ Base(disk)' = Held(disk) /\ Held(disk)' = Held(disk)
<1>1. CASE disk' = disk
  BY <1>1, SameHeld
<1>2. CASE Rmtree
  BY <1>2, HeldRmtree
<1>3. CASE Move /\ pc = "rm_journal"
  <2>1. RemoveJournal /\ In("verified")
    BY <1>3 DEF Move, Local, AtPhase
  <2>2. disk'.top = disk.top /\ disk'.box.journal = NoJournal
    BY <2>1, RemoveJournalDoes
  <2>3. Verified(disk) /\ Progress(disk)
    BY <2>1, VerifiedIs DEF Local, Good, Verified
  <2>4. pair["tar"] = journal.gen
    BY <2>3 DEF Progress, Verified, Part, pair, journal
  <2>5. ~HasJournal(disk)'
    BY <2>2, EmptyIs DEF HasJournal
  <2>6. Held(disk) = journal.gen /\ Base(disk)' = pair["tar"] /\ Held(disk)' = pair["tar"]
    BY <2>2, <2>3, <2>5 DEF Held, Verified, Base, journal, pair
  <2> QED BY <1>3, <2>4, <2>6
<1>4. CASE disk' # disk /\ ~Rmtree /\ ~(Move /\ pc = "rm_journal")
  <2>1. pc \notin {"rm_journal", "rmtree", "done_out"}
    <3>1. CASE Start \/ Stop \/ Scan \/ Refuse \/ Compare \/ SyncStaging \/ SelfCheck \/ Roll \/ Rolled
      BY <1>4, <3>1 DEF Start, Stop, Scan, Refuse, Compare, SyncStaging, SelfCheck, Roll, Rolled, Keep
    <3>2. CASE MakeTxn \/ Build \/ NoOp \/ Entomb
      BY <3>2 DEF MakeTxn, Build, NoOp, Entomb
    <3>3. CASE Persist \/ PersistFails
      BY <3>3, PersistDoes, PersistFailsDoes, PersistingIs
    <3>4. CASE Sync
      BY <1>4, <3>4 DEF Sync, SyncTop, SyncBox
    <3>5. CASE Move
      BY <1>4, <3>5 DEF Move
    <3> QED BY <1>4, <3>1, <3>2, <3>3, <3>4, <3>5 DEF Run
  <2>2. Base(disk)' = Base(disk)
    BY <2>1, StepBase
  <2>3. CASE Persist \/ PersistFails
    BY <2>2, <2>3, HeldPersist
  <2>4. CASE Move
    BY <1>4, <2>2, <2>4, HeldMove
  <2>5. CASE MakeTxn
    <3>1. dir # "txn" /\ disk'.box.journal = NoJournal
      BY <2>5, MakeTxnDoes, EmptyIs DEF Local, AtPhase
    <3>2. ~Verified(disk) /\ ~Verified(disk)'
      BY <3>1, VerifiedIs, EmptyIs DEF Verified
    <3> QED BY <2>2, <3>2, HeldKept
  <2>6. CASE Build \/ NoOp
    <3>1. disk'.top = disk.top /\ disk'.box.journal = journal
      BY <2>6, BuildDoes, NoOpDoes
    <3> QED BY <2>2, <3>1, VerifiedSame, HeldKept DEF dir
  <2>7. CASE Entomb
    <3>1. In("rolling_back") /\ disk'.top.dir = "tomb"
      BY <2>7, EntombDoes DEF Local, AtPhase
    <3>2. ~Verified(disk) /\ ~Verified(disk)'
      BY <3>1, VerifiedIs DEF States, Verified, HasJournal
    <3> QED BY <2>2, <3>2, HeldKept
  <2>8. ~(Start \/ Stop \/ Scan \/ Refuse \/ Compare \/ SyncStaging \/ Sync \/ SelfCheck \/ Roll \/ Rolled)
    BY <1>4 DEF Start, Stop, Scan, Refuse, Compare, SyncStaging, SelfCheck, Roll, Rolled, Keep, Sync,
       SyncTop, SyncBox
  <2> QED BY <1>4, <2>3, <2>4, <2>5, <2>6, <2>7, <2>8 DEF Run
<1> QED BY <1>1, <1>2, <1>3, <1>4

\* A kill or a power loss on an ordered file system leaves one of the two pairs; on
\* a torn one that counts as harm unless it leaves the last disk.
LEMMA HeldPowerLoss ==
  ASSUME TypeOK, PowerLoss, ~scarred'
  PROVE  /\ lag' = {disk'} /\ pc' = "idle" /\ mount' = mount /\ ~scarred
         /\ \E d \in lag \cup {disk} :
              /\ mount = "ordered" => d \in lag
              /\ mount # "ordered" => d = disk
              /\ Held(disk)' = Held(d)
<1>1. /\ lag' = {disk'} /\ pc' = "idle" /\ mount' = mount /\ ~scarred
      /\ disk' \in Survivors /\ ~(mount = "torn" /\ disk' # Tear(disk))
  BY PowerLossDoes DEF Ended
<1>2. ASSUME NEW d \in Disk, disk' = Tear(d) PROVE Held(disk)' = Held(d)
  BY <1>2, TearIs DEF Held, Verified, Base, HasJournal
<1>3. \A d \in lag \cup {disk} : d \in Disk
  BY DEF TypeOK
<1>4. CASE mount = "ordered"
  BY <1>1, <1>2, <1>3, <1>4, SurvivorsAreDisks
<1>5. CASE mount = "torn"
  BY <1>1, <1>2, <1>3, <1>5
<1> QED BY <1>1, <1>4, <1>5, MountsAssumption DEF TypeOK

LEMMA LagIsHeldInit == Init => LagIsHeld
BY DEF Init, LagIsHeld

LEMMA LagIsHeldNext == SnapshotInv /\ LagIsHeld /\ [Next]_vars => LagIsHeld'
<1> SUFFICES ASSUME SnapshotInv, SnapshotInv', LagIsHeld, [Next]_vars, ~scarred', mount' = "ordered"
             PROVE  /\ \A d \in lag' : Held(d) = Base(disk)' \/ Held(d) = Held(disk)'
                    /\ pc' = "rm_journal" => lag' = {disk'}
  BY SnapshotInvNext DEF LagIsHeld
<1>t. TypeOK /\ Sound /\ (~scarred => Unscarred) /\ (~scarred' => Unscarred')
  BY DEF SnapshotInv
<1>0. Held(disk') = Held(disk)' /\ Base(disk') = Base(disk)'
  OBVIOUS
<1>1. CASE lag' = {disk'}
  BY <1>0, <1>1
<1>2. CASE PowerLoss
  BY <1>0, <1>2, <1>t, HeldPowerLoss
<1>3. CASE Start \/ Run \/ PersistFails \/ Stop
  <2>1. ~scarred /\ mount = "ordered"
    BY <1>3, <1>t, RunFlow, PersistFailsDoes DEF Start, Stop, world, Ended
  <2>2. Local /\ Local' /\ OrderedLag
    BY <1>t, <2>1 DEF Unscarred, Local
  <2>3. /\ \A d \in lag : Held(d) = Base(disk) \/ Held(d) = Held(disk)
        /\ pc = "rm_journal" => lag = {disk}
    BY <2>1 DEF LagIsHeld
  <2>4. lag' = lag \cup {disk'} \/ (disk' = disk /\ lag' = lag) \/ lag' = {disk'}
    BY <1>3, <1>t, <2>1, OrderedStep
  <2>5. lag' \subseteq lag \cup {disk'}
    BY <2>2, <2>4 DEF OrderedLag
  <2>6. \A d \in lag : Held(d) = Base(disk)' \/ Held(d) = Held(disk)'
    BY <1>3, <1>t, <2>2, <2>3, HeldRun
  <2>7. pc' = "rm_journal" => lag' = {disk'}
    <3>1. pc' = "rm_journal" => Run
      BY <1>3 DEF Start, PersistFails, Stop, End
    <3> QED BY <1>t, <2>1, <3>1, RunFlow, SyncTopDoes, SyncBoxDoes DEF Sync
  <2> QED BY <1>0, <2>5, <2>6, <2>7
<1>4. ASSUME NEW f \in Part, Damage(f) PROVE FALSE
  BY <1>4, <1>t, DamageDoes
<1>5. CASE UNCHANGED vars
  <2>1. Base(disk)' = Base(disk) /\ Held(disk)' = Held(disk)
    BY <1>5, SameHeld DEF vars
  <2> QED BY <1>5, <2>1 DEF vars, LagIsHeld
<1> QED BY <1>2, <1>3, <1>4, <1>5 DEF Next

LEMMA LagIsHeldHolds == Spec => [](SnapshotInv /\ LagIsHeld)
<1>1. Init => SnapshotInv
  BY TypeInit, SoundInit, UnscarredInit DEF SnapshotInv
<1> QED BY <1>1, SnapshotInvNext, LagIsHeldInit, LagIsHeldNext, PTL DEF Spec

\* What is held is the pair before the transaction or the one its journal names.
LEMMA HeldIs == Held(disk) = Base(disk) \/ (HasJournal(disk) /\ Held(disk) = journal.gen)
BY DEF Held, Verified, journal

LEMMA LastingIs ==
  /\ Lasting = Base(disk) \/ Lasting = Held(disk)
  /\ mount # "ordered" => Lasting = Held(disk)
  /\ mount = "ordered" =>
       IF \E d \in lag : Held(d) = Base(disk) THEN Lasting = Base(disk) ELSE Lasting = Held(disk)
BY DEF Lasting

LEMMA PrimedLasting ==
  /\ mount' # "ordered" => Lasting' = Held(disk)'
  /\ mount' = "ordered" =>
       IF \E d \in lag' : Held(d) = Base(disk)' THEN Lasting' = Base(disk)'
       ELSE Lasting' = Held(disk)'
BY DEF Lasting

\* What the directory stands for changes only to the pair its journal names.
LEMMA LastingStep ==
  ASSUME SnapshotInv, SnapshotInv', LagIsHeld, [Next]_vars, ~scarred, ~scarred'
  PROVE  Lasting' = Lasting \/ (HasJournal(disk) /\ Lasting' = journal.gen)
<1>t. TypeOK /\ Sound /\ Unscarred /\ Unscarred'
  BY DEF SnapshotInv
<1>0. /\ Held(disk') = Held(disk)' /\ Base(disk') = Base(disk)'
      /\ mount = "ordered" => disk \in lag
  BY <1>t DEF Unscarred, OrderedLag
<1>i. lag' = {disk'} => Lasting' = Held(disk)'
  BY <1>0, PrimedLasting
<1>1. CASE PowerLoss
  <2>1. PICK d \in lag \cup {disk} :
          /\ mount = "ordered" => d \in lag
          /\ mount # "ordered" => d = disk
          /\ Held(disk)' = Held(d)
    BY <1>1, <1>t, HeldPowerLoss
  <2>2. lag' = {disk'}
    BY <1>1, <1>t, HeldPowerLoss
  <2>3. Lasting' = Held(d)
    BY <1>i, <2>1, <2>2
  <2>4. CASE mount = "ordered"
    <3>1. Held(d) = Base(disk) \/ Held(d) = Held(disk)
      BY <2>1, <2>4 DEF LagIsHeld
    <3>2. Held(d) = Base(disk) => Lasting = Base(disk)
      BY <2>1, <2>4, LastingIs
    <3> QED BY <2>3, <3>1, <3>2, HeldIs, LastingIs
  <2>5. CASE mount # "ordered"
    BY <2>1, <2>3, <2>5, LastingIs
  <2> QED BY <2>4, <2>5
<1>2. CASE Start \/ Run \/ PersistFails \/ Stop
  <2>1. mount' = mount
    BY <1>2, <1>t, RunFlow, PersistFailsDoes DEF Start, Stop, world, Ended
  <2>2. Local /\ Local'
    BY <1>t DEF Unscarred, Local
  <2>3. \/ Base(disk)' = Base(disk) /\ Held(disk)' = Held(disk)
        \/ /\ pc = "p_verified" /\ Base(disk)' = Base(disk) /\ Held(disk) = Base(disk)
           /\ HasJournal(disk) /\ Held(disk)' = journal.gen
        \/ pc = "rm_journal" /\ Base(disk)' = Held(disk) /\ Held(disk)' = Held(disk)
    BY <1>2, <1>t, <2>2, HeldRun
  <2>4. CASE mount # "ordered"
    BY <2>1, <2>3, <2>4, LastingIs, PrimedLasting
  <2>5. CASE mount = "ordered" /\ lag' = {disk'}
    BY <1>i, <2>3, <2>5, HeldIs, LastingIs
  <2>6. CASE mount = "ordered" /\ lag' # {disk'}
    <3>1. lag' = lag \cup {disk'}
      BY <1>2, <1>t, <1>0, <2>6, OrderedStep
    <3>2. disk \in lag
      BY <1>0, <2>6
    <3>3. CASE Base(disk)' = Base(disk) /\ Held(disk)' = Held(disk)
      <4>1. (\E d \in lag' : Held(d) = Base(disk)') <=> (\E d \in lag : Held(d) = Base(disk))
        BY <1>0, <3>1, <3>2, <3>3
      <4> QED BY <2>1, <2>6, <3>3, <4>1, LastingIs, PrimedLasting
    <3>4. CASE Base(disk)' = Base(disk) /\ Held(disk) = Base(disk)
      BY <2>1, <2>6, <3>1, <3>2, <3>4, LastingIs, PrimedLasting
    <3>5. CASE pc = "rm_journal" /\ Base(disk)' = Held(disk) /\ Held(disk)' = Held(disk)
      <4>1. lag = {disk}
        BY <2>6, <3>5 DEF LagIsHeld
      <4>2. Lasting = Held(disk)
        BY <4>1, LastingIs
      <4> QED BY <2>1, <2>6, <3>5, <4>2, PrimedLasting
    <3> QED BY <2>3, <3>3, <3>4, <3>5
  <2> QED BY <2>4, <2>5, <2>6
<1>3. ASSUME NEW f \in Part, Damage(f) PROVE FALSE
  BY <1>3, <1>t, DamageDoes
<1>4. CASE UNCHANGED vars
  <2>1. Base(disk)' = Base(disk) /\ Held(disk)' = Held(disk)
    BY <1>4, SameHeld DEF vars
  <2> QED BY <1>4, <2>1 DEF vars, Lasting
<1> QED BY <1>1, <1>2, <1>3, <1>4 DEF Next

\* Foreign bytes, and what a torn file system leaves beside the last disk, count
\* as harm for good.
LEMMA ScarsStay ==
  ASSUME TypeOK, [Next]_vars
  PROVE  scarred \in BOOLEAN /\ scarred' \in BOOLEAN /\ (scarred => scarred')
<1>1. scarred \in BOOLEAN /\ scarred' \in BOOLEAN
  BY TypeNext DEF TypeOK
<1>2. CASE PowerLoss
  BY <1>1, <1>2, PowerLossDoes
<1>3. CASE Run
  BY <1>1, <1>3, RunFlow
<1>4. CASE Start \/ PersistFails \/ Stop \/ UNCHANGED vars
  BY <1>1, <1>4 DEF Start, PersistFails, Stop, world, vars
<1>5. ASSUME NEW f \in Part, Damage(f) PROVE scarred'
  BY <1>5, DamageDoes
<1> QED BY <1>1, <1>2, <1>3, <1>4, <1>5 DEF Next

LEMMA NamedIs ==
  /\ \A g : Named(g) \in Gens \cup {NoFile}
  /\ \A g \in Gens : Named(g) = g
BY DEF Named

LEMMA PrimedNames ==
  /\ Store' = Named(Lasting') /\ Store' \in Gens \cup {NoFile} /\ Target' \in Gens \cup {NoFile}
BY DEF Store, Target, Named

\* The directory stands for one pair or none, and only a transaction that has
\* verified its pair changes which, to that pair: no failure, kill, rollback,
\* recovery or power loss does, unless foreign bytes get onto the disk or a torn
\* file system leaves something that no run has seen.
THEOREM ImplementsGenerationStore == Spec => Promise!Spec
<1>1. Init => Promise!Init
  <2>1. ASSUME Init
        PROVE  /\ Store \in Gens \cup {NoFile} /\ Target \in Gens \cup {NoFile}
               /\ scarred = FALSE
    BY <2>1, NamedIs DEF Init, Store, Target
  <2> QED BY <2>1 DEF Promise!Init, Promise!Standing
<1>2. SnapshotInv /\ SnapshotInv' /\ LagIsHeld /\ [Next]_vars
        => [Promise!Next]_<<Store, Target, scarred>>
  <2> SUFFICES ASSUME SnapshotInv, SnapshotInv', LagIsHeld, [Next]_vars
               PROVE  [Promise!Next]_<<Store, Target, scarred>>
    OBVIOUS
  <2>1. Store' \in Promise!Standing /\ Target' \in Promise!Standing
    BY PrimedNames DEF Promise!Standing
  <2>2. scarred \in BOOLEAN /\ scarred' \in BOOLEAN /\ (scarred => scarred')
    BY ScarsStay DEF SnapshotInv
  <2>3. CASE scarred'
    BY <2>1, <2>2, <2>3 DEF Promise!Next, Promise!Wreck
  <2>4. CASE ~scarred'
    <3>1. scarred' = scarred /\ ~scarred
      BY <2>2, <2>4
    <3>2. CASE Lasting' = Lasting
      <4>1. Store' = Store
        BY <3>2, PrimedNames DEF Store
      <4> QED BY <2>1, <3>1, <4>1 DEF Promise!Next, Promise!Stand
    <3>3. CASE HasJournal(disk) /\ Lasting' = journal.gen
      <4>1. journal.gen \in Gens
        BY <3>3, JournalFacts DEF HasJournal, SnapshotInv, journal
      <4>2. Target = journal.gen /\ Store' = journal.gen
        BY <3>3, <4>1, PrimedNames, NamedIs DEF Target
      <4> QED BY <2>1, <3>1, <4>1, <4>2 DEF Promise!Next, Promise!Publish
    <3> QED BY <2>4, <3>1, <3>2, <3>3, LastingStep
  <2> QED BY <2>3, <2>4
<1> QED BY <1>1, <1>2, LagIsHeldHolds, PTL DEF Spec, Promise!Spec

=============================================================================
