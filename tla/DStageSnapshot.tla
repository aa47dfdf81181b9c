---------------------------- MODULE DStageSnapshot ----------------------------
(***************************************************************************)
(* run_snapshot of d-stage-audit-gen.py: the tarball and its sidecar in    *)
(* OUT_DIR are replaced by a transaction that rolls forward, with a journal*)
(* in .txn and explicit fsyncs against power loss.  One run at a time: the *)
(* lock file is never removed (LockFile, LocksExclude).                    *)
(*                                                                         *)
(* A file is abstracted to the snapshot its bytes belong to; a sidecar is  *)
(* strict for a tarball when both are of one snapshot.  disk is what the   *)
(* processes see, lag the disks a power loss may leave: on an "ordered"    *)
(* file system a prefix of what was done, on a "torn" one each of the two  *)
(* directories at a moment of its own, as the power-loss scenarios of the  *)
(* design document have it.                                                *)
(***************************************************************************)
EXTENDS Naturals

CONSTANTS Gens,      \* snapshots a run can build
          NoFile,    \* the file does not exist
          Odd,       \* bytes that belong to no snapshot
          Mounts,    \* the kinds of file systems considered
          MaxFaults  \* bound: failures, kills, power losses, damages

ASSUME GensAssumption == NoFile \notin Gens /\ Odd \notin Gens /\ NoFile # Odd
ASSUME MountsAssumption == Mounts \subseteq {"ordered", "torn"}
ASSUME FaultsAssumption == MaxFaults \in Nat

VARIABLES disk, lag,   \* the file system, and what a power loss leaves of it
          hard,        \* the bytes in .txn/staging have been fsynced
          mount,       \* "ordered" or "torn"
          pc, new,     \* the run, the snapshot it commits
          resumed,     \* the state of the journal the run found
          exit,        \* how the last run ended; "none" while one is running
          stood,       \* history: the pair the last run found, or is to restore
          scarred,     \* history: the disk holds what no run has left
          faults       \* history

vars == <<disk, lag, hard, mount, pc, new, resumed, exit, stood, scarred, faults>>
world == <<hard, mount, stood, scarred>>

Part == {"tar", "sha"}
File == Gens \cup {NoFile, Odd}
Pair == [Part -> File]
NoPair == [f \in Part |-> NoFile]
States == {"none", "staged", "backed_up", "tarball_committed", "sha_committed",
           "verified", "rolling_back"}
NoJournal == [state |-> "none", gen |-> NoFile, plan |-> NoFile]

\* OUT_DIR: the pair, and the directory of the transaction or its tombstone.
Top == [pair : Pair, dir : {"none", "txn", "tomb"}]
\* .txn: the backups old.*, the staging directory, the journal.
Box == [old : Pair, staging : Pair, made : BOOLEAN,
        journal : [state : States, gen : File, plan : File]]
Empty == [old |-> NoPair, staging |-> NoPair, made |-> FALSE, journal |-> NoJournal]

(***************************************************************************)
(* The control flow: where a step leads when it succeeds.                  *)
(***************************************************************************)
Persisting ==
  [p_staged |-> <<"staged", "backup_tar">>,
   p_backed |-> <<"backed_up", "commit_tar">>,
   p_tarball |-> <<"tarball_committed", "commit_sha">>,
   p_sha |-> <<"sha_committed", "check">>,
   p_verified |-> <<"verified", "rm_old_tar">>,
   p_rolling |-> <<"rolling_back", "roll">>]
SyncingTop ==   \* fsync_dir(out_dir)
  [backup_out |-> "p_backed", tar_out |-> "p_tarball", sha_out |-> "p_sha",
   back_tar_out |-> "back_tar_txn", back_sha_out |-> "back_sha_txn",
   tomb_out |-> "bury", done_out |-> "ok", bury_out |-> "restored"]
SyncingBox ==   \* fsync_dir(txn_dir)
  [backup_txn |-> "backup_out", back_tar_txn |-> "restore_sha",
   back_sha_txn |-> "rolled", old_txn |-> "rm_journal"]
Removing ==     \* shutil.rmtree
  [tomb |-> "scan", discard |-> "fresh", rmtree |-> "done_out", bury |-> "bury_out"]
Moving == {"backup_tar", "backup_sha", "commit_tar", "commit_sha", "rm_old_tar",
           "rm_old_sha", "rm_journal", "rm_tar", "rm_sha", "restore_tar", "restore_sha"}
Exits == {"none", "ok", "restored", "refused", "stopped", "lost"}
Pcs == {"idle", "begin", "scan", "fresh", "build", "compare", "noop", "sync_staging",
        "check", "roll", "rolled", "entomb"} \cup Moving \cup DOMAIN Persisting
       \cup (DOMAIN SyncingTop) \cup (DOMAIN SyncingBox) \cup DOMAIN Removing

Disk == [top : Top, box : Box]

TypeOK ==
  /\ disk \in Disk /\ \A d \in lag : d \in Disk
  /\ hard \in BOOLEAN /\ mount \in Mounts /\ pc \in Pcs /\ new \in File
  /\ resumed \in States /\ exit \in Exits /\ stood \in File
  /\ scarred \in BOOLEAN /\ faults \in Nat

pair == disk.top.pair
dir == disk.top.dir
old == disk.box.old
staging == disk.box.staging
journal == disk.box.journal

Hit == faults < MaxFaults /\ faults' = faults + 1
NoFault == faults' = faults

(***************************************************************************)
(* The file system.                                                        *)
(***************************************************************************)
\* What a directory entry that is gone held is gone with it.
Norm(d) == IF d.top.dir = "none" THEN [d EXCEPT !.box = Empty] ELSE d

Change(d) == disk' = d /\ lag' = lag \cup {d}
Keep == UNCHANGED <<disk, lag>>

\* Mutant: OUT_DIR is not fsynced.
SyncTopForgotten == Keep

\* fsync of one directory; an ordered file system commits all that came before.
SyncTop ==
  /\ disk' = disk
  /\ lag' = IF mount = "ordered" THEN {disk}
            ELSE {Norm([d EXCEPT !.top = disk.top]) : d \in lag}
SyncBox ==
  /\ disk' = disk
  /\ lag' = IF mount = "ordered" THEN {disk}
            ELSE {Norm([d EXCEPT !.box = disk.box]) : d \in lag}

\* Bytes that have not been fsynced do not survive.
Tear(d) ==
  IF hard THEN d
  ELSE [d EXCEPT !.box.staging = [f \in Part |-> IF @[f] = NoFile THEN NoFile ELSE Odd]]

Mixed == {Norm([top |-> a.top, box |-> b.box]) : a, b \in lag}
Survivors == {Tear(d) : d \in IF mount = "ordered" THEN lag ELSE Mixed}

Goto(p) == pc' = p /\ UNCHANGED <<new, resumed, exit>>
End(e) == pc' = "idle" /\ exit' = e /\ new' = NoFile /\ resumed' = "none"

Init ==
  /\ \E g \in Gens \cup {NoFile} :
       disk = [top |-> [pair |-> [f \in Part |-> g], dir |-> "none"], box |-> Empty]
  /\ lag = {disk} /\ hard = TRUE /\ mount \in Mounts
  /\ pc = "idle" /\ new = NoFile /\ resumed = "none" /\ exit = "none"
  /\ stood = NoFile /\ scarred = FALSE /\ faults = 0

(***************************************************************************)
(* What the recovery asks of a disk.                                       *)
(***************************************************************************)
Whole(d) == \E g \in Gens : \A f \in Part : d.top.pair[f] = g

\* classify_out_pair.
Class(d, f) ==
  IF d.top.pair[f] = NoFile THEN "absent"
  ELSE IF d.top.pair[f] = d.box.journal.gen THEN "new"
  ELSE IF d.top.pair[f] = d.box.journal.plan THEN "old"
  ELSE "unknown"
Classes(d) == <<Class(d, "tar"), Class(d, "sha")>>

\* Mutant: the cleanup of a verified transaction is not excepted.
FactsEvenWhenVerified(d) ==
  LET j == d.box.journal
  IN  /\ \A f \in Part : Class(d, f) # "unknown"
      /\ \A f \in Part : IF j.plan = NoFile THEN d.box.old[f] = NoFile
                         ELSE d.box.old[f] # NoFile <=> Class(d, f) # "old"

\* facts_check: each old file is in one place, and nothing is foreign.
Facts(d) ==
  LET j == d.box.journal
  IN  /\ \A f \in Part : Class(d, f) # "unknown"
      /\ j.plan # NoFile => \A f \in Part : d.box.old[f] \in {NoFile, j.plan}
      /\ j.state # "verified" =>
           \A f \in Part : IF j.plan = NoFile THEN d.box.old[f] = NoFile
                           ELSE d.box.old[f] # NoFile <=> Class(d, f) # "old"
      /\ j.state # "rolling_back" => Classes(d) \notin {<<"new", "old">>, <<"old", "new">>}

RollingBackOk ==
  {<<"new", "new">>, <<"absent", "new">>, <<"absent", "absent">>, <<"old", "absent">>,
   <<"old", "old">>}

\* state_invariants.
Invariants(d) ==
  CASE d.box.journal.state \in {"verified", "sha_committed"} -> Classes(d) = <<"new", "new">>
    [] d.box.journal.state = "staged" -> "new" \notin {Class(d, f) : f \in Part}
    [] d.box.journal.state = "backed_up" -> Class(d, "sha") = "absent"
    [] d.box.journal.state = "tarball_committed" -> Class(d, "tar") = "new"
    [] d.box.journal.state = "rolling_back" -> Classes(d) \in RollingBackOk

\* staging_fingerprint, asked only of a transaction that has just been staged.
Fingerprint(d) == \A f \in Part : d.box.staging[f] = d.box.journal.gen

\* read_journal and the checks before the recovery goes to work.
Accepts(d) ==
  d.top.dir = "txn" =>
    IF d.box.journal.state = "none" THEN d.box.old = NoPair
    ELSE /\ d.box.made /\ Facts(d) /\ Invariants(d)
         /\ d.box.journal.state = "staged" => Fingerprint(d)

\* Mutant: the sidecar only has to be there.
PairOkIfBoth(d) == d.top.pair["tar"] = NoFile <=> d.top.pair["sha"] = NoFile

\* 4a: what stands in OUT_DIR without a transaction.
PairOk(d) == d.top.pair = NoPair \/ Whole(d)

\* from_recovery of rollback_segment.
Reentry == resumed = "rolling_back"

(***************************************************************************)
(* The run.                                                                *)
(***************************************************************************)
Start ==
  /\ pc = "idle" /\ exit' = "none"
  /\ pc' = IF dir = "tomb" THEN "tomb" ELSE "scan"
  /\ stood' = IF dir = "txn" /\ journal # NoJournal THEN journal.plan ELSE pair["tar"]
  /\ UNCHANGED <<new, resumed, hard, mount, scarred>> /\ Keep /\ NoFault

\* Where the journal leads.
Resume ==
  IF dir = "none" THEN "fresh" ELSE
  CASE journal.state = "none" -> "discard"
    [] journal.state = "staged" -> "backup_tar"
    [] journal.state = "backed_up" ->
         IF Class(disk, "tar") = "new" THEN "p_tarball" ELSE "commit_tar"
    [] journal.state = "tarball_committed" ->
         IF Class(disk, "sha") = "new" THEN "p_sha" ELSE "commit_sha"
    [] journal.state = "sha_committed" -> "check"
    [] journal.state = "verified" -> "rm_old_tar"
    [] journal.state = "rolling_back" -> "roll"

Scan ==
  /\ pc = "scan" /\ Accepts(disk)
  /\ pc' = Resume /\ new' = journal.gen
  /\ resumed' = IF dir = "txn" THEN journal.state ELSE "none"
  /\ UNCHANGED exit /\ UNCHANGED world /\ Keep /\ NoFault

\* exit 9, or 5 when the staged file is not there: the journal and the scene are kept.
Refuse ==
  /\ \/ pc = "scan" /\ ~Accepts(disk)
     \/ pc = "commit_tar" /\ staging["tar"] = NoFile
     \/ pc = "commit_sha" /\ staging["sha"] = NoFile
     \/ pc = "compare" /\ ~PairOk(disk)
     \/ pc = "roll" /\ \/ "unknown" \in {Class(disk, f) : f \in Part}
                       \/ ~Reentry /\ "old" \in {Class(disk, f) : f \in Part}
     \/ pc = "rolled" /\ ~PairOk(disk)
  /\ End("refused")
  /\ UNCHANGED world /\ Keep /\ NoFault

\* The new directory is made and OUT_DIR fsynced.
MakeTxn ==
  /\ pc = "fresh"
  /\ disk' = [disk EXCEPT !.top.dir = "txn", !.box = Empty] /\ lag' = {disk'}
  /\ Goto("build")
  /\ UNCHANGED world /\ NoFault

\* Mutant: no sidecar is written.
BuildWithoutSidecar ==
  /\ pc = "build"
  /\ \E g \in Gens :
       /\ Change([disk EXCEPT !.box.staging = [f \in {"tar"} |-> g], !.box.made = TRUE])
       /\ new' = g
  /\ hard' = FALSE
  /\ pc' = "compare" /\ UNCHANGED <<resumed, exit, mount, stood, scarred>> /\ NoFault

Build ==
  /\ pc = "build"
  /\ \E g \in Gens :
       /\ Change([disk EXCEPT !.box.staging = [f \in Part |-> g], !.box.made = TRUE])
       /\ new' = g
  /\ hard' = FALSE
  /\ pc' = "compare" /\ UNCHANGED <<resumed, exit, mount, stood, scarred>> /\ NoFault

Compare ==
  /\ pc = "compare" /\ PairOk(disk)
  /\ Goto(IF pair["tar"] = new THEN "noop" ELSE "sync_staging")
  /\ UNCHANGED world /\ Keep /\ NoFault

\* The pair stands already: the staging directory goes, .txn stays.
NoOp ==
  /\ pc = "noop"
  /\ Change([disk EXCEPT !.box.staging = NoPair, !.box.made = FALSE])
  /\ End("ok")
  /\ UNCHANGED world /\ NoFault

\* Mutant: the journal is written before the bytes it vouches for are durable.
SyncStagingForgotten ==
  /\ pc = "sync_staging"
  /\ Goto("p_staged")
  /\ UNCHANGED world /\ Keep /\ NoFault

SyncStaging ==
  /\ pc = "sync_staging"
  /\ hard' = TRUE
  /\ Goto("p_staged")
  /\ UNCHANGED <<mount, stood, scarred>> /\ Keep /\ NoFault

Record(state) ==
  [state |-> state, gen |-> new,
   plan |-> IF state = "staged" THEN pair["tar"] ELSE journal.plan]

\* persist_journal: renamed into place, then the directory is fsynced.
Persist ==
  /\ pc \in DOMAIN Persisting
  /\ disk' = [disk EXCEPT !.box.journal = Record(Persisting[pc][1])]
  /\ lag' = IF mount = "ordered" THEN {disk'}
            ELSE {Norm([d EXCEPT !.box = disk'.box]) : d \in lag}
  /\ Goto(Persisting[pc][2])
  /\ UNCHANGED world /\ NoFault

\* ... or the fsync fails, and the rename has been seen all the same.
PersistFails ==
  /\ pc \in DOMAIN Persisting
  /\ Change([disk EXCEPT !.box.journal = Record(Persisting[pc][1])])
  /\ End("stopped")
  /\ UNCHANGED world /\ Hit

Sync ==
  /\ \/ pc \in DOMAIN SyncingTop /\ SyncTop
        /\ IF SyncingTop[pc] \in Exits THEN End(SyncingTop[pc]) ELSE Goto(SyncingTop[pc])
     \/ pc \in DOMAIN SyncingBox /\ SyncBox /\ Goto(SyncingBox[pc])
  /\ UNCHANGED world /\ NoFault

\* rmtree goes entry by entry and removes the directory at the end.
Rmtree ==
  /\ pc \in DOMAIN Removing
  /\ \/ /\ disk.box # Empty
        /\ \/ Change([disk EXCEPT !.box.staging = NoPair, !.box.made = FALSE])
           \/ Change([disk EXCEPT !.box.journal = NoJournal])
        /\ UNCHANGED pc
     \/ /\ Change([disk EXCEPT !.top.dir = "none", !.box = Empty])
        /\ pc' = Removing[pc]
  /\ UNCHANGED <<new, resumed, exit>> /\ UNCHANGED world /\ NoFault

\* backup_old_pair.
Backup(f) ==
  /\ IF pair[f] # NoFile /\ old[f] = NoFile
     THEN Change([disk EXCEPT !.top.pair[f] = NoFile, !.box.old[f] = pair[f]])
     ELSE Keep
  /\ Goto(IF f = "tar" THEN "backup_sha" ELSE "backup_txn")
  /\ UNCHANGED world /\ NoFault

\* commit_new_tar and commit_new_sha.
CommitNew(f) ==
  /\ staging[f] # NoFile
  /\ Change([disk EXCEPT !.top.pair[f] = staging[f], !.box.staging[f] = NoFile])
  /\ Goto(IF f = "tar" THEN "tar_out" ELSE "sha_out")
  /\ UNCHANGED world /\ NoFault

\* 4e: sha256sum -c, which may also fail to run.
SelfCheck ==
  /\ pc = "check"
  /\ \/ Whole(disk) /\ Goto("p_verified") /\ NoFault
     \/ ~Whole(disk) /\ Goto("p_rolling") /\ NoFault
     \/ Whole(disk) /\ Goto("p_rolling") /\ Hit
  /\ UNCHANGED world /\ Keep

\* cleanup_verified.
RemoveOld(f) ==
  /\ Change([disk EXCEPT !.box.old[f] = NoFile])
  /\ Goto(IF f = "tar" THEN "rm_old_sha" ELSE "old_txn")
  /\ UNCHANGED world /\ NoFault

RemoveJournal ==
  /\ Change([disk EXCEPT !.box.journal = NoJournal])
  /\ Goto("rmtree")
  /\ UNCHANGED world /\ NoFault

(***************************************************************************)
(* rollback_segment.                                                       *)
(***************************************************************************)
Roll ==
  /\ pc = "roll"
  /\ \A f \in Part : Class(disk, f) \in IF Reentry THEN {"new", "old", "absent"}
                                        ELSE {"new", "absent"}
  /\ Goto("rm_tar")
  /\ UNCHANGED world /\ Keep /\ NoFault

\* Mutant: whatever stands there is taken for new.
RemoveNewBlindly(f) ==
  /\ Change([disk EXCEPT !.top.pair[f] = NoFile])
  /\ Goto(IF f = "tar" THEN "rm_sha" ELSE "restore_tar")
  /\ UNCHANGED world /\ NoFault

RemoveNew(f) ==
  /\ IF Class(disk, f) = "new" THEN Change([disk EXCEPT !.top.pair[f] = NoFile]) ELSE Keep
  /\ Goto(IF f = "tar" THEN "rm_sha" ELSE "restore_tar")
  /\ UNCHANGED world /\ NoFault

\* Each move is followed by the fsync of both directories.
RestoreOld(f) ==
  /\ IF old[f] # NoFile
     THEN /\ Change([disk EXCEPT !.top.pair[f] = old[f], !.box.old[f] = NoFile])
          /\ Goto(IF f = "tar" THEN "back_tar_out" ELSE "back_sha_out")
     ELSE Keep /\ Goto(IF f = "tar" THEN "restore_sha" ELSE "rolled")
  /\ UNCHANGED world /\ NoFault

Rolled ==
  /\ pc = "rolled" /\ PairOk(disk)
  /\ Goto("entomb")
  /\ UNCHANGED world /\ Keep /\ NoFault

\* The rename that ends a rolled back transaction.
Entomb ==
  /\ pc = "entomb"
  /\ Change([disk EXCEPT !.top.dir = "tomb"])
  /\ Goto("tomb_out")
  /\ UNCHANGED world /\ NoFault

Move ==
  \/ pc = "backup_tar" /\ Backup("tar")
  \/ pc = "backup_sha" /\ Backup("sha")
  \/ pc = "commit_tar" /\ CommitNew("tar")
  \/ pc = "commit_sha" /\ CommitNew("sha")
  \/ pc = "rm_old_tar" /\ RemoveOld("tar")
  \/ pc = "rm_old_sha" /\ RemoveOld("sha")
  \/ pc = "rm_journal" /\ RemoveJournal
  \/ pc = "rm_tar" /\ RemoveNew("tar")
  \/ pc = "rm_sha" /\ RemoveNew("sha")
  \/ pc = "restore_tar" /\ RestoreOld("tar")
  \/ pc = "restore_sha" /\ RestoreOld("sha")

\* The process is killed, or an operation fails and ends it: what it has done stands.
Stop ==
  /\ pc # "idle"
  /\ End("stopped")
  /\ UNCHANGED world /\ Keep /\ Hit

PowerLoss ==
  /\ disk' \in Survivors /\ lag' = {disk'}
  /\ scarred' = (scarred \/ (mount = "torn" /\ disk' # Tear(disk)))
  /\ hard' = TRUE /\ UNCHANGED <<mount, stood>>
  /\ End("lost") /\ Hit

\* A file in OUT_DIR is replaced by something else, between runs or just before the
\* self-check.
Damage(f) ==
  /\ pc \in {"idle", "check"} /\ pair[f] # NoFile
  /\ disk' = [disk EXCEPT !.top.pair[f] = Odd]
  /\ lag' = {[d EXCEPT !.top.pair[f] = Odd] : d \in lag}
  /\ scarred' = TRUE
  /\ UNCHANGED <<pc, new, resumed, exit, hard, mount, stood>> /\ Hit

Run ==
  \/ Scan \/ Refuse \/ MakeTxn \/ Build \/ Compare \/ NoOp \/ SyncStaging \/ Persist
  \/ Sync \/ Rmtree \/ Move \/ SelfCheck \/ Roll \/ Rolled \/ Entomb

Next ==
  \/ Start \/ Run \/ PersistFails \/ Stop \/ PowerLoss \/ \E f \in Part : Damage(f)

Spec == Init /\ [][Next]_vars

\* The operator runs the tool again.
FairSpec == Spec /\ WF_vars(Start \/ Run)
-----------------------------------------------------------------------------
(***************************************************************************)
(* Properties.                                                             *)
(***************************************************************************)
\* Where the code has put a barrier behind every move between directories; a run
\* that resumes relies on what an earlier one may have left without.
AtBarrier ==
  /\ resumed = "none"
  /\ pc \in {"p_backed", "commit_tar", "p_tarball", "commit_sha", "p_sha", "check",
            "p_verified", "rm_old_tar", "p_rolling", "roll", "restore_sha", "bury"}

\* A kill or a power loss leaves a disk the next run can go on from: on an ordered
\* file system at any time, on a torn one at the barriers.
Explained ==
  ~scarred /\ (mount = "ordered" \/ AtBarrier) => \A d \in Survivors : Accepts(d)

\* What a run reports is there after a power loss: exit 0 is the new pair, exit 1
\* after a rollback a whole pair or none, and neither leaves a journal.
ReportIsDurable ==
  exit \in {"ok", "restored"} /\ ~scarred =>
    \A d \in Survivors :
      /\ PairOk(d) /\ d.box.journal = NoJournal
      /\ exit = "ok" => Whole(d) /\ d.top.pair = pair

\* The pair the run found is whole, in place or part in place and part in .txn, on
\* whatever a power loss leaves, until another whole pair stands there durably.
KeepsAPair ==
  ~scarred /\ (mount = "ordered" \/ AtBarrier) /\ stood # NoFile =>
    \A d \in Survivors : Whole(d) \/ \A f \in Part : stood \in {d.top.pair[f], d.box.old[f]}

\* Content nobody knows is never deleted, moved or overwritten.
UnknownIsKept ==
  [][\A f \in Part : pair[f] = Odd => disk'.top.pair[f] = Odd]_vars

\* Unless something foreign is on the disk, running the tool again succeeds.
Converges == <>[](scarred) \/ []<>(exit = "ok")
=============================================================================
