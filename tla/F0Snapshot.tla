------------------------------ MODULE F0Snapshot ------------------------------
(***************************************************************************)
(* o4-f0-lock-gen.py: the snapshot of the F0 source tree, its sidecar and  *)
(* the genesis record that names it.  There is no journal: the next run    *)
(* decides from the files it finds (recover_interrupted), and the commit   *)
(* point is the replacement of the genesis record.  manifest and verify    *)
(* rewrite that record in place.  The tool takes no lock; the commands of  *)
(* this model run one at a time.                                           *)
(*                                                                         *)
(* A file is abstracted to the snapshot its bytes belong to, the genesis   *)
(* record to the snapshot it names.  The second build of the determinism   *)
(* check and the staging file of the genesis record are left out: the next *)
(* run removes or overwrites both.                                         *)
(***************************************************************************)
EXTENDS Naturals

CONSTANTS Gens,      \* snapshots of the source tree
          NoFile,    \* the file does not exist
          Odd,       \* a partial archive, or a record that does not parse
          Blank,     \* a record that names no snapshot
          MaxFaults  \* bound: failures, kills, and rewrites of the record

ASSUME GensAssumption == /\ NoFile \notin Gens /\ Odd \notin Gens /\ Blank \notin Gens
                         /\ Odd # NoFile /\ Blank # NoFile /\ Blank # Odd
ASSUME FaultAssumption == MaxFaults \in Nat

VARIABLES formal,    \* f0-snapshot.tar.zst and its .sha256
          bak, tmp,  \* the .bak.tmp and the .txn.tmp of each
          genesis,   \* what o4-f0.genesis.json names
          pc, new,   \* the run, the snapshot it builds
          had,       \* the formal files there before the backup
          moved,     \* the formal files backed up
          exit,      \* how the last run ended; "none" while one is running
          saved,     \* history: the snapshot last committed
          upset,     \* history: something happened the tool does not claim to mend
          faults     \* history

vars == <<formal, bak, tmp, genesis, pc, new, had, moved, exit, saved, upset, faults>>
local == <<new, had, moved>>

Part == {"tar", "sha"}
Pair == [Part -> Gens \cup {NoFile}]
NoPair == [f \in Part |-> NoFile]

Exits == {"none", "ok", "refused", "failed", "rolled", "killed"}
Pcs == {"idle", "recover", "restore_tar", "restore_sha", "rm_tar", "rm_sha", "rm_tmp",
        "build", "write_sha", "backup_tar", "backup_sha", "commit_tar", "commit_sha",
        "record", "roll_tar", "roll_sha", "clean_tar", "clean_sha", "rewrite"}

TypeOK ==
  /\ formal \in Pair /\ bak \in Pair /\ tmp \in [Part -> Gens \cup {NoFile, Odd}]
  /\ genesis \in Gens \cup {Odd, Blank}
  /\ pc \in Pcs /\ new \in Gens \cup {NoFile, Odd, Blank}
  /\ had \in SUBSET Part /\ moved \in SUBSET Part /\ exit \in Exits
  /\ saved \in Gens \cup {NoFile}
  /\ upset \in BOOLEAN /\ faults \in Nat

Present(p) == {f \in Part : p[f] # NoFile}
Put(p, f, c) == [p EXCEPT ![f] = c]

Hit == faults < MaxFaults /\ faults' = faults + 1
NoFault == faults' = faults
Goto(p) == pc' = p /\ exit' = exit
End(e) == pc' = "idle" /\ exit' = e

\* What a first manifest run leaves.
Init ==
  /\ formal = NoPair /\ bak = NoPair /\ tmp = NoPair /\ genesis = Blank
  /\ pc = "idle" /\ new = NoFile /\ had = {} /\ moved = {} /\ exit = "none"
  /\ saved = NoFile /\ upset = FALSE /\ faults = 0

(***************************************************************************)
(* snapshot: the recovery.                                                 *)
(***************************************************************************)
Snapshot ==
  /\ pc = "idle" /\ pc' = "recover" /\ exit' = "none"
  /\ new' = NoFile /\ had' = {} /\ moved' = {}
  /\ UNCHANGED <<formal, bak, tmp, genesis, saved, upset>> /\ NoFault

\* The record names the archive, and the sidecar is the archive's.
Consistent == genesis \in Gens /\ \A f \in Part : formal[f] = genesis

\* Mutant: the record is not asked.
PlanTrusting ==
  IF Present(formal) = Part THEN "rm_tar"
  ELSE IF Present(bak) = Part THEN "restore_tar"
  ELSE IF Present(bak) = {} THEN "rm_tmp"
  ELSE "refuse"

Plan ==
  CASE Present(bak) = Part /\ Present(formal) # Part -> "restore_tar"
    [] Present(formal) = Part -> IF Consistent THEN "rm_tar" ELSE "refuse"
    [] Present(bak) = {} /\ Present(formal) # Part -> "rm_tmp"
    [] Present(bak) \notin {{}, Part} /\ Present(formal) # Part -> "refuse"

Recover ==
  /\ pc = "recover"
  /\ IF Plan = "refuse" THEN End("refused") ELSE Goto(Plan)
  /\ UNCHANGED <<formal, bak, tmp, genesis, saved, upset>> /\ UNCHANGED local /\ NoFault

Restore(f) ==
  /\ formal' = Put(formal, f, bak[f]) /\ bak' = Put(bak, f, NoFile)
  /\ Goto(IF f = "tar" THEN "restore_sha" ELSE "rm_tmp")
  /\ UNCHANGED <<tmp, genesis, saved, upset>> /\ UNCHANGED local /\ NoFault

RestoreTar == pc = "restore_tar" /\ Restore("tar")
RestoreSha == pc = "restore_sha" /\ Restore("sha")

\* Mutant: the first move is not undone.
RestoreFailsHalfway ==
  /\ pc = "restore_sha"
  /\ End("failed")
  /\ UNCHANGED <<formal, bak, tmp, genesis, saved, upset>> /\ UNCHANGED local /\ Hit

\* The sidecar cannot be moved: the archive goes back, ...
RestoreFails ==
  /\ pc = "restore_sha"
  /\ formal' = Put(formal, "tar", NoFile) /\ bak' = Put(bak, "tar", formal["tar"])
  /\ End("failed")
  /\ UNCHANGED <<tmp, genesis, saved, upset>> /\ UNCHANGED local /\ Hit

\* ... unless that fails as well.
UndoFails ==
  /\ pc = "restore_sha"
  /\ End("failed") /\ upset' = TRUE
  /\ UNCHANGED <<formal, bak, tmp, genesis, saved>> /\ UNCHANGED local /\ Hit

RemoveBackup(f) ==
  /\ bak' = Put(bak, f, NoFile)
  /\ Goto(IF f = "tar" THEN "rm_sha" ELSE "rm_tmp")
  /\ UNCHANGED <<formal, tmp, genesis, saved, upset>> /\ UNCHANGED local /\ NoFault

\* clean_txn_residue.
RemoveTmp ==
  /\ pc = "rm_tmp"
  /\ tmp' = NoPair
  /\ Goto("build")
  /\ UNCHANGED <<formal, bak, genesis, saved, upset>> /\ UNCHANGED local /\ NoFault

\* A move or an unlink of the recovery fails; what was unlinked before it is gone.
RecoverFails ==
  /\ \/ pc = "restore_tar" /\ tmp' = tmp
     \/ pc = "rm_tar" /\ bak["tar"] # NoFile /\ tmp' = tmp
     \/ pc = "rm_sha" /\ bak["sha"] # NoFile /\ tmp' = tmp
     \/ pc = "rm_tmp" /\ tmp["tar"] # NoFile /\ tmp' = tmp
     \/ pc = "rm_tmp" /\ tmp["sha"] # NoFile /\ tmp' = Put(tmp, "tar", NoFile)
  /\ End("failed")
  /\ UNCHANGED <<formal, bak, genesis, saved, upset>> /\ UNCHANGED local /\ Hit

(***************************************************************************)
(* snapshot: the transaction.                                              *)
(***************************************************************************)

\* zstd does not overwrite.
Build ==
  /\ pc = "build" /\ tmp["tar"] = NoFile
  /\ \E g \in Gens : new' = g /\ tmp' = Put(tmp, "tar", g)
  /\ Goto("write_sha")
  /\ UNCHANGED <<formal, bak, genesis, had, moved, saved, upset>> /\ NoFault

\* The pipeline fails, the builds differ, or the sidecar cannot be written.
BuildFails ==
  /\ \E c \in Gens \cup {NoFile, Odd} :
       \/ pc = "build" /\ tmp' = Put(tmp, "tar", c)
       \/ pc = "write_sha" /\ c \notin Gens /\ tmp' = Put(tmp, "sha", c)
  /\ End("failed")
  /\ UNCHANGED <<formal, bak, genesis, saved, upset>> /\ UNCHANGED local /\ Hit

WriteSha ==
  /\ pc = "write_sha"
  /\ tmp' = Put(tmp, "sha", new)
  /\ had' = Present(formal)
  /\ Goto("backup_tar")
  /\ UNCHANGED <<formal, bak, genesis, new, moved, saved, upset>> /\ NoFault

Backup(f) ==
  /\ IF formal[f] = NoFile THEN UNCHANGED <<formal, bak, moved>>
     ELSE /\ formal' = Put(formal, f, NoFile) /\ bak' = Put(bak, f, formal[f])
          /\ moved' = moved \cup {f}
  /\ Goto(IF f = "tar" THEN "backup_sha" ELSE "commit_tar")
  /\ UNCHANGED <<tmp, genesis, new, had, saved, upset>> /\ NoFault

\* A move of the backup loop fails: what was moved goes back, or is left to the rollback.
BackupFails ==
  /\ \/ pc = "backup_tar" /\ UNCHANGED <<formal, bak>>
     \/ /\ pc = "backup_sha"
        /\ \/ /\ "tar" \in moved
              /\ formal' = Put(formal, "tar", bak["tar"]) /\ bak' = Put(bak, "tar", NoFile)
           \/ UNCHANGED <<formal, bak>>
  /\ Goto("roll_tar")
  /\ UNCHANGED <<tmp, genesis, saved, upset>> /\ UNCHANGED local /\ Hit

Commit(f) ==
  /\ formal' = Put(formal, f, tmp[f]) /\ tmp' = Put(tmp, f, NoFile)
  /\ Goto(IF f = "tar" THEN "commit_sha" ELSE "record")
  /\ UNCHANGED <<bak, genesis, saved, upset>> /\ UNCHANGED local /\ NoFault

\* The record is read, changed and replaced: the commit point.
Record ==
  /\ pc = "record" /\ genesis # Odd
  /\ genesis' = new /\ saved' = new
  /\ Goto("clean_tar")
  /\ UNCHANGED <<formal, bak, tmp, upset>> /\ UNCHANGED local /\ NoFault

\* A record that does not parse fails the transaction like a step that fails.
CommitFails ==
  /\ \/ pc \in {"commit_tar", "commit_sha", "record"} /\ Hit
     \/ pc = "record" /\ genesis = Odd /\ NoFault
  /\ Goto("roll_tar")
  /\ UNCHANGED <<formal, bak, tmp, genesis, saved, upset>> /\ UNCHANGED local

\* The rollback puts back a backup, and removes a file that was not there before.
RolledBack(f) ==
  IF bak[f] # NoFile THEN bak[f] ELSE IF f \in had THEN formal[f] ELSE NoFile

After(f) == IF f = "tar" THEN Goto("roll_sha") ELSE End("rolled")

RollBack(f) ==
  /\ formal' = Put(formal, f, RolledBack(f)) /\ bak' = Put(bak, f, NoFile)
  /\ After(f)
  /\ UNCHANGED <<tmp, genesis, saved, upset>> /\ UNCHANGED local /\ NoFault

\* A failure in the rollback is swallowed.
RollBackFails(f) ==
  /\ RolledBack(f) # formal[f]
  /\ upset' = TRUE /\ After(f)
  /\ UNCHANGED <<formal, bak, tmp, genesis, saved>> /\ UNCHANGED local /\ Hit

\* The cleanup after the commit point, where a failure is swallowed too.
Clean(f) ==
  /\ \/ bak' = Put(bak, f, NoFile) /\ NoFault
     \/ bak[f] # NoFile /\ bak' = bak /\ Hit
  /\ IF f = "tar" THEN Goto("clean_sha") ELSE End("ok")
  /\ UNCHANGED <<formal, tmp, genesis, saved, upset>> /\ UNCHANGED local

OnTar == pc = "roll_tar" /\ (RollBack("tar") \/ RollBackFails("tar"))
OnSha == pc = "roll_sha" /\ (RollBack("sha") \/ RollBackFails("sha"))

Move ==
  \/ pc = "rm_tar" /\ RemoveBackup("tar")
  \/ pc = "rm_sha" /\ RemoveBackup("sha")
  \/ pc = "backup_tar" /\ Backup("tar")
  \/ pc = "backup_sha" /\ Backup("sha")
  \/ pc = "commit_tar" /\ Commit("tar")
  \/ pc = "commit_sha" /\ Commit("sha")
  \/ pc = "clean_tar" /\ Clean("tar")
  \/ pc = "clean_sha" /\ Clean("sha")

(***************************************************************************)
(* manifest and verify.                                                    *)
(***************************************************************************)
\* The record is opened for writing, which empties it: manifest is to write one that
\* names no snapshot, verify what it has read.
Open ==
  /\ pc = "idle"
  /\ \/ new' = Blank /\ upset' = (upset \/ Present(formal) \cup Present(bak) # {})
     \/ genesis # Odd /\ formal["tar"] \in Gens /\ new' = genesis /\ UNCHANGED upset
  /\ genesis' = Odd
  /\ pc' = "rewrite" /\ exit' = "none"
  /\ UNCHANGED <<formal, bak, tmp, had, moved, saved>> /\ Hit

Rewrite ==
  /\ pc = "rewrite"
  /\ genesis' = new /\ new' = NoFile
  /\ End("none")
  /\ UNCHANGED <<formal, bak, tmp, had, moved, saved, upset>> /\ NoFault

\* Where a kill leaves what the next snapshot run says it can go on from.
Mended ==
  \/ pc \in {"recover", "restore_tar", "rm_tar", "rm_sha", "rm_tmp", "build", "write_sha",
             "backup_tar", "clean_tar", "clean_sha"}
  \/ pc \in {"backup_sha", "commit_tar", "commit_sha"} /\ moved \in {{}, Part}

Kill ==
  /\ pc # "idle"
  /\ End("killed")
  /\ upset' = (upset \/ ~Mended)
  /\ UNCHANGED <<formal, bak, tmp, genesis, saved>> /\ UNCHANGED local /\ Hit

Step ==
  \/ Recover \/ RestoreTar \/ RestoreSha \/ RemoveTmp \/ Build \/ WriteSha \/ Move
  \/ Record \/ OnTar \/ OnSha \/ Rewrite \/ CommitFails

Next ==
  \/ Snapshot \/ Step \/ RestoreFails \/ UndoFails \/ RecoverFails \/ BuildFails
  \/ BackupFails \/ Open \/ Kill

Spec == Init /\ [][Next]_vars

\* The operator runs snapshot again, and a run that is not killed goes on.
FairSpec == Spec /\ WF_vars(Step) /\ WF_vars(Snapshot)
-----------------------------------------------------------------------------
(***************************************************************************)
(* Properties.                                                             *)
(***************************************************************************)
\* The last committed snapshot and its sidecar each stand in place or as the backup,
\* whatever fails and whenever a run is killed, and whatever later runs make of it.
EvidenceKept ==
  saved # NoFile => \A f \in Part : saved \in {formal[f], bak[f]}

\* Single failures and kills in the windows the recovery names never stop the tool
\* for good: running snapshot again succeeds.
Converges == <>[]upset \/ []<>(exit = "ok")
=============================================================================
