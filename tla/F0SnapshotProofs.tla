--------------------------- MODULE F0SnapshotProofs ---------------------------
(***************************************************************************)
(* Proofs about F0Snapshot: the last committed snapshot survives, and the  *)
(* tool implements GenerationStore, for any snapshots and for any number   *)
(* and choice of failures and kills.                                       *)
(***************************************************************************)
EXTENDS F0Snapshot, TLAPS

\* What makes EvidenceKept inductive: the record names the committed snapshot and no
\* other, ...
RecordIsSaved ==
  /\ genesis \in Gens => genesis = saved
  /\ pc = "rewrite" => new = Blank \/ (new \in Gens /\ new = saved)

\* ... the staging files of the run are of the snapshot it builds, ...
Staged ==
  /\ pc \in {"write_sha", "backup_tar", "backup_sha", "commit_tar"} => tmp["tar"] = new
  /\ pc \in {"backup_tar", "backup_sha", "commit_tar", "commit_sha"} => tmp["sha"] = new
  /\ pc \in {"commit_sha", "record"} => formal["tar"] = new
  /\ pc = "record" => formal["sha"] = new
  /\ pc \in {"write_sha", "backup_tar", "backup_sha", "commit_tar", "commit_sha", "record"}
       => new \in Gens

\* ... and where the committed snapshot stands follows from how far the run is.
Places ==
  saved # NoFile =>
    /\ EvidenceKept
    /\ \/ \A f \in Part : formal[f] = saved
       \/ \A f \in Part : bak[f] \in {NoFile, saved}
    /\ pc \in {"rm_tar", "rm_sha", "rm_tmp", "build", "write_sha", "backup_tar", "clean_tar",
              "clean_sha"} => \A f \in Part : formal[f] = saved
    /\ pc \in {"rm_sha", "restore_sha"} => bak["tar"] = NoFile
    /\ pc \in {"rm_tmp", "build", "write_sha", "backup_tar"} => bak = NoPair
    /\ pc = "restore_tar" => \A f \in Part : bak[f] = saved
    /\ pc = "restore_sha" => formal["tar"] = saved /\ bak["sha"] = saved
    /\ pc = "backup_sha" => bak["tar"] = saved /\ bak["sha"] = NoFile /\ formal["sha"] = saved
    /\ pc \in {"commit_tar", "commit_sha", "record"} => \A f \in Part : bak[f] = saved
    /\ pc \in {"roll_tar", "roll_sha"} => \A f \in Part : bak[f] \in {NoFile, saved}
    /\ pc \in {"backup_tar", "backup_sha", "commit_tar", "commit_sha", "record", "roll_tar",
              "roll_sha"} => had = Part

IInv == TypeOK /\ RecordIsSaved /\ Staged /\ Places

USE DEF Part, Pair, Exits, Pcs, NoPair, Put, Present, Goto, End, local

LEMMA FaultsStayNatural ==
  ASSUME faults \in Nat
  PROVE  (Hit => faults' \in Nat) /\ (NoFault => faults' \in Nat)
BY FaultAssumption DEF Hit, NoFault

LEMMA InitIInv == Init => IInv
<1> SUFFICES ASSUME Init PROVE IInv
  OBVIOUS
<1>1. TypeOK
  BY GensAssumption DEF Init, TypeOK
<1>2. RecordIsSaved /\ Staged /\ Places
  BY GensAssumption DEF Init, RecordIsSaved, Staged, Places
<1> QED BY <1>1, <1>2 DEF IInv

LEMMA TypeStep == TypeOK /\ RecordIsSaved /\ Staged /\ [Next]_vars => TypeOK'
<1> SUFFICES ASSUME TypeOK, RecordIsSaved, Staged, [Next]_vars PROVE TypeOK'
  OBVIOUS
<1> USE GensAssumption, FaultsStayNatural DEF TypeOK, RecordIsSaved, Staged
<1>1. CASE Snapshot
  BY <1>1 DEF Snapshot
<1>2. CASE Recover
  BY <1>2 DEF Recover, Plan
<1>3. CASE RestoreTar
  BY <1>3 DEF RestoreTar, Restore
<1>4. CASE RestoreSha
  BY <1>4 DEF RestoreSha, Restore
<1>5. CASE RemoveTmp
  BY <1>5 DEF RemoveTmp
<1>6. CASE Build
  BY <1>6 DEF Build
<1>7. CASE WriteSha
  BY <1>7 DEF WriteSha
<1>8. CASE Move
  <2>1. CASE pc = "rm_tar" /\ RemoveBackup("tar")
    BY <2>1 DEF RemoveBackup
  <2>2. CASE pc = "rm_sha" /\ RemoveBackup("sha")
    BY <2>2 DEF RemoveBackup
  <2>3. CASE pc = "backup_tar" /\ Backup("tar")
    <3>1. formal' \in Pair /\ bak' \in Pair
      BY <2>3 DEF Backup
    <3>2. moved' \in SUBSET Part /\ UNCHANGED <<tmp, genesis, new, had, saved, upset>>
      BY <2>3 DEF Backup
    <3>3. pc' \in Pcs /\ exit' \in Exits /\ faults' \in Nat
      BY <2>3 DEF Backup
    <3> QED BY <3>1, <3>2, <3>3
  <2>4. CASE pc = "backup_sha" /\ Backup("sha")
    <3>1. formal' \in Pair /\ bak' \in Pair
      BY <2>4 DEF Backup
    <3>2. moved' \in SUBSET Part /\ UNCHANGED <<tmp, genesis, new, had, saved, upset>>
      BY <2>4 DEF Backup
    <3>3. pc' \in Pcs /\ exit' \in Exits /\ faults' \in Nat
      BY <2>4 DEF Backup
    <3> QED BY <3>1, <3>2, <3>3
  <2>5. CASE pc = "commit_tar" /\ Commit("tar")
    BY <2>5 DEF Commit
  <2>6. CASE pc = "commit_sha" /\ Commit("sha")
    BY <2>6 DEF Commit
  <2>7. CASE pc = "clean_tar" /\ Clean("tar")
    BY <2>7 DEF Clean
  <2>8. CASE pc = "clean_sha" /\ Clean("sha")
    BY <2>8 DEF Clean
  <2> QED BY <1>8, <2>1, <2>2, <2>3, <2>4, <2>5, <2>6, <2>7, <2>8 DEF Move
<1>9. CASE Record
  BY <1>9 DEF Record
<1>10. CASE OnTar
  <2>1. CASE RollBack("tar")
    BY <1>10, <2>1 DEF OnTar, RollBack, RolledBack, After
  <2>2. CASE RollBackFails("tar")
    BY <1>10, <2>2 DEF OnTar, RollBackFails, After
  <2> QED BY <1>10, <2>1, <2>2 DEF OnTar
<1>11. CASE OnSha
  <2>1. CASE RollBack("sha")
    BY <1>11, <2>1 DEF OnSha, RollBack, RolledBack, After
  <2>2. CASE RollBackFails("sha")
    BY <1>11, <2>2 DEF OnSha, RollBackFails, After
  <2> QED BY <1>11, <2>1, <2>2 DEF OnSha
<1>12. CASE Rewrite
  BY <1>12 DEF Rewrite
<1>13. CASE CommitFails
  BY <1>13 DEF CommitFails
<1>14. CASE RestoreFails
  BY <1>14 DEF RestoreFails
<1>15. CASE UndoFails
  BY <1>15 DEF UndoFails
<1>16. CASE RecoverFails
  BY <1>16 DEF RecoverFails
<1>17. CASE BuildFails
  BY <1>17 DEF BuildFails
<1>18. CASE BackupFails
  BY <1>18 DEF BackupFails
<1>19. CASE Open
  BY <1>19 DEF Open
<1>20. CASE Kill
  BY <1>20 DEF Kill
<1>21. CASE UNCHANGED vars
  BY <1>21 DEF vars
<1> QED BY <1>1, <1>2, <1>3, <1>4, <1>5, <1>6, <1>7, <1>8, <1>9, <1>10, <1>11, <1>12, <1>13,
          <1>14, <1>15, <1>16, <1>17, <1>18, <1>19, <1>20, <1>21 DEF Next, Step

LEMMA StepIInv == IInv /\ [Next]_vars => IInv'
<1> SUFFICES ASSUME IInv, [Next]_vars PROVE RecordIsSaved' /\ Staged' /\ Places'
  BY TypeStep DEF IInv
<1> USE GensAssumption DEF IInv, TypeOK, RecordIsSaved, Staged, Places, EvidenceKept
<1>1. CASE Snapshot
  BY <1>1 DEF Snapshot
<1>2. CASE Recover
  BY <1>2 DEF Recover, Plan, Consistent
<1>3. CASE RestoreTar
  <2>a. RecordIsSaved'
    BY <1>3 DEF RestoreTar, Restore
  <2>b. Staged'
    BY <1>3 DEF RestoreTar, Restore
  <2>c. Places'
    BY <1>3 DEF RestoreTar, Restore
  <2> QED BY <2>a, <2>b, <2>c
<1>4. CASE RestoreSha
  <2>a. RecordIsSaved'
    BY <1>4 DEF RestoreSha, Restore
  <2>b. Staged'
    BY <1>4 DEF RestoreSha, Restore
  <2>c. Places'
    BY <1>4 DEF RestoreSha, Restore
  <2> QED BY <2>a, <2>b, <2>c
<1>5. CASE RemoveTmp
  BY <1>5 DEF RemoveTmp
<1>6. CASE Build
  BY <1>6 DEF Build
<1>7. CASE WriteSha
  <2>a. RecordIsSaved'
    BY <1>7 DEF WriteSha
  <2>b. Staged'
    BY <1>7 DEF WriteSha
  <2>c. Places'
    BY <1>7 DEF WriteSha
  <2> QED BY <2>a, <2>b, <2>c
<1>8. CASE Move
  <2>1. CASE pc = "rm_tar" /\ RemoveBackup("tar")
    <3>a. RecordIsSaved'
      BY <2>1 DEF RemoveBackup
    <3>b. Staged'
      BY <2>1 DEF RemoveBackup
    <3>c. Places'
      BY <2>1 DEF RemoveBackup
    <3> QED BY <3>a, <3>b, <3>c
  <2>2. CASE pc = "rm_sha" /\ RemoveBackup("sha")
    <3>a. RecordIsSaved'
      BY <2>2 DEF RemoveBackup
    <3>b. Staged'
      BY <2>2 DEF RemoveBackup
    <3>c. Places'
      BY <2>2 DEF RemoveBackup
    <3> QED BY <3>a, <3>b, <3>c
  <2>3. CASE pc = "backup_tar" /\ Backup("tar")
    <3>a. RecordIsSaved'
      BY <2>3 DEF Backup
    <3>b. Staged'
      BY <2>3 DEF Backup
    <3>c. Places'
      BY <2>3 DEF Backup
    <3> QED BY <3>a, <3>b, <3>c
  <2>4. CASE pc = "backup_sha" /\ Backup("sha")
    <3>a. RecordIsSaved'
      BY <2>4 DEF Backup
    <3>b. Staged'
      BY <2>4 DEF Backup
    <3>c. Places'
      BY <2>4 DEF Backup
    <3> QED BY <3>a, <3>b, <3>c
  <2>5. CASE pc = "commit_tar" /\ Commit("tar")
    <3>a. RecordIsSaved'
      BY <2>5 DEF Commit
    <3>b. Staged'
      BY <2>5 DEF Commit
    <3>c. Places'
      BY <2>5 DEF Commit
    <3> QED BY <3>a, <3>b, <3>c
  <2>6. CASE pc = "commit_sha" /\ Commit("sha")
    <3>a. RecordIsSaved'
      BY <2>6 DEF Commit
    <3>b. Staged'
      BY <2>6 DEF Commit
    <3>c. Places'
      BY <2>6 DEF Commit
    <3> QED BY <3>a, <3>b, <3>c
  <2>7. CASE pc = "clean_tar" /\ Clean("tar")
    <3>a. RecordIsSaved'
      BY <2>7 DEF Clean
    <3>b. Staged'
      BY <2>7 DEF Clean
    <3>c. Places'
      BY <2>7 DEF Clean
    <3> QED BY <3>a, <3>b, <3>c
  <2>8. CASE pc = "clean_sha" /\ Clean("sha")
    <3>a. RecordIsSaved'
      BY <2>8 DEF Clean
    <3>b. Staged'
      BY <2>8 DEF Clean
    <3>c. Places'
      BY <2>8 DEF Clean
    <3> QED BY <3>a, <3>b, <3>c
  <2> QED BY <1>8, <2>1, <2>2, <2>3, <2>4, <2>5, <2>6, <2>7, <2>8 DEF Move
<1>9. CASE Record
  <2>a. RecordIsSaved'
    BY <1>9 DEF Record
  <2>b. Staged'
    BY <1>9 DEF Record
  <2>c. Places'
    BY <1>9 DEF Record
  <2> QED BY <2>a, <2>b, <2>c
<1>10. CASE OnTar
  <2>1. CASE RollBack("tar")
    <3>a. RecordIsSaved'
      BY <1>10, <2>1 DEF OnTar, RollBack, RolledBack, After
    <3>b. Staged'
      BY <1>10, <2>1 DEF OnTar, RollBack, RolledBack, After
    <3>c. Places'
      BY <1>10, <2>1 DEF OnTar, RollBack, RolledBack, After
    <3> QED BY <3>a, <3>b, <3>c
  <2>2. CASE RollBackFails("tar")
    BY <1>10, <2>2 DEF OnTar, RollBackFails, After
  <2> QED BY <1>10, <2>1, <2>2 DEF OnTar
<1>11. CASE OnSha
  <2>1. CASE RollBack("sha")
    <3>a. RecordIsSaved'
      BY <1>11, <2>1 DEF OnSha, RollBack, RolledBack, After
    <3>b. Staged'
      BY <1>11, <2>1 DEF OnSha, RollBack, RolledBack, After
    <3>c. Places'
      BY <1>11, <2>1 DEF OnSha, RollBack, RolledBack, After
    <3> QED BY <3>a, <3>b, <3>c
  <2>2. CASE RollBackFails("sha")
    BY <1>11, <2>2 DEF OnSha, RollBackFails, After
  <2> QED BY <1>11, <2>1, <2>2 DEF OnSha
<1>12. CASE Rewrite
  <2>a. RecordIsSaved'
    BY <1>12 DEF Rewrite
  <2>b. Staged'
    BY <1>12 DEF Rewrite
  <2>c. Places'
    BY <1>12 DEF Rewrite
  <2> QED BY <2>a, <2>b, <2>c
<1>13. CASE CommitFails
  <2>a. RecordIsSaved'
    BY <1>13 DEF CommitFails
  <2>b. Staged'
    BY <1>13 DEF CommitFails
  <2>c. Places'
    BY <1>13 DEF CommitFails
  <2> QED BY <2>a, <2>b, <2>c
<1>14. CASE RestoreFails
  BY <1>14 DEF RestoreFails
<1>15. CASE UndoFails
  BY <1>15 DEF UndoFails
<1>16. CASE RecoverFails
  <2>a. RecordIsSaved'
    BY <1>16 DEF RecoverFails
  <2>b. Staged'
    BY <1>16 DEF RecoverFails
  <2>c. Places'
    BY <1>16 DEF RecoverFails
  <2> QED BY <2>a, <2>b, <2>c
<1>17. CASE BuildFails
  BY <1>17 DEF BuildFails
<1>18. CASE BackupFails
  <2>a. RecordIsSaved'
    BY <1>18 DEF BackupFails
  <2>b. Staged'
    BY <1>18 DEF BackupFails
  <2>c. Places'
    BY <1>18 DEF BackupFails
  <2> QED BY <2>a, <2>b, <2>c
<1>19. CASE Open
  BY <1>19 DEF Open
<1>20. CASE Kill
  BY <1>20 DEF Kill
<1>21. CASE UNCHANGED vars
  BY <1>21 DEF vars
<1> QED BY <1>1, <1>2, <1>3, <1>4, <1>5, <1>6, <1>7, <1>8, <1>9, <1>10, <1>11, <1>12, <1>13,
          <1>14, <1>15, <1>16, <1>17, <1>18, <1>19, <1>20, <1>21 DEF Next, Step

THEOREM InvariantHolds == Spec => []IInv
BY InitIInv, StepIInv, PTL DEF Spec

\* Every variable keeps its type; in particular no partial archive comes to a formal
\* place or to a backup.
THEOREM TypeCorrect == Spec => []TypeOK
<1>1. IInv => TypeOK
  BY DEF IInv
<1> QED BY <1>1, InvariantHolds, PTL

\* The last committed snapshot and its sidecar stand in place or as the backup,
\* through every failure of cmd_snapshot and of its rollback and recovery, every kill,
\* and whatever manifest and verify do to the record.
THEOREM CommittedSnapshotSurvives == Spec => []EvidenceKept
<1>1. IInv => EvidenceKept
  BY DEF IInv, Places, EvidenceKept
<1> QED BY <1>1, InvariantHolds, PTL

(***************************************************************************)
(* The tool implements GenerationStore: the snapshot the directory stands  *)
(* for is the one its record names and its files hold.                     *)
(***************************************************************************)
\* While the record is rewritten in place its text is in the process only.
RecordNow == IF pc = "rewrite" THEN new ELSE genesis

Store ==
  IF RecordNow \in Gens /\ \A f \in Part : RecordNow \in {formal[f], bak[f]}
  THEN RecordNow ELSE NoFile

Target == IF new \in Gens THEN new ELSE NoFile

Promise == INSTANCE GenerationStore
             WITH None <- NoFile, Wrecks <- TRUE, store <- Store, target <- Target, hurt <- upset

\* Until something happens that the tool does not claim to mend, the record
\* names the snapshot last committed.
RecordNames == ~upset /\ saved # NoFile => RecordNow = saved

LEMMA RecordInit == Init => RecordNames
BY DEF Init, RecordNames

LEMMA RecordStep == IInv /\ RecordNames /\ [Next]_vars => RecordNames'
<1> SUFFICES ASSUME IInv, RecordNames, [Next]_vars, ~upset', saved' # NoFile
             PROVE  RecordNow' = saved'
  BY DEF RecordNames
<1>t. TypeOK /\ RecordIsSaved /\ Staged /\ (saved # NoFile => EvidenceKept)
  BY DEF IInv, Places
<1>n. ~upset /\ saved # NoFile => RecordNow = saved
  BY DEF RecordNames
<1>1. CASE Record
  BY <1>1 DEF Record, RecordNow
<1>2. CASE Rewrite
  BY <1>2, <1>n DEF Rewrite, RecordNow
<1>3. CASE Open
  <2>0. ~upset
    BY <1>3, Zenon DEF Open
  <2>1. saved # NoFile /\ ~upset /\ pc = "idle" /\ pc' = "rewrite" /\ saved' = saved
    BY <1>3, <2>0 DEF Open
  <2>2. formal["tar"] # NoFile \/ bak["tar"] # NoFile
    BY <2>1, <1>t DEF EvidenceKept
  <2>3. Present(formal) \cup Present(bak) # {}
    BY <2>2
  <2>4. new' = genesis
    <3>1. CASE upset' = (upset \/ Present(formal) \cup Present(bak) # {})
      BY <2>3, <3>1, Zenon
    <3>2. CASE new' = genesis
      BY <3>2
    <3> QED BY <1>3, <3>1, <3>2 DEF Open
  <2> QED BY <2>1, <2>4, <1>n DEF RecordNow
<1>4. CASE Kill
  BY <1>4, <1>n DEF Kill, Mended, RecordNow
<1>5. CASE UNCHANGED vars
  BY <1>5, <1>n DEF vars, RecordNow
<1>6. ASSUME ~Record, ~Rewrite, ~Open, ~Kill, Next
      PROVE  /\ UNCHANGED <<genesis, saved>> /\ (upset => upset')
             /\ pc # "rewrite" /\ pc' # "rewrite"
  <2>1. CASE Snapshot \/ Recover \/ RestoreTar \/ RestoreSha \/ RemoveTmp \/ Build \/ WriteSha
    BY <2>1 DEF Snapshot, Recover, Plan, RestoreTar, RestoreSha, Restore, RemoveTmp, Build, WriteSha
  <2>2. CASE Move
    BY <2>2 DEF Move, RemoveBackup, Backup, Commit, Clean
  <2>3. CASE OnTar \/ OnSha \/ CommitFails
    BY <2>3 DEF OnTar, OnSha, RollBack, RollBackFails, After, CommitFails
  <2>4. CASE RestoreFails \/ UndoFails \/ RecoverFails \/ BuildFails \/ BackupFails
    BY <2>4 DEF RestoreFails, UndoFails, RecoverFails, BuildFails, BackupFails
  <2> QED BY <1>6, <2>1, <2>2, <2>3, <2>4 DEF Next, Step
<1>7. CASE ~Record /\ ~Rewrite /\ ~Open /\ ~Kill /\ Next
  BY <1>6, <1>7, <1>n DEF RecordNow
<1> QED BY <1>1, <1>2, <1>3, <1>4, <1>5, <1>7

LEMMA StoreTyped == Store \in Gens \cup {NoFile}
BY DEF Store

\* Until then the directory stands for the snapshot last committed.
LEMMA StoreIsSaved == IInv /\ RecordNames /\ ~upset => Store = saved
<1> SUFFICES ASSUME IInv, RecordNames, ~upset PROVE Store = saved
  OBVIOUS
<1>1. saved = NoFile => RecordNow \notin Gens
  BY GensAssumption DEF IInv, RecordIsSaved, RecordNow
<1>2. CASE saved = NoFile
  BY <1>1, <1>2 DEF Store
<1>3. CASE saved # NoFile
  <2>1. RecordNow = saved /\ saved \in Gens
    BY <1>3 DEF RecordNames, IInv, TypeOK
  <2>2. \A f \in Part : saved \in {formal[f], bak[f]}
    BY <1>3 DEF IInv, Places, EvidenceKept
  <2> QED BY <2>1, <2>2 DEF Store
<1> QED BY <1>2, <1>3

LEMMA PrimedStore ==
  /\ (Store \in Gens \cup {NoFile})' /\ Target' \in Gens \cup {NoFile}
  /\ (IInv /\ RecordNames /\ ~upset => Store = saved)'
<1>1. Target' \in Gens \cup {NoFile}
  BY DEF Target
<1> QED BY <1>1, StoreTyped, StoreIsSaved, PTL

\* Only the replacement of the record changes which snapshot is committed.
LEMMA SavedStep ==
  ASSUME IInv, [Next]_vars
  PROVE  /\ saved' = saved \/ (Target \in Gens /\ saved' = Target)
         /\ upset \in BOOLEAN /\ upset' \in BOOLEAN /\ (upset => upset')
<1>1. TypeOK /\ TypeOK' /\ Staged
  BY TypeStep DEF IInv
<1>2. CASE Record
  BY <1>1, <1>2 DEF Record, Staged, TypeOK, Target
<1>3. CASE Rewrite \/ Open \/ Kill \/ UNCHANGED vars
  BY <1>1, <1>3 DEF Rewrite, Open, Kill, vars, TypeOK
<1>4. CASE Snapshot \/ Recover \/ RestoreTar \/ RestoreSha \/ RemoveTmp \/ Build \/ WriteSha
  BY <1>1, <1>4 DEF Snapshot, Recover, RestoreTar, RestoreSha, Restore, RemoveTmp, Build, WriteSha,
     TypeOK
<1>5. CASE Move
  BY <1>1, <1>5 DEF Move, RemoveBackup, Backup, Commit, Clean, TypeOK
<1>6. CASE OnTar \/ OnSha \/ CommitFails
  BY <1>1, <1>6 DEF OnTar, OnSha, RollBack, RollBackFails, CommitFails, TypeOK
<1>7. CASE RestoreFails \/ UndoFails \/ RecoverFails \/ BuildFails \/ BackupFails
  BY <1>1, <1>7 DEF RestoreFails, UndoFails, RecoverFails, BuildFails, BackupFails, TypeOK
<1> QED BY <1>2, <1>3, <1>4, <1>5, <1>6, <1>7 DEF Next, Step

\* The directory stands for one snapshot or none, and only a finished transaction
\* changes which: no failure, kill, recovery, rollback or rewrite of the record
\* does, unless it is one the tool does not claim to mend.
THEOREM ImplementsGenerationStore == Spec => Promise!Spec
<1>1. Init => Promise!Init
  <2>1. ASSUME Init
        PROVE  /\ Store \in Gens \cup {NoFile} /\ Target \in Gens \cup {NoFile}
               /\ upset = FALSE
    BY <2>1, StoreTyped DEF Init, Target
  <2> QED BY <2>1 DEF Promise!Init, Promise!Standing
<1>2. IInv /\ RecordNames /\ [Next]_vars => [Promise!Next]_<<Store, Target, upset>>
  <2> SUFFICES ASSUME IInv, RecordNames, [Next]_vars
               PROVE  [Promise!Next]_<<Store, Target, upset>>
    OBVIOUS
  <2>1. Store' \in Promise!Standing /\ Target' \in Promise!Standing
    BY PrimedStore DEF Promise!Standing
  <2>2. /\ saved' = saved \/ (Target \in Gens /\ saved' = Target)
        /\ upset \in BOOLEAN /\ upset' \in BOOLEAN /\ (upset => upset')
    BY SavedStep
  <2>3. CASE upset'
    BY <2>1, <2>2, <2>3 DEF Promise!Next, Promise!Wreck
  <2>4. CASE ~upset'
    <3>1. upset = FALSE /\ upset' = FALSE
      BY <2>2, <2>4
    <3>2. Store = saved
      BY <3>1, StoreIsSaved
    <3>3. Store' = saved'
      BY <3>1, StepIInv, RecordStep, PrimedStore
    <3> QED BY <2>1, <2>2, <3>1, <3>2, <3>3 DEF Promise!Next, Promise!Stand, Promise!Publish
  <2> QED BY <2>3, <2>4
<1>3. IInv /\ RecordNames /\ [Next]_vars => RecordNames'
  BY RecordStep
<1> QED BY <1>1, <1>2, <1>3, RecordInit, InvariantHolds, PTL DEF Spec, Promise!Spec
=============================================================================
