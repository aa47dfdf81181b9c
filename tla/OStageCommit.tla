---------------------------- MODULE OStageCommit ----------------------------
(***************************************************************************)
(* The five-artifact transaction of tools/materialize-o-stage.sh           *)
(* (commit_artifacts, an inline Python program, and the shell lines that   *)
(* follow it).  One run at a time works on the output directory: the       *)
(* module takes the exclusive lock for granted (LockFile is about it).     *)
(*                                                                         *)
(* An artifact name n has three files: dest[n], dest[n].txn.tmp and        *)
(* dest[n].bak.tmp.  A file is abstracted to the generation it belongs to: *)
(* equal generations stand for equal bytes (the output is deterministic).  *)
(* Every rename, unlink and journal write is a step of its own, followed   *)
(* by an fsync of the directory, so a crash falls between two steps.       *)
(***************************************************************************)
EXTENDS Naturals

CONSTANTS N,         \* number of artifacts (five in the code)
          Gens,      \* generations a run can produce
          NoFile,    \* the file does not exist
          Torn,      \* the file exists but was not written to its end
          FailOps,   \* the operations whose system call may fail
          MayCrash,  \* TRUE: the process may die between two steps
          MaxFaults  \* bound: failures and crashes in a behaviour

ASSUME NAssumption == N \in Nat \ {0}
ASSUME GensAssumption == NoFile \notin Gens /\ Torn \notin Gens /\ Torn # NoFile
ASSUME FaultAssumption == MaxFaults \in Nat /\ MayCrash \in BOOLEAN

VARIABLES dest,     \* formal artifacts
          bak,      \* *.bak.tmp
          txn,      \* *.txn.tmp
          journal,  \* .materialize.journal; "none": no such file
          pc,       \* where the running process is
          i,        \* loop counter over NAMES
          gen,      \* generation the run produces
          had,      \* names whose formal artifact existed before the backup
          exit,     \* how the last run ended; "none" while one is running
          good,     \* history: the last generation whose commit loop ended
          harm,     \* history: the kinds of harm done so far
          faults    \* history: failures and crashes so far

vars == <<dest, bak, txn, journal, pc, i, gen, had, exit, good, harm, faults>>
files == <<dest, bak, txn>>

Name == 1..N
File == Gens \cup {NoFile}
Journals == {"none", "staged", "committed", "rolling_back"}
Exits == {"none", "ok", "rolled_back", "failed", "crashed"}
CleaningTxn == {"void_txn", "residue_txn", "finish_txn", "abort_txn"}
CleaningBak == {"void_bak", "finish_bak", "settle_bak"}
Pcs == {"idle", "entry", "restore", "finish_journal", "begin", "stage",
        "abort_journal", "backup", "commit", "rb_journal", "rb_restore",
        "rb_txn", "rb_done", "publish", "cleanup", "drop"}
         \cup CleaningTxn \cup CleaningBak

Tally == faults \in Nat /\ harm \subseteq {"cleanup", "other"}

TypeOK ==
  /\ dest \in [Name -> File]
  /\ bak \in [Name -> File]
  /\ txn \in [Name -> File \cup {Torn}]
  /\ journal \in Journals
  /\ pc \in Pcs
  /\ i \in 1..(N + 1)
  /\ gen \in File
  /\ had \subseteq Name
  /\ exit \in Exits
  /\ good \in File
  /\ Tally

(***************************************************************************)
(* What the code asks about the directory.                                 *)
(***************************************************************************)
Present(f) == {n \in Name : f[n] # NoFile}
Full == Present(dest) = Name
Any == Present(dest) # {}
HasBak == Present(bak) # {}

\* Every artifact carries the digests the metadata file (the last name) lists.
SelfConsistent == \A n \in Name : dest[n] # NoFile /\ dest[n] = dest[N]

\* All formal artifacts are there and belong to one generation.
Whole == \E g \in Gens : \A n \in Name : dest[n] = g
Blank == \A n \in Name : dest[n] = NoFile

(***************************************************************************)
(* Building blocks of the steps.                                           *)
(***************************************************************************)
\* Where a process that dies, or cannot write the journal, leaves a directory
\* whose recovery does not bring the old set back.
Exposed ==
  \/ pc = "backup" /\ i > 1
  \/ pc = "commit" /\ i = 1
  \/ pc = "rb_journal"
  \/ pc = "restore" /\ i \in 2..N

\* The kinds of failure that do harm, and the only places where the others do.
HarmOf(op) ==
  CASE op = "cleanup" -> {op}
    [] op = "restore" -> {"other"}
    [] op \in {"crash", "journal"} /\ Exposed -> {"other"}
    [] OTHER -> {}

Hit(op) ==
  /\ faults < MaxFaults /\ faults' = faults + 1
  /\ harm' = harm \cup HarmOf(op)
Fault(op) == op \in FailOps /\ Hit(op)
NoFault == UNCHANGED <<harm, faults>>

Goto(p) == pc' = p /\ UNCHANGED <<gen, had, exit>>

\* The run ends: its local variables are gone, the files stay.
End(e) ==
  /\ pc' = "idle" /\ exit' = e
  /\ gen' = NoFile /\ had' = {} /\ i' = 1

Put(f, n, v) == [f EXCEPT ![n] = v]

Init ==
  /\ \/ dest = [n \in Name |-> NoFile] /\ good = NoFile
     \/ good \in Gens /\ dest = [n \in Name |-> good]
  /\ bak = [n \in Name |-> NoFile]
  /\ txn = [n \in Name |-> NoFile]
  /\ journal = "none" /\ pc = "idle" /\ i = 1
  /\ gen = NoFile /\ had = {} /\ exit = "none"
  /\ harm = {} /\ faults = 0

\* The tree has been rebuilt and the lock is held: commit_artifacts starts.
Start ==
  /\ pc = "idle"
  /\ gen' \in Gens
  /\ pc' = "entry" /\ exit' = "none"
  /\ UNCHANGED <<dest, bak, txn, journal, i, had, good>> /\ NoFault

(***************************************************************************)
(* Recovery.                                                               *)
(***************************************************************************)
\* Mutant: an interrupted rollback is taken for an interrupted transaction.
RefusesTooLittle ==
  \/ journal = "staged" /\ Full /\ HasBak /\ ~SelfConsistent
  \/ journal = "none" /\ Any /\ ~Full

MustRefuse ==
  \/ journal = "rolling_back"
  \/ journal = "staged" /\ Full /\ HasBak /\ ~SelfConsistent
  \/ journal = "none" /\ Any /\ ~Full

\* Mutant: a finished transaction is undone like an unfinished one.
RouteUndoes ==
  CASE journal = "none" -> "begin"
    [] journal = "committed" -> "settle_bak"
    [] journal = "staged" /\ ~Any -> "void_txn"
    [] journal = "staged" /\ Full /\ ~HasBak -> "residue_txn"
    [] OTHER -> "restore"

Route ==
  CASE journal = "none" -> "begin"
    [] journal = "committed" -> "settle_bak"
    [] journal = "staged" /\ ~Any -> "void_txn"
    [] journal = "staged" /\ Full /\ ~HasBak -> "residue_txn"
    [] journal = "staged" /\ Full /\ HasBak -> "finish_bak"
    [] OTHER -> "restore"

Refuse ==
  /\ pc = "entry" /\ MustRefuse
  /\ End("failed")
  /\ UNCHANGED <<dest, bak, txn, journal, good>> /\ NoFault

Recover ==
  /\ pc = "entry" /\ ~MustRefuse
  /\ Goto(Route)
  /\ UNCHANGED <<dest, bak, txn, journal, i, good>> /\ NoFault

\* The phase that follows a cleaning loop.
After(p) ==
  CASE p = "void_txn" -> "void_bak"
    [] p = "finish_bak" -> "finish_txn"
    [] p = "finish_txn" -> "finish_journal"
    [] p = "settle_bak" -> "residue_txn"
    [] p = "abort_txn" -> "abort_journal"
    [] OTHER -> "begin"

\* clean_txn: unlink the staging files in the order of NAMES.
CleanTxn ==
  /\ pc \in CleaningTxn
  /\ \/ /\ \E n \in Present(txn) :
             /\ \A m \in Present(txn) : n <= m
             /\ txn' = Put(txn, n, NoFile)
        /\ pc' = pc
     \/ Present(txn) = {} /\ txn' = txn /\ pc' = After(pc)
  /\ UNCHANGED <<dest, bak, journal, i, gen, had, exit, good>> /\ NoFault

\* clean_bak
CleanBak ==
  /\ pc \in CleaningBak
  /\ \/ /\ \E n \in Present(bak) :
             /\ \A m \in Present(bak) : n <= m
             /\ bak' = Put(bak, n, NoFile)
        /\ pc' = pc
     \/ Present(bak) = {} /\ bak' = bak /\ pc' = After(pc)
  /\ UNCHANGED <<dest, txn, journal, i, gen, had, exit, good>> /\ NoFault

\* An unlink raises in a cleaning loop: every caller ends with exit code 5.
CleanFails ==
  /\ pc \in CleaningTxn \cup CleaningBak
  /\ Fault("clean")
  /\ End("failed")
  /\ UNCHANGED <<dest, bak, txn, journal, good>>

\* One turn of the loop that undoes an interrupted transaction: a backup is
\* moved back, an artifact without a backup is unlinked.
RestoreOne(n) ==
  IF bak[n] # NoFile
  THEN dest' = Put(dest, n, bak[n]) /\ bak' = Put(bak, n, NoFile)
  ELSE dest' = Put(dest, n, NoFile) /\ bak' = bak

Restore ==
  /\ pc = "restore"
  /\ \/ i <= N /\ RestoreOne(i) /\ i' = i + 1 /\ pc' = pc
     \/ i > N /\ i' = 1 /\ pc' = "residue_txn" /\ UNCHANGED <<dest, bak>>
  /\ UNCHANGED <<txn, journal, gen, had, exit, good>> /\ NoFault

\* The rename or the fsync after it raises.
RestoreFails ==
  /\ pc = "restore" /\ i <= N
  /\ Fault("restore")
  /\ RestoreOne(i) \/ UNCHANGED <<dest, bak>>
  /\ End("failed")
  /\ UNCHANGED <<txn, journal, good>>

\* The commit loop had ended: the journal is brought up to date.
FinishJournal ==
  /\ pc = "finish_journal"
  /\ journal' = "committed"
  /\ Goto("begin")
  /\ UNCHANGED <<dest, bak, txn, i, good>> /\ NoFault

(***************************************************************************)
(* A new transaction.                                                      *)
(***************************************************************************)
\* Mutant: the transaction starts without its journal.
BeginWithoutJournal ==
  /\ pc = "begin"
  /\ Goto("stage")
  /\ UNCHANGED <<dest, bak, txn, journal, i, good>> /\ NoFault

Begin ==
  /\ pc = "begin"
  /\ journal' = "staged"
  /\ Goto("stage")
  /\ UNCHANGED <<dest, bak, txn, i, good>> /\ NoFault

\* Four content files in the code's order or any other; the metadata file,
\* which lists their digests, comes last.
Stage ==
  /\ pc = "stage"
  /\ \E n \in Name :
       /\ txn[n] = NoFile
       /\ n = N => Present(txn) = Name \ {N}
       /\ txn' = Put(txn, n, gen)
  /\ UNCHANGED <<dest, bak, journal, pc, i, gen, had, exit, good>> /\ NoFault

\* Writing a file fails half way, or the staged set does not reconcile.
StageFails ==
  /\ pc = "stage"
  /\ Fault("stage")
  /\ \/ \E n \in Name : txn[n] = NoFile /\ txn' = Put(txn, n, Torn)
     \/ Present(txn) = Name /\ txn' = txn
  /\ Goto("abort_txn")
  /\ UNCHANGED <<dest, bak, journal, i, good>>

AbortJournal ==
  /\ pc = "abort_journal"
  /\ journal' = "staged"
  /\ End("failed")
  /\ UNCHANGED <<dest, bak, txn, good>> /\ NoFault

\* The staged set is unpacked and compared with what was packed.
Reconcile ==
  /\ pc = "stage"
  /\ \A n \in Name : txn[n] = gen
  /\ had' = Present(dest)
  /\ pc' = "backup" /\ i' = 1
  /\ UNCHANGED <<dest, bak, txn, journal, gen, exit, good>> /\ NoFault

BackupOne(n) ==
  IF n \in had
  THEN bak' = Put(bak, n, dest[n]) /\ dest' = Put(dest, n, NoFile)
  ELSE UNCHANGED <<bak, dest>>

Backup ==
  /\ pc = "backup"
  /\ \/ i <= N /\ BackupOne(i) /\ i' = i + 1 /\ pc' = pc
     \/ i > N /\ i' = 1 /\ pc' = "commit" /\ UNCHANGED <<dest, bak>>
  /\ UNCHANGED <<txn, journal, gen, had, exit, good>> /\ NoFault

CommitOne(n) == dest' = Put(dest, n, txn[n]) /\ txn' = Put(txn, n, NoFile)

\* Mutant: the commit loop misses the metadata file.
CommitMissesLast ==
  /\ pc = "commit"
  /\ \/ /\ i < N /\ CommitOne(i) /\ i' = i + 1 /\ pc' = pc /\ good' = good
     \/ i >= N /\ i' = 1 /\ pc' = "publish" /\ UNCHANGED <<dest, txn, good>>
  /\ UNCHANGED <<bak, journal, gen, had, exit>> /\ NoFault

Commit ==
  /\ pc = "commit"
  /\ \/ /\ i <= N /\ CommitOne(i) /\ i' = i + 1 /\ pc' = pc
        /\ good' = IF i = N THEN gen ELSE good
     \/ i > N /\ i' = 1 /\ pc' = "publish" /\ UNCHANGED <<dest, txn, good>>
  /\ UNCHANGED <<bak, journal, gen, had, exit>> /\ NoFault

\* A rename or an fsync of either loop raises: roll back.
MoveFails ==
  /\ i <= N
  /\ Fault("move")
  /\ \/ pc = "backup" /\ BackupOne(i) /\ txn' = txn
     \/ pc = "commit" /\ CommitOne(i) /\ bak' = bak
     \/ pc \in {"backup", "commit"} /\ UNCHANGED files
  /\ i' = 1
  /\ Goto("rb_journal")
  /\ UNCHANGED <<journal, good>>

RollBackJournal ==
  /\ pc = "rb_journal"
  /\ journal' = "rolling_back"
  /\ Goto("rb_restore")
  /\ UNCHANGED <<dest, bak, txn, i, good>> /\ NoFault

\* Unlike RestoreOne, this one knows which artifacts existed.
RollBackOne(n) ==
  IF bak[n] # NoFile
  THEN dest' = Put(dest, n, bak[n]) /\ bak' = Put(bak, n, NoFile)
  ELSE dest' = (IF n \in had THEN dest ELSE Put(dest, n, NoFile)) /\ bak' = bak

\* Mutant: the rollback unlinks whatever has no backup.
RollBackForgetsHad ==
  /\ pc = "rb_restore"
  /\ \/ i <= N /\ RestoreOne(i) /\ i' = i + 1 /\ pc' = pc
     \/ i > N /\ i' = 1 /\ pc' = "rb_txn" /\ UNCHANGED <<dest, bak>>
  /\ UNCHANGED <<txn, journal, gen, had, exit, good>> /\ NoFault

RollBack ==
  /\ pc = "rb_restore"
  /\ \/ i <= N /\ RollBackOne(i) /\ i' = i + 1 /\ pc' = pc
     \/ i > N /\ i' = 1 /\ pc' = "rb_txn" /\ UNCHANGED <<dest, bak>>
  /\ UNCHANGED <<txn, journal, gen, had, exit, good>> /\ NoFault

RollBackTxn ==
  /\ pc = "rb_txn"
  /\ \/ i <= N /\ txn' = Put(txn, i, NoFile) /\ i' = i + 1 /\ pc' = pc
     \/ i > N /\ i' = 1 /\ pc' = "rb_done" /\ txn' = txn
  /\ UNCHANGED <<dest, bak, journal, gen, had, exit, good>> /\ NoFault

\* The rollback cannot go on: the journal keeps rolling_back.
RollBackFails ==
  /\ pc \in {"rb_restore", "rb_txn"} /\ i <= N
  /\ Fault("rollback")
  /\ \/ pc = "rb_restore" /\ RollBackOne(i) /\ txn' = txn
     \/ pc = "rb_txn" /\ txn' = Put(txn, i, NoFile) /\ UNCHANGED <<dest, bak>>
     \/ UNCHANGED files
  /\ End("failed")
  /\ UNCHANGED <<journal, good>>

RollBackDone ==
  /\ pc = "rb_done"
  /\ journal' = "staged"
  /\ End("rolled_back")
  /\ UNCHANGED <<dest, bak, txn, good>> /\ NoFault

Publish ==
  /\ pc = "publish"
  /\ journal' = "committed"
  /\ Goto("cleanup")
  /\ UNCHANGED <<dest, bak, txn, i, good>> /\ NoFault

\* write_journal raises; the journal is the old one when the write or the
\* rename failed, the new one when the fsync after the rename did.
JournalFails ==
  /\ Fault("journal")
  /\ \/ pc = "finish_journal" /\ journal' \in {journal, "committed"}
     \/ pc \in {"begin", "abort_journal", "rb_done"} /\ journal' \in {journal, "staged"}
     \/ pc = "rb_journal" /\ journal' \in {journal, "rolling_back"}
     \/ pc = "publish" /\ journal' \in {journal, "committed"}
     \/ pc = "drop" /\ journal' = journal
  /\ End("failed")
  /\ UNCHANGED <<dest, bak, txn, good>>

\* The backups this run moved away are unlinked; an error is swallowed.
Cleanup ==
  /\ pc = "cleanup"
  /\ \/ /\ i <= N /\ i' = i + 1 /\ pc' = pc
        /\ bak' = IF i \in had THEN Put(bak, i, NoFile) ELSE bak
     \/ i > N /\ i' = 1 /\ pc' = "drop" /\ bak' = bak
  /\ UNCHANGED <<dest, txn, journal, gen, had, exit, good>> /\ NoFault

CleanupFails ==
  /\ pc = "cleanup" /\ i \in had
  /\ Fault("cleanup")
  /\ i' = i + 1
  /\ UNCHANGED <<dest, bak, txn, journal, pc, gen, had, exit, good>>

\* Back in the shell: the journal of a finished run is removed.
Drop ==
  /\ pc = "drop"
  /\ journal' = "none"
  /\ End("ok")
  /\ UNCHANGED <<dest, bak, txn, good>> /\ NoFault

\* The process is killed or the machine stops; a file being staged may be torn.
Crash ==
  /\ MayCrash /\ pc # "idle"
  /\ Hit("crash")
  /\ End("crashed")
  /\ \/ txn' = txn
     \/ pc = "stage" /\ \E n \in Name : txn[n] = NoFile /\ txn' = Put(txn, n, Torn)
  /\ UNCHANGED <<dest, bak, journal, good>>

Run ==
  \/ Refuse \/ Recover \/ CleanTxn \/ CleanBak \/ Restore \/ FinishJournal
  \/ Begin \/ Stage \/ Reconcile \/ AbortJournal \/ Backup \/ Commit
  \/ RollBackJournal \/ RollBack \/ RollBackTxn \/ RollBackDone
  \/ Publish \/ Cleanup \/ Drop

Failures ==
  \/ CleanFails \/ RestoreFails \/ StageFails \/ MoveFails \/ RollBackFails
  \/ JournalFails \/ CleanupFails \/ Crash

Next == Start \/ Run \/ Failures

Spec == Init /\ [][Next]_vars

\* The operator runs the tool again until it succeeds; nothing forces a fault.
FairSpec == Spec /\ WF_vars(Start \/ Run)

(***************************************************************************)
(* What the directory stands for: what the running process, or the         *)
(* recovery of the next one, would make of it if nothing more was moved.   *)
(***************************************************************************)
\* A backup that is there outranks the formal artifact.
Kept(n) == IF bak[n] # NoFile THEN bak[n] ELSE dest[n]

\* What the recovery of a staged journal makes of the files it finds.
Recovered ==
  [n \in Name |-> IF Full THEN dest[n] ELSE IF Any THEN bak[n] ELSE NoFile]

\* Up to its last rename a transaction can be undone by the process itself.
Undoing ==
  pc \in {"backup", "rb_journal", "rb_restore"} \/ (pc = "commit" /\ i <= N)

View(n) ==
  CASE Undoing -> IF bak[n] # NoFile \/ n \in had THEN Kept(n) ELSE NoFile
    [] pc = "restore" -> IF n < i THEN dest[n] ELSE bak[n]
    [] pc \in {"idle", "entry"} /\ journal = "staged" -> Recovered[n]
    [] pc \in {"idle", "entry"} /\ journal = "rolling_back" -> Kept(n)
    [] OTHER -> dest[n]

Store == IF \A n \in Name : View(n) = View(N) THEN View(N) ELSE NoFile

(***************************************************************************)
(* Properties.                                                             *)
(***************************************************************************)
\* A directory whose journal is gone or says committed is safe to consume:
\* the formal artifacts are one generation (or, with no journal, none at all).
\* Neither crash nor failure lets a mixed set look finished.
SettledIsWhole ==
  /\ journal = "committed" => Whole
  /\ journal = "none" => Whole \/ Blank

\* "Failure or interruption: the complete old artifacts stay": until a newer
\* generation is complete, each artifact of the one published last is in its
\* formal place or in its backup.
OldSetKept ==
  good # NoFile => \A n \in Name : good \in {dest[n], bak[n]}

\* The code keeps the promise through every failure and every kill, in this
\* run and in the ones before it, except a kill (or a journal write that fails)
\* while Exposed, a recovery that fails and a backup that could not be unlinked.
HarmlessKeepsOldSet == harm = {} => OldSetKept

\* The directory stands for one generation or none, and only a transaction that
\* has made all its renames changes which, to the one it staged: no failure of a
\* step or of the rollback, no kill, no recovery and no later run does, with the
\* exceptions harm names.
Harmed == harm # {}

Promise ==
  INSTANCE GenerationStore
    WITH None <- NoFile, Wrecks <- TRUE, store <- Store, target <- gen, hurt <- Harmed

KeepsGeneration == Promise!Spec

\* A rollback that failed leaves the scene to the operator: while the journal
\* says rolling_back nothing but the rollback that wrote it touches a file.
RollingBack == pc \in {"rb_restore", "rb_txn", "rb_done"}

SceneIsPreserved ==
  [][ journal = "rolling_back" /\ ~RollingBack
        => UNCHANGED <<dest, bak, txn, journal>> ]_vars

\* Once failures stop, running the tool again ends in a published generation,
\* unless a failed rollback asked for a manual resolution or a swallowed
\* cleanup failure left a backup the recovery cannot place.
Converges ==
  <>[](journal = "rolling_back" \/ "cleanup" \in harm) \/ []<>(exit = "ok")
=============================================================================
