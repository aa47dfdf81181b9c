------------------------------ MODULE TrioCommit ------------------------------
(***************************************************************************)
(* The three-artifact transaction of r16-f-payload-integrity.py gen: the   *)
(* recovery at startup (recover_txn_residue), the transaction              *)
(* (write_artifacts) and the rollback both share                           *)
(* (_restore_old_generation).                                              *)
(*                                                                         *)
(* A file is abstracted to the generation of its bytes; sidecar and JSON   *)
(* name the digest of the manifest, so three files reconcile when they are *)
(* of one generation.  Staging files have random names: those of the       *)
(* running process are temp, what earlier runs left is stray.              *)
(***************************************************************************)
EXTENDS Naturals

CONSTANTS Gens,      \* generations a run can produce
          NoFile,    \* the file does not exist
          FailOps,   \* the operations whose system call may fail
          MayCrash,  \* TRUE: the process may die between two steps
          MaxFaults  \* bound: failures and crashes in a behaviour

ASSUME GensAssumption == NoFile \notin Gens
ASSUME FaultAssumption == MaxFaults \in Nat /\ MayCrash \in BOOLEAN

VARIABLES path, bak,     \* the formal artifacts and their backups
          temp, stray,   \* staging files: of this run; left by earlier ones
          journal, jpre, \* the journal: its state ("none": no file), pre_existing
          pc, i,
          gen,           \* generation this run writes; NoFile while recovering
          pre,           \* local: the artifacts existed before the transaction
          left,          \* local: the settling of a finished transaction failed
          exit,          \* how the last run ended; "none" while one is running
          before,        \* history: what the directory stood for at the last start
          hurt,          \* history: older backups were left for a transaction to meet
          faults         \* history: failures and crashes so far

vars == <<path, bak, temp, stray, journal, jpre, pc, i, gen, pre, left, exit,
          before, hurt, faults>>
files == <<path, bak>>
staging == <<temp, stray>>
jrnl == <<journal, jpre>>
locals == <<gen, pre, left, exit, before>>

Item == 1..3
File == Gens \cup {NoFile}
Nothing == [n \in Item |-> NoFile]
Undone == {"backing_up", "committing", "rolling_back"}
Journals == Undone \cup {"none", "committed"}
Exits == {"none", "ok", "fail", "failed", "refused", "restored", "incomplete",
          "crashed", "verified"}
Pcs == {"idle", "entry", "settle", "settle_temps", "settle_journal", "switch",
        "validate", "undo", "undo_temps", "undo_journal", "checks", "stage",
        "w_backing_up", "backup", "w_committing", "commit", "w_committed",
        "rollback", "clean", "clean_journal"}

TypeOK ==
  /\ path \in [Item -> File] /\ bak \in [Item -> File] /\ temp \in [Item -> File]
  /\ stray \in BOOLEAN
  /\ journal \in Journals /\ jpre \in BOOLEAN
  /\ pc \in Pcs /\ i \in 0..4
  /\ gen \in File /\ pre \in BOOLEAN /\ left \in BOOLEAN
  /\ exit \in Exits /\ before \in File
  /\ hurt \in BOOLEAN /\ faults \in Nat

(***************************************************************************)
(* What the code asks about the directory.                                 *)
(***************************************************************************)
Present(f) == {n \in Item : f[n] # NoFile}

\* _reconcile_trio: three files of one generation.
Whole(f) == \E g \in Gens : \A n \in Item : f[n] = g

\* _validate_bak_set: backups are made in order and put back in reverse.
ValidBaks(state) ==
  /\ ~jpre => Present(bak) = {}
  /\ jpre /\ state \in {"backing_up", "rolling_back"} =>
       \A n \in Item : n > 1 /\ bak[n] # NoFile => bak[n - 1] # NoFile
  /\ jpre /\ state = "committing" => Present(bak) = Item

\* The old generation, a part of it in backups and the rest in place.
OldTrio == [n \in Item |-> IF bak[n] # NoFile THEN bak[n] ELSE path[n]]

\* What the directory stands for: what a recovery makes of it.
Store ==
  IF journal \notin Undone THEN path[1]
  ELSE IF jpre THEN OldTrio[1] ELSE NoFile

Hit == faults < MaxFaults /\ faults' = faults + 1
Fault(op) == op \in FailOps /\ Hit
NoFault == faults' = faults

Goto(p) == pc' = p /\ UNCHANGED locals

\* Where a staging file of the transaction or of the journal is being written.
Writing == {"stage", "switch", "rollback", "w_backing_up", "w_committing", "w_committed"}

\* The run ends: what it has staged stays behind, and so may the file it is writing.
End(e) ==
  /\ pc' = "idle" /\ exit' = e /\ i' = 1
  /\ gen' = NoFile /\ pre' = FALSE /\ left' = FALSE /\ before' = before
  /\ temp' = Nothing
  /\ \E t \in BOOLEAN : (t => pc \in Writing) /\ stray' = (stray \/ Present(temp) # {} \/ t)

Init ==
  /\ \E g \in File : path = [n \in Item |-> g] /\ before = g
  /\ bak = Nothing /\ temp = Nothing /\ stray = FALSE
  /\ journal = "none" /\ jpre = FALSE
  /\ pc = "idle" /\ i = 1 /\ gen = NoFile /\ pre = FALSE /\ left = FALSE
  /\ exit = "none" /\ hurt = FALSE /\ faults = 0

\* gen: the arguments are fine and the recovery begins.
Start ==
  /\ pc = "idle"
  /\ pc' = "entry" /\ exit' = "none" /\ before' = Store
  /\ UNCHANGED <<i, gen, pre, left, hurt>>
  /\ UNCHANGED files /\ UNCHANGED staging /\ UNCHANGED jrnl /\ NoFault

\* verify: read only, and only without residue of a transaction.
Verify ==
  /\ pc = "idle"
  /\ journal = "none" /\ Present(bak) = {} /\ ~stray
  /\ Whole(path)
  /\ exit' = "verified"
  /\ UNCHANGED <<pc, i, gen, pre, left, before, hurt>>
  /\ UNCHANGED files /\ UNCHANGED staging /\ UNCHANGED jrnl /\ NoFault

(***************************************************************************)
(* recover_txn_residue.                                                    *)
(***************************************************************************)
Explained ==
  CASE journal = "none" -> Present(bak) = {}
    [] journal = "committed" -> Whole(path)
    [] OTHER -> ValidBaks(journal)

\* die: the scene is preserved.
Refuse ==
  /\ \/ pc = "entry" /\ ~Explained
     \/ pc = "validate" /\ jpre /\ ~Whole(OldTrio)
     \/ pc = "stage" /\ i = 1 /\ Present(path) \notin {{}, Item}
  /\ End("refused")
  /\ UNCHANGED files /\ UNCHANGED jrnl /\ UNCHANGED hurt /\ NoFault

Recover ==
  /\ pc = "entry" /\ Explained
  /\ CASE journal = "none" -> Goto("settle_temps")
       [] journal = "committed" -> Goto("settle")
       [] OTHER -> Goto("switch")
  /\ UNCHANGED <<i, hurt>>
  /\ UNCHANGED files /\ UNCHANGED staging /\ UNCHANGED jrnl /\ NoFault

\* A finished transaction: every backup is tried, failures are collected.
Settle ==
  /\ pc = "settle"
  /\ \/ i <= 3 /\ bak' = [bak EXCEPT ![i] = NoFile] /\ i' = i + 1 /\ pc' = pc
     \/ i > 3 /\ bak' = bak /\ i' = 1 /\ pc' = "settle_temps"
  /\ UNCHANGED <<path, hurt>> /\ UNCHANGED locals
  /\ UNCHANGED staging /\ UNCHANGED jrnl /\ NoFault

SettleTemps ==
  /\ pc = "settle_temps"
  /\ stray' = FALSE
  /\ Goto(IF journal = "none" \/ left THEN "checks" ELSE "settle_journal")
  /\ UNCHANGED <<temp, i, hurt>> /\ UNCHANGED files /\ UNCHANGED jrnl /\ NoFault

\* A warning; with the journal committed the run goes on over the residue.
SettleFails ==
  /\ \/ /\ pc = "settle" /\ i <= 3 /\ bak[i] # NoFile
        /\ i' = i + 1 /\ pc' = pc /\ left' = TRUE /\ hurt' = TRUE
     \/ /\ pc = "settle_temps" /\ stray
        /\ i' = i /\ pc' = "checks" /\ left' = left /\ hurt' = hurt
  /\ Fault("settle")
  /\ UNCHANGED <<gen, pre, exit, before>>
  /\ UNCHANGED files /\ UNCHANGED staging /\ UNCHANGED jrnl

\* An unfinished transaction: nothing is touched before the journal says so.
Switch ==
  /\ pc \in {"switch", "rollback"}
  /\ journal' = "rolling_back"
  /\ IF pc = "switch"
     THEN Goto("validate") /\ i' = i /\ jpre' = jpre
     ELSE Goto("undo") /\ i' = 3 /\ jpre' = pre
  /\ UNCHANGED hurt /\ UNCHANGED files /\ UNCHANGED staging /\ NoFault

Validate ==
  /\ pc = "validate" /\ (jpre => Whole(OldTrio))
  /\ Goto("undo") /\ i' = 3
  /\ UNCHANGED hurt /\ UNCHANGED files /\ UNCHANGED staging /\ UNCHANGED jrnl /\ NoFault

(***************************************************************************)
(* _restore_old_generation, in the recovery and in the rollback.           *)
(***************************************************************************)
\* Mutant: a missing backup means that there was nothing before.
UndoOneRemoves(n) ==
  \/ bak[n] # NoFile /\ path' = [path EXCEPT ![n] = bak[n]] /\ bak' = [bak EXCEPT ![n] = NoFile]
  \/ bak[n] = NoFile /\ path' = [path EXCEPT ![n] = NoFile] /\ bak' = bak

UndoOne(n) ==
  \/ bak[n] # NoFile /\ path' = [path EXCEPT ![n] = bak[n]] /\ bak' = [bak EXCEPT ![n] = NoFile]
  \/ bak[n] = NoFile /\ jpre /\ UNCHANGED files
  \/ bak[n] = NoFile /\ ~jpre /\ path' = [path EXCEPT ![n] = NoFile] /\ bak' = bak

\* Mutant: the artifacts are put back in the order they were moved away.
UndoForwards ==
  /\ pc = "undo"
  /\ \/ i >= 1 /\ UndoOne(4 - i) /\ i' = i - 1 /\ pc' = pc
     \/ i = 0 /\ UNCHANGED files /\ i' = 1 /\ pc' = "undo_temps"
  /\ UNCHANGED hurt /\ UNCHANGED locals /\ UNCHANGED staging /\ UNCHANGED jrnl /\ NoFault

Undo ==
  /\ pc = "undo"
  /\ \/ i >= 1 /\ UndoOne(i) /\ i' = i - 1 /\ pc' = pc
     \/ i = 0 /\ UNCHANGED files /\ i' = 1 /\ pc' = "undo_temps"
  /\ UNCHANGED hurt /\ UNCHANGED locals /\ UNCHANGED staging /\ UNCHANGED jrnl /\ NoFault

UndoTemps ==
  /\ pc = "undo_temps"
  /\ IF gen = NoFile THEN stray' = FALSE /\ temp' = temp
                     ELSE temp' = Nothing /\ stray' = stray
  /\ Goto("undo_journal")
  /\ UNCHANGED <<i, hurt>> /\ UNCHANGED files /\ UNCHANGED jrnl /\ NoFault

\* The recovery is followed by the run itself; a rollback has failed the run.
AfterUndo ==
  IF gen = NoFile
  THEN Goto("checks") /\ i' = i /\ UNCHANGED staging
  ELSE End("restored")

UndoJournal ==
  /\ pc = "undo_journal"
  /\ journal' = "none" /\ jpre' = FALSE
  /\ AfterUndo
  /\ UNCHANGED hurt /\ UNCHANGED files /\ NoFault

\* Best effort: the residue is resolved by the next recovery.
UndoJournalFails ==
  /\ pc = "undo_journal"
  /\ Fault("unlink")
  /\ AfterUndo
  /\ UNCHANGED hurt /\ UNCHANGED files /\ UNCHANGED jrnl

\* A rename or an unlink raises, or the journal cannot be switched.
UndoFails ==
  /\ \/ pc \in {"switch", "rollback"} /\ Fault("journal")
     \/ pc = "undo" /\ i >= 1 /\ Fault("undo")
     \/ pc = "undo_temps" /\ Fault("undo")
  /\ End(IF gen = NoFile THEN "refused" ELSE "incomplete")
  /\ UNCHANGED hurt /\ UNCHANGED files /\ UNCHANGED jrnl

(***************************************************************************)
(* write_artifacts.                                                        *)
(***************************************************************************)
\* Best effort again: the journal of a settled transaction goes.
SettleJournal ==
  /\ pc = "settle_journal"
  /\ \/ journal' = "none" /\ jpre' = FALSE /\ hurt' = FALSE /\ NoFault
     \/ UNCHANGED jrnl /\ hurt' = hurt /\ Fault("unlink")
  /\ Goto("checks")
  /\ UNCHANGED i /\ UNCHANGED files /\ UNCHANGED staging

\* The checks A to G read the package and the unpacked tree.
Checks ==
  /\ pc = "checks"
  /\ \/ /\ gen' \in Gens
        /\ pc' = "stage" /\ i' = 1 /\ UNCHANGED <<pre, left, exit, before>>
        /\ UNCHANGED staging
     \/ End("fail")
  /\ UNCHANGED hurt /\ UNCHANGED files /\ UNCHANGED jrnl /\ NoFault

Stage ==
  /\ pc = "stage" /\ (i = 1 => Present(path) \in {{}, Item})
  /\ \/ i <= 3 /\ temp' = [temp EXCEPT ![i] = gen] /\ i' = i + 1 /\ pc' = pc
     \/ i > 3 /\ temp' = temp /\ i' = 1 /\ pc' = "w_backing_up"
  /\ pre' = (Present(path) = Item)
  /\ UNCHANGED <<stray, gen, left, exit, before, hurt>>
  /\ UNCHANGED files /\ UNCHANGED jrnl /\ NoFault

\* What has been staged is removed, as far as that works.
StageFails ==
  /\ pc = "stage" /\ i <= 3 /\ (i = 1 => Present(path) \in {{}, Item})
  /\ Fault("stage")
  /\ pc' = "idle" /\ exit' = "failed" /\ i' = 1
  /\ gen' = NoFile /\ pre' = FALSE /\ left' = FALSE /\ before' = before
  /\ temp' = Nothing /\ stray' \in {stray, TRUE}
  /\ UNCHANGED hurt /\ UNCHANGED files /\ UNCHANGED jrnl

WriteJournal ==
  /\ \/ pc = "w_backing_up" /\ journal' = "backing_up" /\ Goto("backup")
     \/ pc = "w_committing" /\ journal' = "committing" /\ Goto("commit")
     \/ pc = "w_committed" /\ journal' = "committed" /\ Goto("clean")
  /\ jpre' = pre /\ i' = 1
  /\ UNCHANGED hurt /\ UNCHANGED files /\ UNCHANGED staging /\ NoFault

Backup ==
  /\ pc = "backup"
  /\ \/ /\ i <= 3 /\ i' = i + 1 /\ pc' = pc
        /\ IF pre THEN bak' = [bak EXCEPT ![i] = path[i]] /\ path' = [path EXCEPT ![i] = NoFile]
                  ELSE UNCHANGED files
     \/ i > 3 /\ i' = i /\ pc' = "w_committing" /\ UNCHANGED files
  /\ UNCHANGED hurt /\ UNCHANGED locals /\ UNCHANGED staging /\ UNCHANGED jrnl /\ NoFault

\* Mutant: the last artifact is forgotten.
CommitStopsEarly ==
  /\ pc = "commit"
  /\ \/ /\ i < 3 /\ i' = i + 1 /\ pc' = pc
        /\ path' = [path EXCEPT ![i] = temp[i]] /\ temp' = [temp EXCEPT ![i] = NoFile]
     \/ i >= 3 /\ i' = i /\ pc' = "w_committed" /\ UNCHANGED <<path, temp>>
  /\ UNCHANGED <<bak, stray, hurt>> /\ UNCHANGED locals /\ UNCHANGED jrnl /\ NoFault

Commit ==
  /\ pc = "commit"
  /\ \/ /\ i <= 3 /\ i' = i + 1 /\ pc' = pc
        /\ path' = [path EXCEPT ![i] = temp[i]] /\ temp' = [temp EXCEPT ![i] = NoFile]
     \/ i > 3 /\ i' = i /\ pc' = "w_committed" /\ UNCHANGED <<path, temp>>
  /\ UNCHANGED <<bak, stray, hurt>> /\ UNCHANGED locals /\ UNCHANGED jrnl /\ NoFault

\* A journal write or a rename raises: roll back.  A journal that was being
\* written may stay as a staging file nobody knows.
CommitFails ==
  /\ \/ /\ pc \in {"w_backing_up", "w_committing", "w_committed"}
        /\ Fault("journal") /\ stray' \in {stray, TRUE}
     \/ pc \in {"backup", "commit"} /\ i <= 3 /\ Fault("move") /\ stray' = stray
  /\ Goto("rollback")
  /\ UNCHANGED <<i, temp, hurt>> /\ UNCHANGED files /\ UNCHANGED jrnl

\* The transaction is done; a failure from here on is a warning.
Clean ==
  /\ pc = "clean"
  /\ \/ i <= 3 /\ bak' = [bak EXCEPT ![i] = NoFile] /\ i' = i + 1 /\ pc' = pc
     \/ i > 3 /\ bak' = bak /\ i' = i /\ pc' = "clean_journal"
  /\ UNCHANGED <<path, hurt>> /\ UNCHANGED locals
  /\ UNCHANGED staging /\ UNCHANGED jrnl /\ NoFault

CleanJournal ==
  /\ pc = "clean_journal"
  /\ journal' = "none" /\ jpre' = FALSE /\ hurt' = FALSE
  /\ End("ok")
  /\ UNCHANGED files /\ NoFault

CleanFails ==
  /\ \/ pc = "clean" /\ i <= 3 /\ bak[i] # NoFile
     \/ pc = "clean_journal"
  /\ Fault("clean")
  /\ End("ok")
  /\ UNCHANGED hurt /\ UNCHANGED files /\ UNCHANGED jrnl

Crash ==
  /\ MayCrash /\ pc # "idle"
  /\ Hit
  /\ End("crashed")
  /\ UNCHANGED hurt /\ UNCHANGED files /\ UNCHANGED jrnl

Run ==
  \/ Refuse \/ Recover \/ Settle \/ SettleTemps \/ SettleJournal \/ Switch
  \/ Validate \/ Undo \/ UndoTemps \/ UndoJournal \/ Checks \/ Stage
  \/ WriteJournal \/ Backup \/ Commit \/ Clean \/ CleanJournal

Failures ==
  \/ SettleFails \/ UndoFails \/ UndoJournalFails \/ StageFails \/ CommitFails
  \/ CleanFails \/ Crash

Next == Start \/ Verify \/ Run \/ Failures

Spec == Init /\ [][Next]_vars

\* The operator runs the tool again, and the checks do pass in the end.
FairSpec ==
  Spec /\ WF_vars(Start \/ Run) /\ SF_vars(Checks /\ pc' = "stage")
(***************************************************************************)
(* Properties.                                                             *)
(***************************************************************************)
\* The directory stands for one generation, and only a commit changes which:
\* no crash, failure, recovery or rollback does, unless residue was left.
Promise ==
  INSTANCE GenerationStore
    WITH None <- NoFile, Wrecks <- FALSE, store <- Store, target <- gen

KeepsGeneration == Promise!Spec

\* Without a journal, and with one that says committed, the artifacts are one
\* generation, or there are none: a reader needs no more than that to trust them.
SettledIsWhole ==
  ~hurt => /\ journal = "none" => Whole(path) \/ Present(path) = {}
           /\ journal = "committed" => Whole(path)

\* The recovery can explain whatever a failed or killed run leaves.
RecoveryExplains ==
  /\ pc = "entry" /\ ~hurt => Explained
  /\ pc = "validate" /\ ~hurt => (jpre => Whole(OldTrio))

\* "failed to commit artifacts; previous generation restored".
RestoredIsPrevious ==
  exit = "restored" => \A n \in Item : path[n] = before

RestoredWithoutResidue == ~hurt => RestoredIsPrevious

\* Once failures stop, running the tool again succeeds.
Converges == <>[]hurt \/ []<>(exit = "ok")
=============================================================================
