------------------------- MODULE OStageCommitProofs -------------------------
(***************************************************************************)
(* What holds of the five-artifact transaction for every number of names,  *)
(* every set of generations, every choice of failing operations and any    *)
(* number of crashes; at the end that it implements GenerationStore.       *)
(***************************************************************************)
EXTENDS OStageCommit, TLAPS

(***************************************************************************)
(* The inductive invariant behind SettledIsWhole: which journal belongs to *)
(* which phase, and how far the commit loop is.                            *)
(***************************************************************************)
StagedPhases ==
  {"restore", "stage", "abort_txn", "abort_journal", "backup", "commit", "rb_journal",
   "publish", "finish_bak", "finish_txn", "finish_journal", "void_txn", "void_bak"}

JournalOfPhase ==
  /\ pc \in StagedPhases => journal = "staged"
  /\ RollingBack => journal = "rolling_back"
  /\ journal = "rolling_back" => RollingBack \/ pc \in {"idle", "entry"}
  /\ pc \in {"settle_bak", "cleanup", "drop"} => journal = "committed"

CommitProgress ==
  /\ pc # "idle" => gen \in Gens
  /\ pc = "backup" => \A n \in Name : txn[n] = gen
  /\ pc = "commit" => \A n \in Name :
        (n < i => dest[n] = gen) /\ (n >= i => txn[n] = gen)
  /\ pc \in {"publish", "finish_bak", "finish_txn", "finish_journal"} => Whole

IInv == TypeOK /\ JournalOfPhase /\ CommitProgress /\ SettledIsWhole

(***************************************************************************)
(* The inductive invariant behind HarmlessKeepsOldSet: where the artifacts *)
(* published last are in each phase, as long as no harm was done.          *)
(***************************************************************************)
\* Every artifact published last is in its formal place (none has been: no
\* file is), and no backup lies about.
AtRest == \A n \in Name : dest[n] = good /\ bak[n] = NoFile
RestPhases ==
  {"begin", "stage", "abort_txn", "abort_journal", "residue_txn", "rb_txn", "rb_done"}

\* The formal artifacts are the ones published last; backups may lie about.
InDest == \A n \in Name : dest[n] = good
DestPhases ==
  {"void_txn", "void_bak", "settle_bak", "finish_bak", "publish", "cleanup", "drop"}

\* What the next run finds: under each journal its recovery leads to the old
\* set, or it refuses to touch it.
Recoverable ==
  /\ journal = "none" => AtRest
  /\ journal = "committed" => InDest
  /\ journal = "staged" => \A n \in Name : Recovered[n] = good
  /\ journal = "rolling_back" /\ good # NoFile => \A n \in Name : Kept(n) = good

\* The loops work on all artifacts or, on the first run, on none; afterwards
\* every backup is one that this run made.
Saved == had = IF good = NoFile THEN {} ELSE Name
BackupsAreMine == \A n \in Name : bak[n] # NoFile => n \in had
MovedAway(n) == bak[n] = good /\ dest[n] = NoFile
InPlace(n) == dest[n] = good /\ bak[n] = NoFile

\* What is still to be undone: an artifact in its backup, or one the loops had
\* not come to; without an older set, one that has no backup to come back from.
Undoable(n) == bak[n] = good \/ (bak[n] = NoFile /\ dest[n] = good)

\* Without an older set, a rollback finds nothing but what this run published.
OnlyNewOnes == good = NoFile => \A n \in Name : dest[n] \in {NoFile, gen}

OutsideLoops ==
  /\ pc \in {"idle", "entry"} => i = 1 /\ Recoverable
  /\ pc \in RestPhases \cup {"finish_txn", "finish_journal"} => AtRest
  /\ pc \in DestPhases => InDest

InRestore ==
  pc = "restore" =>
    /\ \A n \in Name : IF n < i THEN InPlace(n) ELSE bak[n] = good
    /\ i = 1 => Any /\ ~Full

InForwardLoops ==
  /\ pc = "backup" => Saved /\ \A n \in Name : IF n < i THEN MovedAway(n) ELSE InPlace(n)
  /\ pc = "commit" /\ i <= N =>
       Saved /\ \A n \in Name : bak[n] = good /\ (n >= i => dest[n] = NoFile)
  /\ pc = "commit" /\ i > N => InDest
  /\ pc \in {"commit", "publish", "cleanup", "drop"} => BackupsAreMine
  /\ pc = "publish" => i = 1
  /\ pc = "cleanup" => \A n \in Name : n < i => bak[n] = NoFile
  /\ pc = "drop" => AtRest

InRollBack ==
  /\ pc \in {"rb_journal", "rb_restore"} =>
       Saved /\ OnlyNewOnes /\ \A n \in Name : n >= i => Undoable(n)
  /\ pc = "rb_journal" => i = 1
  /\ pc = "rb_restore" => \A n \in Name : n < i => InPlace(n)

WhereTheOldSetIs == OutsideLoops /\ InRestore /\ InForwardLoops /\ InRollBack

OldSetInv == IInv /\ (harm = {} => WhereTheOldSetIs)

\* The assumptions on the constants, in the form the proofs use.
LEMMA Constants ==
  /\ N \in Nat /\ N >= 1
  /\ NoFile \notin Gens /\ Torn \notin Gens /\ Torn # NoFile
BY NAssumption, GensAssumption

\* The recovery of an interrupted run continues at one of six places, and at
\* a place of its own only for a transaction in progress.
LEMMA RouteType ==
  /\ Route \in {"begin", "settle_bak", "void_txn", "residue_txn", "finish_bak", "restore"}
  /\ journal \in Journals /\ Route \in {"finish_bak", "restore", "void_txn"} /\ ~MustRefuse
       => journal = "staged"
  /\ Route = "settle_bak" => journal = "committed"
  /\ Route = "finish_bak" /\ ~MustRefuse => SelfConsistent
  /\ ~MustRefuse => journal # "rolling_back"
BY DEF Route, MustRefuse, Journals

\* A self-consistent set is one generation.
LEMMA ConsistentIsWhole ==
  ASSUME TypeOK, SelfConsistent
  PROVE  Whole
BY Constants DEF TypeOK, SelfConsistent, Whole, Name, File

\* A cleaning loop is followed by a phase of the program.
LEMMA AfterType ==
  /\ \A p \in CleaningTxn : After(p) \in {"void_bak", "finish_journal", "abort_journal", "begin"}
  /\ \A p \in CleaningBak : After(p) \in {"finish_txn", "residue_txn", "begin"}
  /\ \A p \in CleaningTxn \cup CleaningBak :
       /\ After(p) \in {"void_bak", "abort_journal", "finish_journal", "finish_txn"}
            => p \in StagedPhases
       /\ After(p) \in {"finish_journal", "finish_txn"} => p \in {"finish_txn", "finish_bak"}
BY DEF After, CleaningTxn, CleaningBak, StagedPhases

(***************************************************************************)
(* The inductive invariant, one step per action.                           *)
(***************************************************************************)
LEMMA InvInit == Init => IInv
BY Constants DEF Init, IInv, TypeOK, JournalOfPhase, CommitProgress, SettledIsWhole,
   StagedPhases, RollingBack, Whole, Blank, Name, File, Journals, Exits, Pcs, Tally

\* A run that ends keeps the invariant when the formal artifacts stay as they
\* are and the journal does not come to say less than it may.
LEMMA EndKeeps ==
  ASSUME IInv, NEW e \in Exits, End(e),
         dest' \in [Name -> File], bak' \in [Name -> File],
         txn' \in [Name -> File \cup {Torn}], journal' \in Journals,
         good' = good, Tally',
         journal' = "committed" => Whole',
         journal' = "none" => Whole' \/ Blank'
  PROVE  IInv'
BY Constants DEF IInv, TypeOK, JournalOfPhase, CommitProgress, SettledIsWhole,
   StagedPhases, RollingBack, End, Pcs, File, Name

LEMMA InvNext == IInv /\ [Next]_vars => IInv'
<1> SUFFICES ASSUME IInv, [Next]_vars PROVE IInv'
  OBVIOUS
<1>a. TypeOK /\ JournalOfPhase /\ CommitProgress /\ SettledIsWhole
  BY DEF IInv
<1>b. Tally /\ (\A op : Fault(op) => Tally') /\ (NoFault => Tally') /\ (Hit("crash") => Tally')
  <2>1. Tally
    BY <1>a DEF TypeOK
  <2>2. \A op : HarmOf(op) \subseteq {"cleanup", "other"}
    BY DEF HarmOf
  <2>3. \A op : Hit(op) => Tally'
    <3>1. ASSUME NEW op, Hit(op) PROVE faults' \in Nat
      BY <2>1, <3>1 DEF Hit, Tally
    <3>2. ASSUME NEW op, Hit(op) PROVE harm' \subseteq {"cleanup", "other"}
      BY <2>1, <2>2, <3>2, Zenon DEF Hit, Tally
    <3> QED BY <3>1, <3>2, Zenon DEF Tally
  <2>4. NoFault => Tally'
    BY <2>1 DEF NoFault, Tally
  <2> QED BY <2>1, <2>3, <2>4 DEF Fault
<1> USE Constants, <1>a
<1> USE DEF Goto, StagedPhases, Whole, Blank, RollingBack
<1>1. CASE Start
  BY <1>1, <1>b DEF Start, IInv, TypeOK, JournalOfPhase, CommitProgress, SettledIsWhole, Exits, Pcs, File
<1>2. CASE Refuse
  <2>1. End("failed") /\ UNCHANGED <<dest, bak, txn, journal, good>> /\ NoFault
    BY <1>2 DEF Refuse
  <2> QED BY <2>1, <1>b, EndKeeps DEF TypeOK, SettledIsWhole, Exits
<1>3. CASE Recover
  <2>1. Route = "finish_bak" => Whole
    BY <1>3, RouteType, ConsistentIsWhole DEF Recover
  <2>2. Route \in {"finish_bak", "restore", "void_txn"} => journal = "staged"
    BY <1>3, RouteType DEF Recover, TypeOK
  <2>3. QED
    BY <1>3, <1>b, <2>1, <2>2, RouteType DEF Recover, IInv, TypeOK, JournalOfPhase, CommitProgress,
       SettledIsWhole, Pcs, CleaningTxn, CleaningBak
<1>4. CASE CleanTxn
  <2>1. txn' \in [Name -> File \cup {Torn}]
    BY <1>4 DEF CleanTxn, Put, TypeOK, File
  <2>2. pc' = pc \/ pc' = After(pc)
    BY <1>4 DEF CleanTxn
  <2>3. pc \in CleaningTxn /\ UNCHANGED <<dest, bak, journal, i, gen, had, exit, good>> /\ NoFault
    BY <1>4 DEF CleanTxn
  <2>4. QED
    BY <2>1, <2>2, <2>3, <1>b, AfterType DEF IInv, TypeOK, JournalOfPhase, CommitProgress,
       SettledIsWhole, Pcs, CleaningTxn, CleaningBak
<1>5. CASE CleanBak
  <2>1. bak' \in [Name -> File]
    BY <1>5 DEF CleanBak, Put, TypeOK, File
  <2>2. pc' = pc \/ pc' = After(pc)
    BY <1>5 DEF CleanBak
  <2>3. pc \in CleaningBak /\ UNCHANGED <<dest, txn, journal, i, gen, had, exit, good>> /\ NoFault
    BY <1>5 DEF CleanBak
  <2>4. QED
    BY <2>1, <2>2, <2>3, <1>b, AfterType DEF IInv, TypeOK, JournalOfPhase, CommitProgress,
       SettledIsWhole, Pcs, CleaningTxn, CleaningBak
<1>6. CASE Restore
  <2>1. dest' \in [Name -> File] /\ bak' \in [Name -> File]
    BY <1>6 DEF Restore, RestoreOne, Put, TypeOK, File
  <2>2. journal = "staged" /\ pc' \in {"restore", "residue_txn"} /\ i' \in 1..(N + 1)
    BY <1>6 DEF Restore, JournalOfPhase, TypeOK
  <2>3. UNCHANGED <<txn, journal, gen, had, exit, good>> /\ NoFault
    BY <1>6 DEF Restore
  <2>4. pc = "restore"
    BY <1>6 DEF Restore
  <2>5. QED
    BY <2>1, <2>2, <2>3, <2>4, <1>b DEF IInv, TypeOK, JournalOfPhase, CommitProgress, SettledIsWhole,
       Pcs, CleaningTxn
<1>7. CASE FinishJournal
  BY <1>7, <1>b DEF FinishJournal, IInv, TypeOK, JournalOfPhase, CommitProgress, SettledIsWhole,
     Journals, Pcs
<1>8. CASE Begin
  BY <1>8, <1>b DEF Begin, IInv, TypeOK, JournalOfPhase, CommitProgress, SettledIsWhole, Journals, Pcs
<1>9. CASE Stage
  <2>1. txn' \in [Name -> File \cup {Torn}]
    BY <1>9 DEF Stage, Put, TypeOK
  <2>2. pc = "stage" /\ UNCHANGED <<dest, bak, journal, pc, i, gen, had, exit, good>> /\ NoFault
    BY <1>9 DEF Stage
  <2>3. QED
    BY <2>1, <2>2, <1>b DEF IInv, TypeOK, JournalOfPhase, CommitProgress, SettledIsWhole
<1>10. CASE Reconcile
  BY <1>10, <1>b DEF Reconcile, IInv, TypeOK, JournalOfPhase, CommitProgress, SettledIsWhole, Pcs, Present
<1>11. CASE AbortJournal
  BY <1>11, <1>b, EndKeeps DEF AbortJournal, TypeOK, SettledIsWhole, Exits, Journals
<1>12. CASE Backup
  <2>1. dest' \in [Name -> File] /\ bak' \in [Name -> File]
    BY <1>12 DEF Backup, BackupOne, Put, TypeOK, File
  <2>2. pc = "backup" /\ pc' \in {"backup", "commit"} /\ i' \in 1..(N + 1)
        /\ (pc' = "commit" => i' = 1)
    BY <1>12 DEF Backup, TypeOK
  <2>3. UNCHANGED <<txn, journal, gen, had, exit, good>> /\ NoFault
    BY <1>12 DEF Backup
  <2>4. QED
    BY <2>1, <2>2, <2>3, <1>b DEF IInv, TypeOK, JournalOfPhase, CommitProgress, SettledIsWhole, Pcs, Name
<1>13. CASE Commit
  <2>0. pc = "commit" /\ UNCHANGED <<bak, journal, gen, had, exit>> /\ NoFault
    BY <1>13 DEF Commit
  <2>g. gen \in Gens /\ \A n \in Name : (n < i => dest[n] = gen) /\ (n >= i => txn[n] = gen)
    BY <2>0 DEF CommitProgress
  <2>1. CASE i <= N
    <3>1. i \in Name /\ txn[i] = gen
      BY <2>1, <2>g DEF TypeOK, Name
    <3>2. dest' = [dest EXCEPT ![i] = gen] /\ txn' = [txn EXCEPT ![i] = NoFile]
          /\ i' = i + 1 /\ pc' = pc /\ good' \in {gen, good}
      BY <1>13, <2>1, <3>1 DEF Commit, CommitOne, Put, TypeOK
    <3>3. TypeOK'
      BY <2>0, <2>1, <2>g, <3>1, <3>2, <1>b DEF TypeOK, File, Name
    <3>4. CommitProgress'
      BY <2>0, <2>g, <3>1, <3>2 DEF CommitProgress, TypeOK, Name
    <3>5. JournalOfPhase' /\ SettledIsWhole'
      BY <2>0, <3>2 DEF JournalOfPhase, SettledIsWhole
    <3>6. QED BY <3>3, <3>4, <3>5 DEF IInv
  <2>2. CASE i > N
    <3>1. i' = 1 /\ pc' = "publish" /\ UNCHANGED <<dest, txn, good>>
      BY <1>13, <2>2 DEF Commit, TypeOK
    <3>2. Whole'
      BY <2>2, <2>g, <3>1 DEF TypeOK, Name
    <3>3. QED
      BY <2>0, <3>1, <3>2, <1>b DEF IInv, TypeOK, JournalOfPhase, CommitProgress, SettledIsWhole, Pcs
  <2>3. QED BY <2>1, <2>2 DEF TypeOK
<1>14. CASE RollBackJournal
  BY <1>14, <1>b DEF RollBackJournal, IInv, TypeOK, JournalOfPhase, CommitProgress, SettledIsWhole,
     Journals, Pcs
<1>15. CASE RollBack
  <2>1. dest' \in [Name -> File] /\ bak' \in [Name -> File]
    BY <1>15 DEF RollBack, RollBackOne, Put, TypeOK, File
  <2>2. pc = "rb_restore" /\ pc' \in {"rb_restore", "rb_txn"} /\ i' \in 1..(N + 1)
    BY <1>15 DEF RollBack, TypeOK
  <2>3. UNCHANGED <<txn, journal, gen, had, exit, good>> /\ NoFault
    BY <1>15 DEF RollBack
  <2>4. QED
    BY <2>1, <2>2, <2>3, <1>b DEF IInv, TypeOK, JournalOfPhase, CommitProgress, SettledIsWhole, Pcs
<1>16. CASE RollBackTxn
  <2>1. txn' \in [Name -> File \cup {Torn}]
    BY <1>16 DEF RollBackTxn, Put, TypeOK, File
  <2>2. pc = "rb_txn" /\ pc' \in {"rb_txn", "rb_done"} /\ i' \in 1..(N + 1)
    BY <1>16 DEF RollBackTxn, TypeOK
  <2>3. UNCHANGED <<dest, bak, journal, gen, had, exit, good>> /\ NoFault
    BY <1>16 DEF RollBackTxn
  <2>4. QED
    BY <2>1, <2>2, <2>3, <1>b DEF IInv, TypeOK, JournalOfPhase, CommitProgress, SettledIsWhole, Pcs
<1>17. CASE RollBackDone
  BY <1>17, <1>b, EndKeeps DEF RollBackDone, TypeOK, SettledIsWhole, Exits, Journals
<1>18. CASE Publish
  BY <1>18, <1>b DEF Publish, IInv, TypeOK, JournalOfPhase, CommitProgress, SettledIsWhole, Journals, Pcs
<1>19. CASE Cleanup
  <2>1. bak' \in [Name -> File]
    BY <1>19 DEF Cleanup, Put, TypeOK, File
  <2>2. pc = "cleanup" /\ pc' \in {"cleanup", "drop"} /\ i' \in 1..(N + 1)
    BY <1>19 DEF Cleanup, TypeOK
  <2>3. UNCHANGED <<dest, txn, journal, gen, had, exit, good>> /\ NoFault
    BY <1>19 DEF Cleanup
  <2>4. QED
    BY <2>1, <2>2, <2>3, <1>b DEF IInv, TypeOK, JournalOfPhase, CommitProgress, SettledIsWhole, Pcs
<1>20. CASE Drop
  <2>1. Whole /\ UNCHANGED <<dest, bak, txn, good>> /\ NoFault /\ End("ok") /\ journal' = "none"
    BY <1>20 DEF Drop, JournalOfPhase, SettledIsWhole
  <2>2. QED BY <2>1, <1>b, EndKeeps DEF TypeOK, Exits, Journals
<1>21. CASE CleanFails
  <2>1. End("failed") /\ UNCHANGED <<dest, bak, txn, journal, good>> /\ Fault("clean")
    BY <1>21 DEF CleanFails
  <2>2. QED BY <2>1, <1>b, EndKeeps DEF TypeOK, SettledIsWhole, Exits
<1>22. CASE RestoreFails
  <2>1. dest' \in [Name -> File] /\ bak' \in [Name -> File]
    BY <1>22 DEF RestoreFails, RestoreOne, Put, TypeOK, File
  <2>2. journal' = "staged" /\ End("failed") /\ UNCHANGED <<txn, good>> /\ Fault("restore")
    BY <1>22 DEF RestoreFails, JournalOfPhase
  <2>3. QED BY <2>1, <2>2, <1>b, EndKeeps DEF TypeOK, Exits, Journals
<1>23. CASE StageFails
  <2>1. txn' \in [Name -> File \cup {Torn}]
    BY <1>23 DEF StageFails, Put, TypeOK
  <2>2. pc = "stage" /\ pc' = "abort_txn" /\ Fault("stage")
        /\ UNCHANGED <<dest, bak, journal, i, gen, had, exit, good>>
    BY <1>23 DEF StageFails
  <2>3. QED
    BY <2>1, <2>2, <1>b DEF IInv, TypeOK, JournalOfPhase, CommitProgress, SettledIsWhole, Pcs, CleaningTxn
<1>24. CASE MoveFails
  <2>1. pc \in {"backup", "commit"} /\ pc' = "rb_journal" /\ Fault("move") /\ i' = 1
        /\ UNCHANGED <<journal, gen, had, exit, good>>
    BY <1>24 DEF MoveFails
  <2>2. pc = "commit" /\ i <= N => txn[i] \in File
    BY DEF CommitProgress, TypeOK, Name, File
  <2>3. dest' \in [Name -> File] /\ bak' \in [Name -> File] /\ txn' \in [Name -> File \cup {Torn}]
    BY <1>24, <2>2 DEF MoveFails, BackupOne, CommitOne, Put, TypeOK, File, files
  <2>4. QED
    BY <2>1, <2>3, <1>b DEF IInv, TypeOK, JournalOfPhase, CommitProgress, SettledIsWhole, Pcs
<1>25. CASE RollBackFails
  <2>1. dest' \in [Name -> File] /\ bak' \in [Name -> File] /\ txn' \in [Name -> File \cup {Torn}]
    BY <1>25 DEF RollBackFails, RollBackOne, Put, TypeOK, File, files
  <2>2. journal' = "rolling_back" /\ End("failed") /\ good' = good /\ Fault("rollback")
    BY <1>25 DEF RollBackFails, JournalOfPhase
  <2>3. QED BY <2>1, <2>2, <1>b, EndKeeps DEF Exits, Journals
<1>26. CASE JournalFails
  <2>1. End("failed") /\ UNCHANGED <<dest, bak, txn, good>> /\ Fault("journal")
    BY <1>26 DEF JournalFails
  <2>2. journal' \in Journals
    BY <1>26 DEF JournalFails, Journals, TypeOK
  <2>3. (journal' = "committed" => Whole) /\ (journal' = "none" => Whole \/ Blank)
    BY <1>26 DEF JournalFails, CommitProgress, SettledIsWhole
  <2>4. QED BY <2>1, <2>2, <2>3, <1>b, EndKeeps DEF TypeOK, Exits
<1>27. CASE CleanupFails
  BY <1>27, <1>b DEF CleanupFails, IInv, TypeOK, JournalOfPhase, CommitProgress, SettledIsWhole, Name
<1>28. CASE Crash
  <2>1. txn' \in [Name -> File \cup {Torn}]
    BY <1>28 DEF Crash, Put, TypeOK
  <2>2. End("crashed") /\ UNCHANGED <<dest, bak, journal, good>> /\ Tally'
    BY <1>28, <1>b DEF Crash
  <2>3. QED BY <2>1, <2>2, EndKeeps DEF TypeOK, SettledIsWhole, Exits
<1>29. CASE UNCHANGED vars
  BY <1>29 DEF vars, IInv, TypeOK, Tally, JournalOfPhase, CommitProgress, SettledIsWhole
<1>30. QED
  BY <1>1, <1>2, <1>3, <1>4, <1>5, <1>6, <1>7, <1>8, <1>9, <1>10, <1>11, <1>12, <1>13, <1>14,
     <1>15, <1>16, <1>17, <1>18, <1>19, <1>20, <1>21, <1>22, <1>23, <1>24, <1>25, <1>26, <1>27,
     <1>28, <1>29 DEF Next, Run, Failures

LEMMA Inductive == Spec => []IInv
BY InvInit, InvNext, PTL DEF Spec

\* Every variable keeps its type: formal artifacts and backups are complete
\* files of a generation or absent, never torn.
THEOREM TypeCorrect == Spec => []TypeOK
BY Inductive, PTL DEF IInv

\* A directory without a journal, or with a committed one, holds one whole
\* generation (or none): no crash and no failure makes a mixed set look done.
THEOREM SettledSetIsWhole == Spec => []SettledIsWhole
BY Inductive, PTL DEF IInv

\* After a rollback that failed no later run touches a file: the journal keeps
\* rolling_back until someone resolves the scene by hand.
THEOREM RollbackSceneIsPreserved == Spec => SceneIsPreserved
<1>1. IInv /\ [Next]_vars => [ journal = "rolling_back" /\ ~RollingBack
                                 => UNCHANGED <<dest, bak, txn, journal>> ]_vars
  <2> SUFFICES ASSUME IInv, [Next]_vars, journal = "rolling_back", ~RollingBack
               PROVE  UNCHANGED <<dest, bak, txn, journal>>
    BY DEF vars
  <2>1. pc \in {"idle", "entry"}
    BY DEF IInv, JournalOfPhase
  <2>2. CASE Start \/ Refuse \/ Recover \/ Crash
    BY <2>1, <2>2 DEF Start, Refuse, Recover, Crash
  <2>3. ~(CleanTxn \/ CleanBak \/ CleanFails)
    BY <2>1 DEF CleanTxn, CleanBak, CleanFails, CleaningTxn, CleaningBak
  <2>4. ~(\/ Restore \/ FinishJournal \/ Begin \/ Stage \/ Reconcile \/ AbortJournal \/ Backup
          \/ Commit \/ RollBackJournal \/ RollBack \/ RollBackTxn \/ RollBackDone \/ Publish
          \/ Cleanup \/ Drop \/ RestoreFails \/ StageFails \/ MoveFails \/ RollBackFails
          \/ JournalFails \/ CleanupFails)
    BY <2>1 DEF Restore, FinishJournal, Begin, Stage, Reconcile, AbortJournal, Backup, Commit,
       RollBackJournal, RollBack, RollBackTxn, RollBackDone, Publish, Cleanup, Drop,
       RestoreFails, StageFails, MoveFails, RollBackFails, JournalFails, CleanupFails
  <2>5. CASE UNCHANGED vars
    BY <2>5 DEF vars
  <2>6. QED BY <2>2, <2>3, <2>4, <2>5 DEF Next, Run, Failures
<1>2. QED BY <1>1, Inductive, PTL DEF Spec, SceneIsPreserved

(***************************************************************************)
(* Where the generation published last is, as long as no harm was done.    *)
(***************************************************************************)
\* Harm is never undone, and these failures do none.
LEMMA HarmlessOps ==
  /\ \A op : Fault(op) /\ harm' = {} =>
       harm = {} /\ op \notin {"cleanup", "restore"} /\ (op = "journal" => ~Exposed)
  /\ Hit("crash") /\ harm' = {} => harm = {} /\ ~Exposed
  /\ NoFault => harm' = harm
<1>1. \A op : Hit(op) /\ harm' = {} => harm = {} /\ HarmOf(op) = {}
  BY Zenon DEF Hit
<1>2. \A op : HarmOf(op) = {} =>
        op \notin {"cleanup", "restore"} /\ (op \in {"crash", "journal"} => ~Exposed)
  BY DEF HarmOf
<1> QED BY <1>1, <1>2 DEF Fault, NoFault

\* The three ways in which a directory is recoverable.
LEMMA RestIsRecoverable == AtRest => Recoverable
<1> SUFFICES ASSUME AtRest PROVE Recoverable
  OBVIOUS
<1>1. \A n \in Name : Recovered[n] = good
  BY DEF AtRest, Recovered, Full, Any, Present
<1> QED BY <1>1 DEF AtRest, Recoverable, InDest, Kept

LEMMA DestIsRecoverable == InDest /\ journal \notin {"none", "rolling_back"} => Recoverable
<1> SUFFICES ASSUME InDest, journal \notin {"none", "rolling_back"} PROVE Recoverable
  OBVIOUS
<1>1. \A n \in Name : Recovered[n] = good
  BY DEF InDest, Recovered, Full, Any, Present
<1> QED BY <1>1 DEF Recoverable, InDest

LEMMA BackupsAreRecoverable ==
  Any /\ ~Full /\ journal = "staged" /\ (\A n \in Name : bak[n] = good) => Recoverable
BY DEF Recoverable, Recovered

LEMMA PrimedRecoverable ==
  /\ (AtRest => Recoverable)'
  /\ (InDest /\ journal \notin {"none", "rolling_back"} => Recoverable)'
BY RestIsRecoverable, DestIsRecoverable, PTL

\* Wherever the process is not Exposed, the next run brings the old set back.
LEMMA SafeIsRecoverable ==
  ASSUME IInv, WhereTheOldSetIs, ~Exposed
  PROVE  Recoverable
<1>t. TypeOK /\ JournalOfPhase /\ CommitProgress /\ N \in Nat /\ N >= 1 /\ i \in 1..(N + 1)
      /\ Name = 1..N /\ NoFile \notin Gens
  BY Constants DEF IInv, TypeOK, Name
<1>w. OutsideLoops /\ InRestore /\ InForwardLoops /\ InRollBack
  BY DEF WhereTheOldSetIs
<1>1. CASE pc \in {"idle", "entry"}
  BY <1>1, <1>w DEF OutsideLoops
<1>2. CASE pc \in RestPhases \cup {"finish_txn", "finish_journal"}
  BY <1>2, <1>w, RestIsRecoverable DEF OutsideLoops
<1>3. CASE pc \in DestPhases
  <2>1. journal \notin {"none", "rolling_back"}
    BY <1>3, <1>t DEF DestPhases, JournalOfPhase, StagedPhases
  <2> QED BY <2>1, <1>3, <1>w, DestIsRecoverable DEF OutsideLoops
<1>4. CASE pc = "restore"
  <2>1. CASE i = 1
    <3>1. \A n \in Name : bak[n] = good
      BY <2>1, <1>4, <1>w, <1>t DEF InRestore
    <3>2. Any /\ ~Full /\ journal = "staged"
      BY <2>1, <1>4, <1>w, <1>t DEF InRestore, JournalOfPhase, StagedPhases
    <3> QED BY <3>1, <3>2, BackupsAreRecoverable
  <2>2. CASE i # 1
    <3>1. i = N + 1
      BY <2>2, <1>4, <1>t DEF Exposed
    <3>2. AtRest
      BY <3>1, <1>4, <1>w, <1>t DEF InRestore, AtRest, InPlace
    <3> QED BY <3>2, RestIsRecoverable
  <2> QED BY <2>1, <2>2
<1>5. CASE pc = "backup"
  <2>1. i = 1
    BY <1>5, <1>t DEF Exposed
  <2>2. AtRest
    BY <2>1, <1>5, <1>w, <1>t DEF InForwardLoops, AtRest, InPlace
  <2> QED BY <2>2, RestIsRecoverable
<1>6. CASE pc = "commit" /\ i <= N
  <2>1. 1 < i /\ 1 \in Name /\ i \in Name
    BY <1>6, <1>t DEF Exposed
  <2>2. dest[1] # NoFile /\ dest[i] = NoFile /\ \A n \in Name : bak[n] = good
    BY <2>1, <1>6, <1>t, <1>w DEF InForwardLoops, CommitProgress
  <2>3. Any /\ ~Full /\ journal = "staged"
    BY <2>1, <2>2, <1>6, <1>t DEF Any, Full, Present, JournalOfPhase, StagedPhases
  <2> QED BY <2>2, <2>3, BackupsAreRecoverable
<1>7. CASE pc = "commit" /\ i > N
  <2>1. InDest /\ journal \notin {"none", "rolling_back"}
    BY <1>7, <1>t, <1>w DEF InForwardLoops, JournalOfPhase, StagedPhases
  <2> QED BY <2>1, DestIsRecoverable
<1>8. CASE pc = "rb_restore"
  <2>1. journal = "rolling_back"
    BY <1>8, <1>t DEF JournalOfPhase, RollingBack
  <2>2. \A n \in Name : (n < i => InPlace(n)) /\ (n >= i => Undoable(n))
    BY <1>8, <1>w DEF InRollBack
  <2>3. good # NoFile => \A n \in Name : Kept(n) = good
    BY <2>2, <1>t DEF Kept, InPlace, Undoable
  <2> QED BY <2>1, <2>3 DEF Recoverable
<1>9. pc # "rb_journal"
  BY DEF Exposed
<1> QED
  BY <1>1, <1>2, <1>3, <1>4, <1>5, <1>6, <1>7, <1>8, <1>9, <1>t
     DEF TypeOK, Pcs, RestPhases, DestPhases, CleaningTxn, CleaningBak

\* A run may end where the next one recovers, and go on at the phases that ask
\* for artifacts at rest, or in place.
LEMMA EndIsRecoverable ==
  ASSUME pc' = "idle", i' = 1, Recoverable'
  PROVE  WhereTheOldSetIs'
BY DEF WhereTheOldSetIs, OutsideLoops, InRestore, InForwardLoops, InRollBack, RestPhases, DestPhases

LEMMA RestKeeps ==
  ASSUME AtRest', pc' \in RestPhases \cup {"finish_txn", "finish_journal"}
  PROVE  WhereTheOldSetIs'
BY DEF WhereTheOldSetIs, OutsideLoops, InRestore, InForwardLoops, InRollBack, RestPhases, DestPhases

LEMMA DestKeeps ==
  ASSUME InDest', pc' \in DestPhases \ {"publish", "cleanup", "drop"}
  PROVE  WhereTheOldSetIs'
BY DEF WhereTheOldSetIs, OutsideLoops, InRestore, InForwardLoops, InRollBack, RestPhases, DestPhases

LEMMA OldSetInit == Init => OldSetInv
<1> SUFFICES ASSUME Init PROVE WhereTheOldSetIs
  BY InvInit DEF OldSetInv
<1>1. AtRest /\ pc = "idle" /\ i = 1
  BY DEF Init, AtRest, Name
<1>2. Recoverable
  BY <1>1, RestIsRecoverable
<1> QED
  BY <1>1, <1>2 DEF WhereTheOldSetIs, OutsideLoops, InRestore, InForwardLoops, InRollBack,
     RestPhases, DestPhases

\* Undoing the artifact the loop stands at puts it back in place.
LEMMA RollBackOneUndoes ==
  ASSUME TypeOK, Saved, NEW n \in Name, Undoable(n), RollBackOne(n)
  PROVE  /\ dest'[n] = good /\ bak'[n] = NoFile
         /\ \A m \in Name \ {n} : dest'[m] = dest[m] /\ bak'[m] = bak[m]
<1>1. CASE bak[n] # NoFile
  BY <1>1 DEF RollBackOne, Put, Undoable, TypeOK
<1>2. CASE bak[n] = NoFile /\ n \in had
  <2>1. good # NoFile
    BY <1>2 DEF Saved
  <2> QED BY <1>2, <2>1 DEF RollBackOne, Put, Undoable, TypeOK
<1>3. CASE bak[n] = NoFile /\ n \notin had
  <2>1. good = NoFile
    BY <1>3 DEF Saved
  <2> QED BY <1>3, <2>1 DEF RollBackOne, Put, Undoable, TypeOK
<1> QED BY <1>1, <1>2, <1>3

LEMMA OldSetNext == OldSetInv /\ [Next]_vars => OldSetInv'
<1> SUFFICES ASSUME IInv, IInv', harm = {} => WhereTheOldSetIs, [Next]_vars, harm' = {}
             PROVE  WhereTheOldSetIs'
  BY InvNext DEF OldSetInv
<1>t. TypeOK /\ TypeOK' /\ JournalOfPhase /\ CommitProgress
  BY DEF IInv
<1>n. /\ N \in Nat /\ N >= 1 /\ i \in 1..(N + 1) /\ good \in File /\ gen \in File
      /\ \A n \in Name : n \in 1..N
  BY <1>t, Constants DEF TypeOK, Name
<1>1. CASE UNCHANGED vars
  BY <1>1 DEF vars, WhereTheOldSetIs, OutsideLoops, InRestore, InForwardLoops, InRollBack, AtRest,
     InDest, Recoverable, Recovered, Full, Any, Present, Kept, Saved, BackupsAreMine,
     MovedAway, InPlace, Undoable, OnlyNewOnes
<1>2. CASE ~UNCHANGED vars
  <2>h. harm = {}
    BY <1>2, HarmlessOps DEF Next, Run, Failures, Start, Refuse, Recover, CleanTxn, CleanBak,
       Restore, FinishJournal, Begin, Stage, Reconcile, AbortJournal, Backup, Commit,
       RollBackJournal, RollBack, RollBackTxn, RollBackDone, Publish, Cleanup, Drop, CleanFails,
       RestoreFails, StageFails, MoveFails, RollBackFails, JournalFails, CleanupFails, Crash
  <2>w. OutsideLoops /\ InRestore /\ InForwardLoops /\ InRollBack
    BY <2>h DEF WhereTheOldSetIs
  <2>c. ~(RestoreFails \/ CleanupFails)
    BY HarmlessOps DEF RestoreFails, CleanupFails
  \* A run starts where the one before ended, and its recovery begins.
  <2>1. CASE Start
    <3>1. UNCHANGED <<dest, bak, journal, good, i>> /\ pc = "idle" /\ pc' = "entry"
      BY <2>1 DEF Start
    <3>2. i = 1 /\ Recoverable
      BY <3>1, <2>w DEF OutsideLoops
    <3>3. Recoverable'
      BY <3>1, <3>2 DEF Recoverable, Recovered, Full, Any, Present, AtRest, InDest, Kept
    <3> QED BY <3>1, <3>2, <3>3 DEF WhereTheOldSetIs, OutsideLoops, InRestore, InForwardLoops,
               InRollBack, RestPhases, DestPhases
  <2>2. CASE Refuse
    <3>1. UNCHANGED <<dest, bak, journal, good>> /\ pc = "entry" /\ pc' = "idle" /\ i' = 1
      BY <2>2 DEF Refuse, End
    <3>2. Recoverable
      BY <3>1, <2>w DEF OutsideLoops
    <3>3. Recoverable'
      BY <3>1, <3>2 DEF Recoverable, Recovered, Full, Any, Present, AtRest, InDest, Kept
    <3> QED BY <3>1, <3>3, EndIsRecoverable
  <2>3. CASE Recover
    <3>1. /\ UNCHANGED <<dest, bak, journal, good, i>> /\ pc = "entry" /\ pc' = Route
          /\ i = 1 /\ Recoverable /\ journal # "rolling_back" /\ journal \in Journals
      BY <2>3, <2>w, <1>t, RouteType DEF Recover, Goto, OutsideLoops, TypeOK
    <3>2. CASE journal = "none"
      <4>1. AtRest' /\ pc' = "begin"
        BY <3>1, <3>2 DEF Recoverable, AtRest, Route
      <4> QED BY <4>1, RestKeeps DEF RestPhases
    <3>3. CASE journal = "committed"
      <4>1. InDest' /\ pc' = "settle_bak"
        BY <3>1, <3>3 DEF Recoverable, InDest, Route
      <4> QED BY <4>1, DestKeeps DEF DestPhases
    <3>4. CASE journal = "staged"
      <4>r. \A n \in Name : Recovered[n] = good
        BY <3>1, <3>4 DEF Recoverable
      <4>1. CASE ~Any
        <5>1. ~Full
          BY <4>1, <1>n, Constants DEF Any, Full, Present, Name
        <5>2. InDest' /\ pc' = "void_txn"
          BY <3>1, <3>4, <4>r, <4>1, <5>1 DEF Recovered, InDest, Any, Present, Route
        <5> QED BY <5>2, DestKeeps DEF DestPhases
      <4>2. CASE Full /\ ~HasBak
        <5>1. Any
          BY <4>2, <1>n, Constants DEF Any, Full, Present, Name
        <5>2. AtRest' /\ pc' = "residue_txn"
          BY <3>1, <3>4, <4>r, <4>2, <5>1 DEF Recovered, AtRest, HasBak, Present, Route
        <5> QED BY <5>2, RestKeeps DEF RestPhases
      <4>3. CASE Full /\ HasBak
        <5>1. Any
          BY <4>3, <1>n, Constants DEF Any, Full, Present, Name
        <5>2. InDest' /\ pc' = "finish_bak"
          BY <3>1, <3>4, <4>r, <4>3, <5>1 DEF Recovered, InDest, Route
        <5> QED BY <5>2, DestKeeps DEF DestPhases
      <4>4. CASE Any /\ ~Full
        <5>1. pc' = "restore" /\ \A n \in Name : bak[n] = good
          BY <3>1, <3>4, <4>r, <4>4 DEF Recovered, Route
        <5>2. Any' /\ ~Full'
          BY <3>1, <4>4 DEF Any, Full, Present
        <5> QED BY <3>1, <5>1, <5>2, <1>n DEF WhereTheOldSetIs, OutsideLoops, InRestore,
                   InForwardLoops, InRollBack, RestPhases, DestPhases
      <4> QED BY <4>1, <4>2, <4>3, <4>4
    <3> QED BY <3>1, <3>2, <3>3, <3>4 DEF Journals
  <2>4. CASE CleanTxn
    <3>1. UNCHANGED <<dest, bak, good>> /\ pc \in CleaningTxn /\ pc' \in {pc, After(pc)}
      BY <2>4 DEF CleanTxn
    <3>2. CASE pc = "void_txn"
      <4>1. InDest' /\ pc' \in {"void_txn", "void_bak"}
        BY <3>1, <3>2, <2>w DEF OutsideLoops, DestPhases, InDest, After
      <4> QED BY <4>1, DestKeeps DEF DestPhases
    <3>3. CASE pc # "void_txn"
      <4>1. AtRest /\ pc' \in RestPhases \cup {"finish_txn", "finish_journal"}
        BY <3>1, <3>3, <2>w DEF OutsideLoops, RestPhases, CleaningTxn, After
      <4>2. AtRest'
        BY <3>1, <4>1 DEF AtRest
      <4> QED BY <4>1, <4>2, RestKeeps
    <3> QED BY <3>2, <3>3
  <2>5. CASE CleanBak
    <3>1. UNCHANGED <<dest, good>> /\ pc \in CleaningBak /\ InDest
      BY <2>5, <2>w DEF CleanBak, CleaningBak, OutsideLoops, DestPhases
    <3>2. CASE pc' = pc
      <4>1. InDest'
        BY <3>1 DEF InDest
      <4> QED BY <3>1, <3>2, <4>1, DestKeeps DEF CleaningBak, DestPhases
    <3>3. CASE Present(bak) = {} /\ bak' = bak /\ pc' = After(pc)
      <4>1. AtRest'
        BY <3>1, <3>3 DEF InDest, AtRest, Present
      <4>2. pc' \in RestPhases \cup {"finish_txn", "finish_journal"}
        BY <3>1, <3>3 DEF CleaningBak, After, RestPhases
      <4> QED BY <4>1, <4>2, RestKeeps
    <3> QED BY <2>5, <3>2, <3>3 DEF CleanBak
  <2>6. CASE Restore
    <3>1. pc = "restore" /\ good' = good /\ \A n \in Name : IF n < i THEN InPlace(n) ELSE bak[n] = good
      BY <2>6, <2>w DEF Restore, InRestore
    <3>2. CASE i <= N
      <4>1. i \in Name /\ i' = i + 1 /\ pc' = "restore" /\ RestoreOne(i)
        BY <2>6, <3>2, <1>n DEF Restore, Name
      <4>2. bak[i] = good
        BY <3>1, <4>1, <1>n
      <4>3. /\ dest'[i] = good /\ bak'[i] = NoFile
            /\ \A m \in Name \ {i} : dest'[m] = dest[m] /\ bak'[m] = bak[m]
        BY <4>1, <4>2, <1>t DEF RestoreOne, Put, TypeOK
      <4>4. ASSUME NEW n \in Name PROVE IF n < i' THEN InPlace(n)' ELSE bak'[n] = good'
        <5>1. CASE n = i
          BY <5>1, <4>1, <4>3, <3>1, <1>n DEF InPlace
        <5>2. CASE n # i
          BY <5>2, <4>1, <4>3, <3>1, <1>n DEF InPlace
        <5> QED BY <5>1, <5>2
      <4>5. i' # 1
        BY <4>1, <1>n
      <4> QED BY <4>1, <4>4, <4>5 DEF WhereTheOldSetIs, OutsideLoops, InRestore, InForwardLoops,
                 InRollBack, RestPhases, DestPhases
    <3>3. CASE i > N
      <4>1. UNCHANGED <<dest, bak>> /\ pc' = "residue_txn"
        BY <2>6, <3>3, <1>n DEF Restore
      <4>2. AtRest'
        BY <4>1, <3>1, <3>3, <1>n DEF AtRest, InPlace
      <4> QED BY <4>1, <4>2, RestKeeps DEF RestPhases
    <3> QED BY <3>2, <3>3, <1>n
  \* The steps between phases at rest touch neither an artifact nor a backup.
  <2>7. CASE Begin \/ Stage \/ StageFails \/ RollBackTxn \/ FinishJournal
    <3>1. UNCHANGED <<dest, bak, good>> /\ pc \in RestPhases \cup {"finish_txn", "finish_journal"}
          /\ pc' \in RestPhases
      BY <2>7 DEF Begin, Stage, StageFails, RollBackTxn, FinishJournal, RestPhases, Goto
    <3>2. AtRest'
      BY <3>1, <2>w DEF OutsideLoops, AtRest
    <3> QED BY <3>1, <3>2, RestKeeps
  <2>8. CASE AbortJournal \/ RollBackDone \/ Drop
    <3>1. UNCHANGED <<dest, bak, good>> /\ pc \in RestPhases \cup {"drop"} /\ pc' = "idle" /\ i' = 1
      BY <2>8 DEF AbortJournal, RollBackDone, Drop, End, RestPhases
    <3>2. AtRest'
      BY <3>1, <2>w DEF OutsideLoops, InForwardLoops, AtRest
    <3> QED BY <3>1, <3>2, PrimedRecoverable, EndIsRecoverable
  \* A kill, or a call that fails where the process is not Exposed.
  <2>9. CASE Crash \/ CleanFails
    <3>1. UNCHANGED <<dest, bak, journal, good>> /\ pc' = "idle" /\ i' = 1
      BY <2>9 DEF Crash, CleanFails, End
    <3>2. ~Exposed
      BY <2>9, HarmlessOps DEF Crash, CleanFails, Exposed, CleaningTxn, CleaningBak
    <3>3. Recoverable
      BY <3>2, <2>h, SafeIsRecoverable
    <3>4. Recoverable'
      BY <3>1, <3>3 DEF Recoverable, Recovered, Full, Any, Present, AtRest, InDest, Kept
    <3> QED BY <3>1, <3>4, EndIsRecoverable
  <2>10. CASE JournalFails
    <3>1. UNCHANGED <<dest, bak, good>> /\ pc' = "idle" /\ i' = 1 /\ ~Exposed
      BY <2>10, HarmlessOps DEF JournalFails, End
    <3>2. CASE pc \in {"finish_journal", "begin", "abort_journal", "rb_done", "drop"}
      <4>1. AtRest'
        BY <3>1, <3>2, <2>w DEF OutsideLoops, InForwardLoops, RestPhases, AtRest
      <4> QED BY <3>1, <4>1, PrimedRecoverable, EndIsRecoverable
    <3>3. CASE pc = "publish" /\ journal' \in {journal, "committed"}
      <4>1. InDest' /\ journal' \notin {"none", "rolling_back"}
        BY <3>1, <3>3, <2>w, <1>t DEF OutsideLoops, DestPhases, InDest, JournalOfPhase, StagedPhases
      <4> QED BY <3>1, <4>1, PrimedRecoverable, EndIsRecoverable
    <3> QED BY <2>10, <3>1, <3>2, <3>3 DEF JournalFails, Exposed
  \* The two forward loops move every artifact away and publish the new one.
  <2>11. CASE Reconcile
    <3>1. AtRest /\ UNCHANGED <<dest, bak, good>> /\ pc' = "backup" /\ i' = 1 /\ had' = Present(dest)
      BY <2>11, <2>w DEF Reconcile, OutsideLoops, RestPhases
    <3>2. Saved'
      BY <3>1 DEF AtRest, Saved, Present
    <3>3. \A n \in Name : InPlace(n)' /\ ~(n < i')
      BY <3>1, <1>n DEF AtRest, InPlace
    <3> QED
      BY <3>1, <3>2, <3>3 DEF WhereTheOldSetIs, OutsideLoops, InRestore, InForwardLoops,
         InRollBack, RestPhases, DestPhases, InDest
  <2>12. CASE Backup
    <3>1. /\ pc = "backup" /\ Saved /\ UNCHANGED <<journal, had, good>>
          /\ \A n \in Name : IF n < i THEN MovedAway(n) ELSE InPlace(n)
      BY <2>12, <2>w DEF Backup, InForwardLoops
    <3>2. Saved'
      BY <3>1 DEF Saved
    <3>3. CASE i <= N
      <4>1. i \in Name /\ i' = i + 1 /\ pc' = "backup" /\ BackupOne(i)
        BY <2>12, <3>1, <3>3, <1>n DEF Backup, Name
      <4>2. bak'[i] = good' /\ dest'[i] = NoFile
        BY <4>1, <3>1, <1>t, <1>n DEF BackupOne, Put, MovedAway, InPlace, Saved, TypeOK
      <4>3. \A m \in Name \ {i} : dest'[m] = dest[m] /\ bak'[m] = bak[m]
        BY <4>1, <1>t DEF BackupOne, Put, TypeOK
      <4>4. \A n \in Name : IF n < i' THEN MovedAway(n)' ELSE InPlace(n)'
        <5> SUFFICES ASSUME NEW n \in Name PROVE IF n < i' THEN MovedAway(n)' ELSE InPlace(n)'
          OBVIOUS
        <5>1. CASE n = i
          BY <5>1, <4>1, <4>2, <1>n DEF MovedAway
        <5>2. CASE n # i
          BY <5>2, <4>1, <4>3, <3>1, <1>n DEF MovedAway, InPlace
        <5> QED BY <5>1, <5>2
      <4> QED
        BY <4>1, <4>4, <3>2 DEF WhereTheOldSetIs, OutsideLoops, InRestore, InForwardLoops,
           InRollBack, RestPhases, DestPhases, InDest
    <3>4. CASE i > N
      <4>1. i' = 1 /\ pc' = "commit" /\ UNCHANGED <<dest, bak>>
        BY <2>12, <3>4, <1>n DEF Backup
      <4>2. \A n \in Name : MovedAway(n)
        BY <3>1, <3>4, <1>n
      <4>3. BackupsAreMine'
        BY <4>1, <4>2, <3>1, <3>2 DEF BackupsAreMine, MovedAway, Saved
      <4> QED
        BY <4>1, <4>2, <4>3, <3>1, <3>2, <1>n DEF WhereTheOldSetIs, OutsideLoops, InRestore,
           InForwardLoops, InRollBack, RestPhases, DestPhases, InDest, MovedAway
    <3> QED BY <3>3, <3>4, <1>n
  <2>13. CASE Commit
    <3>1. pc = "commit" /\ UNCHANGED <<bak, journal, gen, had>> /\ BackupsAreMine
      BY <2>13, <2>w DEF Commit, InForwardLoops
    <3>2. BackupsAreMine'
      BY <3>1 DEF BackupsAreMine
    <3>3. CASE i <= N
      <4>1. /\ i \in Name /\ i' = i + 1 /\ pc' = "commit" /\ CommitOne(i)
            /\ good' = IF i = N THEN gen ELSE good
        BY <2>13, <3>1, <3>3, <1>n DEF Commit, Name
      <4>2. Saved /\ \A n \in Name : bak[n] = good /\ (n >= i => dest[n] = NoFile)
        BY <3>1, <3>3, <2>w DEF InForwardLoops
      <4>3. \A m \in Name \ {i} : dest'[m] = dest[m]
        BY <4>1, <1>t DEF CommitOne, Put, TypeOK
      <4>4. CASE i = N
        <5>1. \A n \in Name : dest'[n] = gen
          <6>1. dest'[i] = gen
            BY <4>1, <3>1, <1>t, <1>n DEF CommitOne, Put, CommitProgress, TypeOK
          <6>2. \A n \in Name \ {i} : dest[n] = gen
            BY <4>4, <3>1, <1>t, <1>n DEF CommitProgress
          <6> QED BY <6>1, <6>2, <4>3
        <5> QED
          BY <5>1, <4>1, <4>4, <3>2, <1>n DEF WhereTheOldSetIs, OutsideLoops, InRestore,
             InForwardLoops, InRollBack, RestPhases, DestPhases, InDest
      <4>5. CASE i # N
        <5>1. Saved'
          BY <4>1, <4>2, <4>5, <3>1 DEF Saved
        <5>2. \A n \in Name : bak'[n] = good' /\ (n >= i' => dest'[n] = NoFile)
          BY <4>1, <4>2, <4>3, <4>5, <3>1, <1>n
        <5> QED
          BY <5>1, <5>2, <4>1, <4>5, <3>2, <3>3, <1>n DEF WhereTheOldSetIs, OutsideLoops,
             InRestore, InForwardLoops, InRollBack, RestPhases, DestPhases, InDest
      <4> QED BY <4>4, <4>5
    <3>4. CASE i > N
      <4>1. i' = 1 /\ pc' = "publish" /\ UNCHANGED <<dest, good>>
        BY <2>13, <3>4, <1>n DEF Commit
      <4>2. \A n \in Name : dest'[n] = good'
        BY <4>1, <3>1, <3>4, <2>w DEF InForwardLoops, InDest
      <4> QED
        BY <4>1, <4>2, <3>2 DEF WhereTheOldSetIs, OutsideLoops, InRestore, InForwardLoops,
           InRollBack, RestPhases, DestPhases, InDest
    <3> QED BY <3>3, <3>4, <1>n
  \* A move that fails, done or not, leaves every artifact undoable.
  <2>14. CASE MoveFails
    <3>1. /\ i <= N /\ i' = 1 /\ pc' = "rb_journal" /\ UNCHANGED <<had, good, journal>>
          /\ pc \in {"backup", "commit"} /\ i \in Name
      BY <2>14, <1>n DEF MoveFails, Goto, Name
    <3>2. Saved'
      BY <3>1, <2>w DEF InForwardLoops, Saved
    <3>3. \A n \in Name : Undoable(n)'
      <4>1. CASE pc = "backup" /\ BackupOne(i)
        <5>1. \A n \in Name : IF n < i THEN MovedAway(n) ELSE InPlace(n)
          BY <4>1, <2>w DEF InForwardLoops
        <5>2. \A n \in Name : bak'[n] = good \/ (bak'[n] = bak[n] /\ dest'[n] = dest[n])
          BY <4>1, <5>1, <3>1, <1>t, <1>n DEF BackupOne, Put, TypeOK, InPlace
        <5> QED BY <5>1, <5>2, <3>1 DEF MovedAway, InPlace, Undoable
      <4>2. CASE pc = "commit" /\ bak' = bak
        BY <4>2, <3>1, <2>w DEF InForwardLoops, Undoable
      <4>3. CASE UNCHANGED files
        <5>1. \A n \in Name : Undoable(n)
          BY <3>1, <2>w DEF InForwardLoops, MovedAway, InPlace, Undoable
        <5> QED BY <5>1, <4>3, <3>1 DEF files, Undoable
      <4> QED BY <2>14, <4>1, <4>2, <4>3 DEF MoveFails
    <3>4. OnlyNewOnes'
      <4> SUFFICES ASSUME good = NoFile, NEW n \in Name PROVE dest'[n] \in {NoFile, gen}
        BY <2>14, <3>1 DEF OnlyNewOnes, MoveFails, Goto
      <4>1. dest[n] \in {NoFile, gen} /\ had = {}
        <5>1. CASE pc = "backup"
          BY <5>1, <2>w, <1>n DEF InForwardLoops, MovedAway, InPlace, Saved
        <5>2. CASE pc = "commit"
          BY <5>2, <3>1, <2>w, <1>t, <1>n DEF InForwardLoops, Saved, CommitProgress
        <5> QED BY <3>1, <5>1, <5>2
      <4>2. CASE pc = "commit" /\ CommitOne(i)
        <5>1. txn[i] = gen
          BY <4>2, <3>1, <1>t, <1>n DEF CommitProgress
        <5> QED BY <5>1, <4>1, <4>2, <3>1, <1>t DEF CommitOne, Put, TypeOK
      <4>3. CASE dest' = dest
        BY <4>1, <4>3
      <4> QED BY <2>14, <4>1, <4>2, <4>3 DEF MoveFails, BackupOne, files
    <3> QED
      BY <3>1, <3>2, <3>3, <3>4 DEF WhereTheOldSetIs, OutsideLoops, InRestore, InForwardLoops,
         InRollBack, RestPhases, DestPhases, InDest
  <2>15. CASE RollBackJournal
    <3>1. /\ pc = "rb_journal" /\ pc' = "rb_restore" /\ UNCHANGED <<dest, bak, gen, had, good, i>>
      BY <2>15 DEF RollBackJournal, Goto
    <3>2. i = 1 /\ Saved /\ OnlyNewOnes /\ \A n \in Name : n >= i => Undoable(n)
      BY <3>1, <2>w DEF InRollBack
    <3>3. Saved' /\ OnlyNewOnes' /\ (\A n \in Name : Undoable(n)' /\ ~(n < i'))
      BY <3>1, <3>2, <1>n DEF Saved, Undoable, OnlyNewOnes
    <3> QED
      BY <3>1, <3>3 DEF WhereTheOldSetIs, OutsideLoops, InRestore, InForwardLoops, InRollBack,
         RestPhases, DestPhases, InDest
  <2>16. CASE RollBack
    <3>1. /\ pc = "rb_restore" /\ UNCHANGED <<gen, had, good, journal>> /\ Saved /\ OnlyNewOnes
          /\ \A n \in Name : (n < i => InPlace(n)) /\ (n >= i => Undoable(n))
      BY <2>16, <2>w DEF RollBack, InRollBack
    <3>2. CASE i <= N
      <4>1. i \in Name /\ i' = i + 1 /\ pc' = "rb_restore" /\ RollBackOne(i)
        BY <2>16, <3>1, <3>2, <1>n DEF RollBack, Name
      <4>2. /\ dest'[i] = good /\ bak'[i] = NoFile
            /\ \A m \in Name \ {i} : dest'[m] = dest[m] /\ bak'[m] = bak[m]
        BY <4>1, <3>1, <1>t, <1>n, RollBackOneUndoes
      <4>3. \A n \in Name : (n < i' => InPlace(n)') /\ (n >= i' => Undoable(n)')
        <5> SUFFICES ASSUME NEW n \in Name
                     PROVE  (n < i' => InPlace(n)') /\ (n >= i' => Undoable(n)')
          OBVIOUS
        <5>1. CASE n = i
          BY <5>1, <4>1, <4>2, <3>1, <1>n DEF InPlace
        <5>2. CASE n # i
          BY <5>2, <4>1, <4>2, <3>1, <1>n DEF InPlace, Undoable
        <5> QED BY <5>1, <5>2
      <4>4. Saved' /\ OnlyNewOnes'
        BY <3>1, <4>1, <4>2 DEF Saved, OnlyNewOnes
      <4> QED
        BY <4>1, <4>3, <4>4 DEF WhereTheOldSetIs, OutsideLoops, InRestore, InForwardLoops,
           InRollBack, RestPhases, DestPhases, InDest
    <3>3. CASE i > N
      <4>1. UNCHANGED <<dest, bak>> /\ pc' = "rb_txn"
        BY <2>16, <3>3, <1>n DEF RollBack
      <4>2. AtRest' /\ pc' \in RestPhases
        BY <4>1, <3>1, <3>3, <1>n, <1>t DEF AtRest, InPlace, RestPhases, JournalOfPhase, RollingBack
      <4> QED BY <4>2, RestKeeps
    <3> QED BY <3>2, <3>3, <1>n
  \* A rollback that gives up keeps the set between the two places.
  <2>17. CASE RollBackFails
    <3>1. /\ pc \in {"rb_restore", "rb_txn"} /\ i <= N /\ i \in Name /\ UNCHANGED <<journal, good>>
          /\ pc' = "idle" /\ i' = 1 /\ journal = "rolling_back"
      BY <2>17, <1>t, <1>n DEF RollBackFails, End, Name, JournalOfPhase, RollingBack
    <3>2. ASSUME good # NoFile, NEW n \in Name PROVE Kept(n)' = good
      <4>1. CASE pc = "rb_restore"
        <5>1. Saved /\ \A m \in Name : (m < i => InPlace(m)) /\ (m >= i => Undoable(m))
          BY <4>1, <2>w DEF InRollBack
        <5>2. Kept(n) = good
          BY <3>2, <5>1, <1>n DEF Kept, InPlace, Undoable
        <5>3. CASE RollBackOne(i)
          <6>1. /\ dest'[i] = good /\ bak'[i] = NoFile
                /\ \A m \in Name \ {i} : dest'[m] = dest[m] /\ bak'[m] = bak[m]
            BY <5>1, <5>3, <3>1, <1>t, <1>n, RollBackOneUndoes
          <6>2. CASE n = i
            BY <6>1, <6>2 DEF Kept
          <6>3. CASE n # i
            <7>1. dest'[n] = dest[n] /\ bak'[n] = bak[n]
              BY <6>1, <6>3
            <7> QED BY <7>1, <5>2 DEF Kept
          <6> QED BY <6>2, <6>3
        <5>4. CASE UNCHANGED files
          BY <5>4, <5>2 DEF files, Kept
        <5> QED BY <2>17, <4>1, <5>3, <5>4 DEF RollBackFails
      <4>2. CASE pc = "rb_txn"
        <5>1. AtRest /\ UNCHANGED <<dest, bak>>
          BY <2>17, <4>2, <2>w DEF RollBackFails, files, OutsideLoops, RestPhases
        <5> QED BY <3>2, <5>1 DEF AtRest, Kept
      <4> QED BY <3>1, <4>1, <4>2
    <3>3. Recoverable'
      BY <3>1, <3>2 DEF Recoverable
    <3> QED BY <3>1, <3>3, EndIsRecoverable
  \* The set is published; its backups go and then its journal.
  <2>18. CASE Publish
    <3>1. /\ pc = "publish" /\ pc' = "cleanup" /\ UNCHANGED <<dest, bak, had, good, i>>
      BY <2>18 DEF Publish, Goto
    <3>2. i = 1
      BY <3>1, <2>w DEF InForwardLoops
    <3> QED
      BY <3>1, <3>2, <2>w, <1>n DEF WhereTheOldSetIs, OutsideLoops, InRestore, InForwardLoops,
         InRollBack, RestPhases, DestPhases, InDest, BackupsAreMine
  <2>19. CASE Cleanup
    <3>1. /\ pc = "cleanup" /\ UNCHANGED <<dest, had, good, journal>> /\ BackupsAreMine
          /\ \A n \in Name : dest[n] = good /\ (n < i => bak[n] = NoFile)
      BY <2>19, <2>w DEF Cleanup, OutsideLoops, InForwardLoops, DestPhases, InDest
    <3>2. CASE i <= N
      <4>1. /\ i \in Name /\ i' = i + 1 /\ pc' = "cleanup"
            /\ bak' = IF i \in had THEN Put(bak, i, NoFile) ELSE bak
        BY <2>19, <3>1, <3>2, <1>n DEF Cleanup, Name
      <4>2. bak'[i] = NoFile /\ \A m \in Name \ {i} : bak'[m] = bak[m]
        BY <4>1, <3>1, <1>t DEF Put, BackupsAreMine, TypeOK
      <4>3. BackupsAreMine' /\ \A n \in Name : n < i' => bak'[n] = NoFile
        BY <4>1, <4>2, <3>1, <1>n DEF BackupsAreMine
      <4> QED
        BY <4>1, <4>3, <3>1 DEF WhereTheOldSetIs, OutsideLoops, InRestore, InForwardLoops,
           InRollBack, RestPhases, DestPhases, InDest
    <3>3. CASE i > N
      <4>1. pc' = "drop" /\ bak' = bak
        BY <2>19, <3>3, <1>n DEF Cleanup
      <4> QED
        BY <4>1, <3>1, <3>3, <1>n DEF WhereTheOldSetIs, OutsideLoops, InRestore, InForwardLoops,
           InRollBack, RestPhases, DestPhases, InDest, AtRest, BackupsAreMine
    <3> QED BY <3>2, <3>3, <1>n
  <2> QED
    BY <1>2, <2>c, <2>1, <2>2, <2>3, <2>4, <2>5, <2>6, <2>7, <2>8, <2>9, <2>10,
       <2>11, <2>12, <2>13, <2>14, <2>15, <2>16, <2>17, <2>18, <2>19 DEF Next, Run, Failures
<1> QED BY <1>1, <1>2

LEMMA OldSetHolds == Spec => []OldSetInv
BY OldSetInit, OldSetNext, PTL DEF Spec

\* Through every failure and every kill but the ones that do harm, the artifacts
\* published last are complete between their formal places and their backups,
\* whatever the number of artifacts, failures and runs.
THEOREM FailedTransactionKeepsOldSet == Spec => []HarmlessKeepsOldSet
<1>1. OldSetInv => HarmlessKeepsOldSet
  <2> SUFFICES ASSUME IInv, WhereTheOldSetIs, good # NoFile, NEW n \in Name
               PROVE  good \in {dest[n], bak[n]}
    BY DEF OldSetInv, HarmlessKeepsOldSet, OldSetKept
  <2>1. TypeOK /\ N \in Nat /\ N >= 1 /\ i \in 1..(N + 1) /\ n \in 1..N
    BY Constants DEF IInv, TypeOK, Name
  <2>2. CASE ~Exposed
    <3>1. Recoverable /\ journal \in Journals
      BY <2>1, <2>2, SafeIsRecoverable DEF TypeOK
    <3>2. CASE journal \in {"none", "committed"}
      BY <3>1, <3>2 DEF Recoverable, AtRest, InDest
    <3>3. CASE journal = "staged"
      BY <3>1, <3>3 DEF Recoverable, Recovered
    <3>4. CASE journal = "rolling_back"
      BY <3>1, <3>4 DEF Recoverable, Kept
    <3> QED BY <3>1, <3>2, <3>3, <3>4 DEF Journals
  <2>3. CASE Exposed
    BY <2>1, <2>3 DEF Exposed, WhereTheOldSetIs, InRestore, InForwardLoops, InRollBack,
       MovedAway, InPlace, Undoable
  <2> QED BY <2>2, <2>3
<1> QED BY <1>1, OldSetHolds, PTL

(***************************************************************************)
(* The transaction implements GenerationStore.                             *)
(***************************************************************************)
\* No later run resolves a rollback that failed: the directory rests as it is.
Unresolved == pc \in {"idle", "entry"} /\ journal = "rolling_back"

LEMMA StoreTyped == TypeOK => Store \in File
<1> SUFFICES ASSUME TypeOK PROVE Store \in File
  OBVIOUS
<1>1. N \in Name
  BY Constants DEF Name
<1>2. \A n \in Name : Recovered[n] \in File /\ Kept(n) \in File /\ dest[n] \in File /\ bak[n] \in File
  BY DEF TypeOK, Recovered, Kept, File
<1>3. View(N) \in File
  BY <1>1, <1>2 DEF View, File
<1> QED BY <1>3 DEF Store, File

\* Everywhere else the directory stands for the generation published last.
LEMMA StoreIsGood ==
  ASSUME IInv, WhereTheOldSetIs, ~Unresolved \/ good # NoFile
  PROVE  Store = good
<1>t. TypeOK /\ JournalOfPhase /\ CommitProgress /\ N \in Nat /\ N >= 1 /\ i \in 1..(N + 1)
      /\ Name = 1..N /\ NoFile \notin Gens
  BY Constants DEF IInv, TypeOK, Name
<1>w. OutsideLoops /\ InRestore /\ InForwardLoops /\ InRollBack
  BY DEF WhereTheOldSetIs
<1>1. ASSUME NEW n \in Name PROVE View(n) = good
  <2>1. CASE pc \in {"idle", "entry"}
    <3>r. Recoverable /\ ~Undoing /\ journal \in Journals
      BY <2>1, <1>w, <1>t DEF OutsideLoops, Undoing, TypeOK
    <3>1. CASE journal \in {"none", "committed"}
      BY <2>1, <3>r, <3>1 DEF Recoverable, AtRest, InDest, View
    <3>2. CASE journal = "staged"
      BY <2>1, <3>r, <3>2 DEF Recoverable, View
    <3>3. CASE journal = "rolling_back"
      BY <2>1, <3>r, <3>3 DEF Recoverable, View, Unresolved
    <3> QED BY <3>r, <3>1, <3>2, <3>3 DEF Journals
  <2>2. CASE pc \in RestPhases \cup DestPhases \cup {"finish_txn", "finish_journal"}
    BY <2>2, <1>w DEF OutsideLoops, RestPhases, DestPhases, AtRest, InDest, View, Undoing
  <2>3. CASE pc = "restore"
    BY <2>3, <1>w, <1>t DEF InRestore, InPlace, View, Undoing
  <2>4. CASE pc = "commit" /\ i > N
    BY <2>4, <1>w, <1>t DEF InForwardLoops, InDest, View, Undoing
  <2>5. CASE Undoing
    <3>1. View(n) = IF bak[n] # NoFile \/ n \in had THEN Kept(n) ELSE NoFile
      BY <2>5 DEF View, Undoing
    <3>2. Saved
      BY <2>5, <1>w DEF Undoing, InForwardLoops, InRollBack
    <3>3. Undoable(n) \/ bak[n] = good
      BY <2>5, <1>w, <1>t DEF Undoing, InForwardLoops, InRollBack, Undoable, MovedAway, InPlace
    <3> QED BY <3>1, <3>2, <3>3 DEF Saved, Undoable, Kept
  <2> QED
    BY <2>1, <2>2, <2>3, <2>4, <2>5, <1>t
       DEF TypeOK, Pcs, RestPhases, DestPhases, CleaningTxn, CleaningBak, Undoing
<1>2. N \in Name
  BY <1>t
<1> QED BY <1>1, <1>2 DEF Store

\* A rollback that failed leaves what the directory stands for as it is.
LEMMA UnresolvedStaysSo ==
  ASSUME IInv, Unresolved, [Next]_vars
  PROVE  Unresolved' /\ Store' = Store
<1>1. pc \in {"idle", "entry"} /\ journal = "rolling_back" /\ MustRefuse /\ N \in Name
  BY Constants DEF Unresolved, MustRefuse, Name
<1>2. UNCHANGED <<dest, bak, journal>> /\ pc' \in {"idle", "entry"}
  <2>1. CASE Start \/ Refuse \/ Crash
    BY <1>1, <2>1 DEF Start, Refuse, Crash, End
  <2>2. ~(CleanTxn \/ CleanBak \/ CleanFails)
    BY <1>1 DEF CleanTxn, CleanBak, CleanFails, CleaningTxn, CleaningBak
  <2>3. ~(\/ Recover \/ Restore \/ FinishJournal \/ Begin \/ Stage \/ Reconcile \/ AbortJournal
          \/ Backup \/ Commit \/ RollBackJournal \/ RollBack \/ RollBackTxn \/ RollBackDone
          \/ Publish \/ Cleanup \/ Drop \/ RestoreFails \/ StageFails \/ MoveFails
          \/ RollBackFails \/ JournalFails \/ CleanupFails)
    BY <1>1 DEF Recover, Restore, FinishJournal, Begin, Stage, Reconcile, AbortJournal, Backup,
       Commit, RollBackJournal, RollBack, RollBackTxn, RollBackDone, Publish, Cleanup, Drop,
       RestoreFails, StageFails, MoveFails, RollBackFails, JournalFails, CleanupFails
  <2>4. CASE UNCHANGED vars
    BY <1>1, <2>4 DEF vars
  <2> QED BY <2>1, <2>2, <2>3, <2>4 DEF Next, Run, Failures
<1>3. ASSUME NEW n \in Name PROVE View(n) = Kept(n) /\ View(n)' = Kept(n) /\ Kept(n)' = Kept(n)
  BY <1>1, <1>2 DEF View, Undoing, Kept
<1> QED BY <1>1, <1>2, <1>3 DEF Unresolved, Store

\* Only the rename of the last artifact changes which generation is published,
\* and no harm is ever undone.
LEMMA GoodStep ==
  ASSUME IInv, [Next]_vars
  PROVE  /\ good' = good \/ (gen \in Gens /\ good' = gen /\ pc' = "commit")
         /\ harm # {} => harm' # {}
<1>1. gen \in Gens \/ pc = "idle"
  BY DEF IInv, CommitProgress
<1>2. good' = good \/ (gen \in Gens /\ good' = gen /\ pc' = "commit")
  <2>1. CASE Commit
    BY <1>1, <2>1 DEF Commit
  <2>2. CASE ~Commit
    BY <2>2 DEF Next, Run, Failures, vars, Start, Refuse, Recover, CleanTxn, CleanBak, Restore,
       FinishJournal, Begin, Stage, Reconcile, AbortJournal, Backup, RollBackJournal, RollBack,
       RollBackTxn, RollBackDone, Publish, Cleanup, Drop, CleanFails, RestoreFails, StageFails,
       MoveFails, RollBackFails, JournalFails, CleanupFails, Crash
  <2> QED BY <2>1, <2>2
<1>3. harm' = {} => harm = {}
  <2>1. CASE UNCHANGED vars
    BY <2>1 DEF vars
  <2>2. CASE Next
    BY <2>2, HarmlessOps DEF Next, Run, Failures, Start, Refuse, Recover, CleanTxn, CleanBak,
       Restore, FinishJournal, Begin, Stage, Reconcile, AbortJournal, Backup, Commit,
       RollBackJournal, RollBack, RollBackTxn, RollBackDone, Publish, Cleanup, Drop, CleanFails,
       RestoreFails, StageFails, MoveFails, RollBackFails, JournalFails, CleanupFails, Crash
  <2> QED BY <2>1, <2>2
<1> QED BY <1>2, <1>3

LEMMA PrimedStoreIsGood ==
  IInv' /\ WhereTheOldSetIs' /\ (~Unresolved' \/ good' # NoFile) => Store' = good'
<1>1. IInv /\ WhereTheOldSetIs /\ (~Unresolved \/ good # NoFile) => Store = good
  BY StoreIsGood
<1>2. (IInv /\ WhereTheOldSetIs /\ (~Unresolved \/ good # NoFile) => Store = good)'
  BY <1>1, PTL
<1> QED BY <1>2

\* A rollback that gives up when nothing had been published leaves what this
\* run published, whole or in part.
LEMMA GivenUp ==
  ASSUME IInv, WhereTheOldSetIs, [Next]_vars, ~Unresolved, Unresolved', good = NoFile
  PROVE  \A n \in Name : View(n)' \in {NoFile, gen}
<1>t. TypeOK /\ JournalOfPhase /\ N \in Nat /\ N >= 1 /\ i \in 1..(N + 1) /\ Name = 1..N
  BY Constants DEF IInv, TypeOK, Name
<1>r. \A n \in Name : View(n)' = Kept(n)'
  BY DEF View, Undoing, Unresolved, Kept
<1>1. CASE pc \in {"rb_journal", "rb_restore", "rb_txn", "rb_done"}
  <2>1. \A n \in Name : dest[n] \in {NoFile, gen} /\ bak[n] = NoFile
    <3>1. CASE pc \in {"rb_journal", "rb_restore"}
      BY <3>1, <1>t DEF WhereTheOldSetIs, InRollBack, OnlyNewOnes, Undoable, InPlace
    <3>2. CASE pc \in {"rb_txn", "rb_done"}
      BY <3>2 DEF WhereTheOldSetIs, OutsideLoops, RestPhases, AtRest
    <3> QED BY <1>1, <3>1, <3>2
  <2>2. UNCHANGED <<dest, bak>> \/ (i \in Name /\ RollBackOne(i))
    <3>1. CASE Crash \/ JournalFails
      BY <3>1 DEF Crash, JournalFails
    <3>2. CASE RollBackFails
      BY <3>2, <1>t DEF RollBackFails, files
    <3>3. CASE RollBackDone \/ RollBackJournal \/ RollBack \/ RollBackTxn
      BY <3>3 DEF RollBackDone, RollBackJournal, RollBack, RollBackTxn, Goto, Unresolved
    <3> QED BY <1>1, <3>1, <3>2, <3>3 DEF Next, Run, Failures, vars, Start, Refuse, Recover, CleanTxn,
       CleanBak, Restore, FinishJournal, Begin, Stage, Reconcile, AbortJournal, Backup, Commit,
       Publish, Cleanup, Drop, CleanFails, RestoreFails, StageFails, MoveFails, CleanupFails,
       CleaningTxn, CleaningBak, Unresolved
  <2>3. \A n \in Name : bak'[n] = NoFile /\ dest'[n] \in {dest[n], NoFile}
    BY <2>1, <2>2, <1>t DEF RollBackOne, Put, TypeOK
  <2> QED BY <1>r, <2>1, <2>3 DEF Kept
<1>2. CASE pc \notin {"rb_journal", "rb_restore", "rb_txn", "rb_done"}
  <2>1. journal # "rolling_back"
    BY <1>2, <1>t DEF JournalOfPhase, RollingBack, Unresolved
  <2>2. journal' # "rolling_back"
    BY <1>2, <2>1 DEF Next, Run, Failures, vars, Start, Refuse, Recover, CleanTxn, CleanBak, Restore,
       FinishJournal, Begin, Stage, Reconcile, AbortJournal, Backup, Commit, RollBackJournal,
       RollBack, RollBackTxn, RollBackDone, Publish, Cleanup, Drop, CleanFails, RestoreFails,
       StageFails, MoveFails, RollBackFails, JournalFails, CleanupFails, Crash
  <2> QED BY <2>2 DEF Unresolved
<1> QED BY <1>1, <1>2

\* It was a running process that gave up.
LEMMA Running ==
  ASSUME IInv, [Next]_vars, ~Unresolved, Unresolved'
  PROVE  gen \in Gens
<1>1. CASE pc = "idle"
  BY <1>1 DEF Next, Run, Failures, vars, Start, Refuse, Recover, CleanTxn, CleanBak, Restore,
       FinishJournal, Begin, Stage, Reconcile, AbortJournal, Backup, Commit, RollBackJournal,
       RollBack, RollBackTxn, RollBackDone, Publish, Cleanup, Drop, CleanFails, RestoreFails,
       StageFails, MoveFails, RollBackFails, JournalFails, CleanupFails, Crash, Unresolved,
       CleaningTxn, CleaningBak
<1> QED BY <1>1 DEF IInv, CommitProgress

LEMMA PrimedStoreTyped == TypeOK' => (Store \in File)'
BY StoreTyped, PTL

\* What a step does to the generation the directory stands for.
LEMMA StoreStep ==
  ASSUME OldSetInv, OldSetInv', [Next]_vars
  PROVE  /\ Store' \in File
         /\ harm = {} /\ harm' = {} => Store' = Store \/ (gen \in Gens /\ Store' = gen)
<1>1. Store' \in File
  BY PrimedStoreTyped DEF OldSetInv, IInv
<1>2. ASSUME harm = {}, harm' = {}
      PROVE  Store' = Store \/ (gen \in Gens /\ Store' = gen)
  <2>w. IInv /\ IInv' /\ WhereTheOldSetIs /\ WhereTheOldSetIs'
    BY <1>2 DEF OldSetInv
  <2>1. CASE Unresolved
    BY <2>1, <2>w, UnresolvedStaysSo
  <2>2. CASE ~Unresolved
    <3>1. Store = good
      BY <2>2, <2>w, StoreIsGood
    <3>2. CASE ~Unresolved' \/ good' # NoFile
      BY <3>1, <3>2, <2>w, PrimedStoreIsGood, GoodStep
    <3>3. CASE Unresolved' /\ good' = NoFile
      <4>1. good' = good
        BY <3>3, <2>w, GoodStep DEF Unresolved
      <4>2. gen \in Gens
        BY <2>2, <2>w, <3>3, Running
      <4>3. N \in Name /\ View(N)' \in {NoFile, gen}
        BY <2>2, <2>w, <3>3, <4>1, GivenUp, Constants DEF Name
      <4> QED BY <3>1, <3>3, <4>1, <4>2, <4>3 DEF Store
    <3> QED BY <3>2, <3>3
  <2> QED BY <2>1, <2>2
<1> QED BY <1>1, <1>2

\* The directory stands for one generation or none, and only a finished
\* transaction changes which: no failure, kill, recovery or rollback does,
\* unless it does harm.
THEOREM ImplementsGenerationStore == Spec => KeepsGeneration
<1>1. Init => Promise!Init
  <2>1. ASSUME Init
        PROVE  /\ Store \in Gens \cup {NoFile} /\ gen \in Gens \cup {NoFile}
               /\ Harmed = FALSE
    BY <2>1, InvInit, StoreTyped DEF Init, IInv, File, Harmed
  <2> QED BY <2>1 DEF Promise!Init, Promise!Standing
<1>2. OldSetInv /\ OldSetInv' /\ [Next]_vars => [Promise!Next]_<<Store, gen, Harmed>>
  <2> SUFFICES ASSUME OldSetInv, OldSetInv', [Next]_vars
               PROVE  [Promise!Next]_<<Store, gen, Harmed>>
    OBVIOUS
  <2>1. Store' \in Promise!Standing /\ gen' \in Promise!Standing
    BY StoreStep DEF File, Promise!Standing, OldSetInv, IInv, TypeOK
  <2>2. CASE harm = {} /\ harm' = {}
    <3>1. Harmed = FALSE /\ Harmed' = FALSE
      BY <2>2 DEF Harmed
    <3>2. Store' = Store \/ (gen \in Gens /\ Store' = gen)
      BY <2>2, StoreStep
    <3> QED BY <2>1, <3>1, <3>2 DEF Promise!Next, Promise!Stand, Promise!Publish
  <2>3. CASE harm' # {}
    <3>1. Harmed' = TRUE
      BY <2>3 DEF Harmed
    <3> QED BY <3>1, <2>1 DEF Promise!Next, Promise!Wreck
  <2>4. harm # {} => harm' # {}
    BY GoodStep DEF OldSetInv
  <2> QED BY <2>2, <2>3, <2>4
<1> QED BY <1>1, <1>2, OldSetHolds, PTL DEF Spec, KeepsGeneration, Promise!Spec
=============================================================================
