--------------------------- MODULE TrioCommitProofs ---------------------------
(***************************************************************************)
(* For any generations and any number of faults: the recovery explains     *)
(* every scene, and the transaction implements GenerationStore.            *)
(***************************************************************************)
EXTENDS TrioCommit, TLAPS

(***************************************************************************)
(* The inductive invariant.  Progress and Transaction hold whatever residue *)
(* is about; Undamaged is what the code relies on in a directory where no  *)
(* older backups have been left.                                           *)
(***************************************************************************)
Clear == bak = Nothing /\ (Whole(path) \/ path = Nothing)
Prefix == \A n \in Item : n > 1 /\ bak[n] # NoFile => bak[n - 1] # NoFile

Progress ==
  /\ journal = "committed" => Whole(path)
  /\ left => hurt
  /\ pc \in {"idle", "entry"} => i = 1
  /\ pc \in {"entry", "settle", "settle_temps", "settle_journal"} => Store = before
  /\ exit = "restored" => pc = "idle"
  /\ pc \in {"settle", "settle_journal", "clean", "clean_journal"} => journal = "committed"
  /\ pc = "settle_temps" => journal \in {"none", "committed"}
  /\ pc = "switch" => journal \in Undone
  /\ pc \in {"checks", "stage", "w_backing_up"} => journal \notin {"backing_up", "committing"}
  /\ pc \in {"validate", "undo", "undo_temps", "undo_journal"} => journal = "rolling_back"
  /\ pc = "settle" => i >= 1 /\ \A n \in Item : n < i => left \/ bak[n] = NoFile
  /\ pc = "clean" => i >= 1 /\ \A n \in Item : n < i => bak[n] = NoFile
  /\ pc \in {"settle_temps", "settle_journal"} => left \/ bak = Nothing
  /\ pc = "settle_journal" => ~left
  /\ pc = "clean_journal" => bak = Nothing

Transaction ==
  /\ pc \in {"stage", "w_backing_up", "backup", "w_committing", "commit", "w_committed",
             "rollback", "clean", "clean_journal"} => gen \in Gens
  /\ pc \in {"stage", "backup", "commit"} => i >= 1
  /\ pc = "stage" => \A n \in Item : n < i => temp[n] = gen
  /\ pc \in {"w_backing_up", "backup", "w_committing"} => \A n \in Item : temp[n] = gen
  /\ pc = "commit" => \A n \in Item : IF n < i THEN path[n] = gen ELSE temp[n] = gen
  /\ pc = "w_committed" => \A n \in Item : path[n] = gen
  /\ pc \in {"backup", "w_committing"} => journal = "backing_up"
  /\ pc \in {"commit", "w_committed"} => journal = "committing"
  /\ pc \in {"backup", "w_committing", "commit", "w_committed"} => jpre = pre

\* What each journal says of the backups ...
Scene ==
  /\ journal = "none" => Clear
  /\ journal = "backing_up" =>
       IF jpre THEN Prefix /\ Whole(OldTrio) /\ \A n \in Item : NoFile \in {bak[n], path[n]}
               ELSE bak = Nothing /\ path = Nothing
  /\ journal = "committing" => IF jpre THEN Whole(bak) ELSE bak = Nothing
  /\ journal = "rolling_back" => IF jpre THEN Prefix /\ Whole(OldTrio) ELSE bak = Nothing

\* ... and what the running process may take for granted.
Place ==
  /\ pc \in {"checks", "stage", "w_backing_up", "undo_temps", "undo_journal"} =>
       Clear /\ (journal = "rolling_back" => (jpre <=> Whole(path)))
  /\ pc = "undo" => \A n \in Item : n > i => (IF jpre THEN bak[n] ELSE path[n]) = NoFile
  /\ pc = "w_backing_up" => (pre <=> Whole(path))
  /\ pc = "backup" /\ pre => \A n \in Item : n < i <=> bak[n] # NoFile
  /\ pc = "w_committing" /\ pre => Present(bak) = Item
  /\ pc = "rollback" => IF pre THEN Prefix /\ Whole(OldTrio) /\ Store = OldTrio[1]
                               ELSE bak = Nothing /\ Store = NoFile
  /\ pc \notin {"idle", "clean", "clean_journal"} => Store = before
  /\ exit = "restored" => \A n \in Item : path[n] = before

Undamaged == ~hurt => Scene /\ Place

IInv == TypeOK /\ Progress /\ Transaction /\ Undamaged

(***************************************************************************)
(* Three items, spelled out.                                               *)
(***************************************************************************)
LEMMA Items == Item = {1, 2, 3}
BY DEF Item

LEMMA WholeIs ==
  ASSUME NEW f \in [Item -> File]
  PROVE  Whole(f) <=> f[1] \in Gens /\ f[2] = f[1] /\ f[3] = f[1]
BY Items DEF Whole, File

LEMMA NothingIs ==
  ASSUME NEW f \in [Item -> File]
  PROVE  f = Nothing <=> f[1] = NoFile /\ f[2] = NoFile /\ f[3] = NoFile
BY Items DEF Nothing, File

(***************************************************************************)
(* Types.                                                                  *)
(***************************************************************************)
LEMMA TypeNext == TypeOK /\ [Next]_vars => TypeOK'
<1> SUFFICES ASSUME TypeOK, [Next]_vars PROVE TypeOK'
  OBVIOUS
<1> USE Items, FaultAssumption DEF TypeOK, File, Nothing, Exits, Pcs, Journals, Undone, Goto, files,
        staging, jrnl, locals, NoFault
<1>s. \A n \in Item : path[n] \in File /\ bak[n] \in File /\ temp[n] \in File
  OBVIOUS
<1>st. Store \in File
  BY <1>s DEF Store, OldTrio
<1>p. (Present(path) = Item) \in BOOLEAN /\ \A t : (stray \/ Present(temp) # {} \/ t) \in BOOLEAN
  BY Zenon
<1>n. Nothing \in [Item -> File]
  OBVIOUS
<1>h. (Hit => faults' \in Nat) /\ \A op : Fault(op) => faults' \in Nat
  BY DEF Hit, Fault
<1>e. ASSUME NEW e \in Exits, End(e)
      PROVE  /\ pc' \in Pcs /\ exit' \in Exits /\ i' \in 0..4 /\ gen' \in File
             /\ pre' \in BOOLEAN /\ left' \in BOOLEAN /\ before' \in File
             /\ temp' \in [Item -> File] /\ stray' \in BOOLEAN
  <2>1. stray' \in BOOLEAN /\ temp' = Nothing
    BY <1>e, <1>p DEF End
  <2>2. pc' = "idle" /\ exit' = e /\ i' = 1 /\ gen' = NoFile /\ pre' \in BOOLEAN /\ left' \in BOOLEAN
        /\ before' = before
    BY <1>e DEF End
  <2> QED BY <1>n, <1>e, <2>1, <2>2
<1>1. CASE Start
  BY <1>1, <1>st DEF Start
<1>2. CASE Verify
  BY <1>2 DEF Verify
<1>3. CASE Refuse
  BY <1>3, <1>e, <1>h DEF Refuse
<1>4. CASE Recover
  BY <1>4 DEF Recover
<1>5. CASE Settle
  BY <1>5 DEF Settle
<1>6. CASE SettleTemps
  <2>1. pc' \in {"checks", "settle_journal"} /\ stray' \in BOOLEAN /\ UNCHANGED <<temp, i, hurt, faults>>
    BY <1>6 DEF SettleTemps
  <2>2. UNCHANGED <<path, bak, journal, jpre, gen, pre, left, exit, before>>
    BY <1>6 DEF SettleTemps
  <2> QED BY <2>1, <2>2
<1>7. CASE SettleJournal
  <2>1. journal' \in Journals /\ jpre' \in BOOLEAN /\ hurt' \in BOOLEAN
    BY <1>7 DEF SettleJournal
  <2>2. faults' \in Nat /\ pc' = "checks"
    BY <1>7, <1>h DEF SettleJournal
  <2>3. UNCHANGED <<path, bak, temp, stray, i, gen, pre, left, exit, before>>
    BY <1>7 DEF SettleJournal
  <2> QED BY <2>1, <2>2, <2>3
<1>8. CASE Switch
  BY <1>8 DEF Switch
<1>9. CASE Validate
  BY <1>9 DEF Validate
<1>10. CASE Undo
  BY <1>10 DEF Undo, UndoOne
<1>11. CASE UndoTemps
  <2>1. temp' \in [Item -> File] /\ stray' \in BOOLEAN /\ pc' = "undo_journal"
    BY <1>11, <1>n DEF UndoTemps
  <2>2. UNCHANGED <<path, bak, journal, jpre, i, gen, pre, left, exit, before, hurt, faults>>
    BY <1>11 DEF UndoTemps
  <2> QED BY <2>1, <2>2
<1>12. CASE UndoJournal
  BY <1>12, <1>e, <1>h DEF UndoJournal, AfterUndo
<1>13. CASE Checks
  BY <1>13, <1>e, <1>h DEF Checks
<1>14. CASE Stage
  BY <1>14, <1>p DEF Stage
<1>15. CASE WriteJournal
  BY <1>15 DEF WriteJournal
<1>16. CASE Backup
  BY <1>16 DEF Backup
<1>17. CASE Commit
  BY <1>17 DEF Commit
<1>18. CASE Clean
  BY <1>18 DEF Clean
<1>19. CASE CleanJournal
  BY <1>19, <1>e, <1>h DEF CleanJournal
<1>20. CASE SettleFails
  <2>0. left' \in BOOLEAN /\ hurt' \in BOOLEAN
    BY <1>20 DEF SettleFails
  <2>1. i' \in 0..4 /\ pc' \in Pcs
    BY <1>20 DEF SettleFails
  <2>2. faults' \in Nat
    BY <1>20, <1>h DEF SettleFails
  <2>3. UNCHANGED <<path, bak, temp, stray, journal, jpre, gen, pre, exit, before>>
    BY <1>20 DEF SettleFails
  <2> QED BY <2>0, <2>1, <2>2, <2>3
<1>21. CASE UndoFails
  BY <1>21, <1>e, <1>h DEF UndoFails
<1>22. CASE UndoJournalFails
  BY <1>22, <1>e, <1>h DEF UndoJournalFails, AfterUndo
<1>23. CASE StageFails
  <2>1. pc' = "idle" /\ exit' = "failed" /\ i' = 1 /\ gen' = NoFile /\ pre' \in BOOLEAN /\ left' \in BOOLEAN
    BY <1>23 DEF StageFails
  <2>2. faults' \in Nat /\ temp' \in [Item -> File] /\ stray' \in BOOLEAN
    BY <1>23, <1>h, <1>n DEF StageFails
  <2>3. UNCHANGED <<path, bak, journal, jpre, before, hurt>>
    BY <1>23 DEF StageFails
  <2> QED BY <2>1, <2>2, <2>3
<1>24. CASE CommitFails
  <2>1. faults' \in Nat /\ stray' \in BOOLEAN /\ pc' = "rollback"
    BY <1>24, <1>h DEF CommitFails
  <2>2. UNCHANGED <<path, bak, temp, journal, jpre, i, gen, pre, left, exit, before, hurt>>
    BY <1>24 DEF CommitFails
  <2> QED BY <2>1, <2>2
<1>25. CASE CleanFails
  BY <1>25, <1>e, <1>h DEF CleanFails
<1>26. CASE Crash
  BY <1>26, <1>e, <1>h DEF Crash
<1>27. CASE UNCHANGED vars
  BY <1>27 DEF vars
<1> QED
  BY <1>1, <1>2, <1>3, <1>4, <1>5, <1>6, <1>7, <1>8, <1>9, <1>10, <1>11, <1>12, <1>13, <1>14, <1>15, <1>16, <1>17, <1>18, <1>19, <1>20, <1>21, <1>22, <1>23, <1>24, <1>25, <1>26, <1>27
  DEF Next, Run, Failures

(***************************************************************************)
(* What holds whatever residue is about.                                   *)
(***************************************************************************)
LEMMA ProgressNext ==
  TypeOK /\ Progress /\ Transaction /\ [Next]_vars => Progress' /\ Transaction'
<1> SUFFICES ASSUME TypeOK, Progress, Transaction, [Next]_vars
             PROVE  Progress' /\ Transaction'
  OBVIOUS
<1>t. TypeOK'
  BY TypeNext
<1>w. /\ Whole(path) <=> path[1] \in Gens /\ path[2] = path[1] /\ path[3] = path[1]
      /\ Whole(path)' <=> path'[1] \in Gens /\ path'[2] = path'[1] /\ path'[3] = path'[1]
  BY <1>t, Items DEF Whole, TypeOK, File
<1>b. /\ bak = Nothing <=> bak[1] = NoFile /\ bak[2] = NoFile /\ bak[3] = NoFile
      /\ (bak = Nothing)' <=> bak'[1] = NoFile /\ bak'[2] = NoFile /\ bak'[3] = NoFile
  BY <1>t, Items DEF Nothing, TypeOK, File
<1> USE <1>w, <1>b, Items, GensAssumption DEF TypeOK, Progress, Transaction, File, Undone, Goto,
        files, staging, jrnl, locals, Store
<1>1. CASE Start
  BY <1>1 DEF Start, OldTrio
<1>2. CASE Verify
  BY <1>2 DEF Verify
<1>3. CASE Refuse
  BY <1>3 DEF Refuse, End
<1>4. CASE Recover
  <2>1. /\ journal = "none" => pc' = "settle_temps" /\ bak = Nothing
        /\ journal = "committed" => pc' = "settle"
        /\ journal \notin {"none", "committed"} => pc' = "switch"
    <3>1. CASE journal = "none"
      <4>1. Present(bak) = {} /\ pc' = "settle_temps"
        BY <1>4, <3>1 DEF Recover, Explained
      <4> QED BY <4>1, <3>1 DEF Present
    <3>2. CASE journal = "committed"
      BY <1>4, <3>2 DEF Recover
    <3>3. CASE journal \notin {"none", "committed"}
      BY <1>4, <3>3 DEF Recover
    <3> QED BY <3>1, <3>2, <3>3
  <2>2. pc = "entry" /\ UNCHANGED <<path, bak, temp, stray, journal, jpre, i, gen, pre, left, exit, before, hurt>>
    BY <1>4 DEF Recover
  <2> QED BY <2>1, <2>2, <1>4 DEF Journals
<1>5. CASE Settle
  BY <1>5 DEF Settle
<1>6. CASE SettleTemps
  BY <1>6 DEF SettleTemps
<1>7. CASE SettleJournal
  BY <1>7 DEF SettleJournal
<1>8. CASE Switch
  BY <1>8 DEF Switch
<1>9. CASE Validate
  BY <1>9 DEF Validate
<1>10. CASE Undo
  BY <1>10 DEF Undo, UndoOne
<1>11. CASE UndoTemps
  BY <1>11 DEF UndoTemps
<1>12. CASE UndoJournal
  BY <1>12 DEF UndoJournal, AfterUndo, End
<1>13. CASE Checks
  BY <1>13 DEF Checks, End
<1>14. CASE Stage
  BY <1>14 DEF Stage
<1>15. CASE WriteJournal
  BY <1>15 DEF WriteJournal
<1>16. CASE Backup
  BY <1>16 DEF Backup
<1>17. CASE Commit
  BY <1>17 DEF Commit
<1>18. CASE Clean
  BY <1>18 DEF Clean
<1>19. CASE CleanJournal
  BY <1>19 DEF CleanJournal, End
<1>20. CASE SettleFails
  BY <1>20 DEF SettleFails
<1>21. CASE UndoFails
  BY <1>21 DEF UndoFails, End
<1>22. CASE UndoJournalFails
  BY <1>22 DEF UndoJournalFails, AfterUndo, End
<1>23. CASE StageFails
  BY <1>23 DEF StageFails
<1>24. CASE CommitFails
  BY <1>24 DEF CommitFails
<1>25. CASE CleanFails
  BY <1>25 DEF CleanFails, End
<1>26. CASE Crash
  BY <1>26 DEF Crash, End
<1>27. CASE UNCHANGED vars
  BY <1>27 DEF vars, OldTrio
<1> QED
  BY <1>1, <1>2, <1>3, <1>4, <1>5, <1>6, <1>7, <1>8, <1>9, <1>10, <1>11, <1>12, <1>13, <1>14, <1>15, <1>16, <1>17, <1>18, <1>19, <1>20, <1>21, <1>22, <1>23, <1>24, <1>25, <1>26, <1>27
  DEF Next, Run, Failures

(***************************************************************************)
(* The formulas about the three artifacts, item by item.                   *)
(***************************************************************************)
Olds(n) == IF bak[n] # NoFile THEN bak[n] ELSE path[n]

ItemByItem ==
  /\ Whole(path) <=> path[1] \in Gens /\ path[2] = path[1] /\ path[3] = path[1]
  /\ Whole(bak) <=> bak[1] \in Gens /\ bak[2] = bak[1] /\ bak[3] = bak[1]
  /\ Whole(OldTrio) <=> Olds(1) \in Gens /\ Olds(2) = Olds(1) /\ Olds(3) = Olds(1)
  /\ bak = Nothing <=> bak[1] = NoFile /\ bak[2] = NoFile /\ bak[3] = NoFile
  /\ path = Nothing <=> path[1] = NoFile /\ path[2] = NoFile /\ path[3] = NoFile
  /\ Prefix <=> (bak[2] # NoFile => bak[1] # NoFile) /\ (bak[3] # NoFile => bak[2] # NoFile)
  /\ OldTrio[1] = Olds(1)
  /\ Present(bak) = Item <=> bak[1] # NoFile /\ bak[2] # NoFile /\ bak[3] # NoFile
  /\ Present(path) = Item <=> path[1] # NoFile /\ path[2] # NoFile /\ path[3] # NoFile
  /\ Present(path) = {} <=> path[1] = NoFile /\ path[2] = NoFile /\ path[3] = NoFile

LEMMA Spelled == TypeOK => ItemByItem
<1> SUFFICES ASSUME TypeOK PROVE ItemByItem
  OBVIOUS
<1> USE Items DEF TypeOK, File
<1>1. OldTrio \in [Item -> File] /\ \A n \in Item : OldTrio[n] = Olds(n)
  BY DEF OldTrio, Olds
<1>2. Whole(OldTrio) <=> OldTrio[1] \in Gens /\ OldTrio[2] = OldTrio[1] /\ OldTrio[3] = OldTrio[1]
  BY <1>1, WholeIs
<1>3. /\ Whole(path) <=> path[1] \in Gens /\ path[2] = path[1] /\ path[3] = path[1]
      /\ Whole(bak) <=> bak[1] \in Gens /\ bak[2] = bak[1] /\ bak[3] = bak[1]
  BY WholeIs
<1>4. /\ bak = Nothing <=> bak[1] = NoFile /\ bak[2] = NoFile /\ bak[3] = NoFile
      /\ path = Nothing <=> path[1] = NoFile /\ path[2] = NoFile /\ path[3] = NoFile
  BY NothingIs
<1>5. /\ Present(bak) = Item <=> bak[1] # NoFile /\ bak[2] # NoFile /\ bak[3] # NoFile
      /\ Present(path) = Item <=> path[1] # NoFile /\ path[2] # NoFile /\ path[3] # NoFile
      /\ Present(path) = {} <=> path[1] = NoFile /\ path[2] = NoFile /\ path[3] = NoFile
  BY DEF Present
<1>6. Prefix <=> (bak[2] # NoFile => bak[1] # NoFile) /\ (bak[3] # NoFile => bak[2] # NoFile)
  BY DEF Prefix
<1> QED BY <1>1, <1>2, <1>3, <1>4, <1>5, <1>6 DEF ItemByItem

LEMMA SpelledNext == TypeOK' => ItemByItem'
BY Spelled, PTL

(***************************************************************************)
(* What holds as long as no older backups are about.                       *)
(***************************************************************************)
LEMMA UndamagedNext == IInv /\ [Next]_vars => Undamaged'
<1> SUFFICES ASSUME IInv, [Next]_vars, ~hurt'
             PROVE  Scene' /\ Place'
  BY DEF Undamaged
<1>t. TypeOK /\ Progress /\ Transaction /\ Undamaged
  BY DEF IInv
<1>n. TypeOK' /\ Progress' /\ Transaction'
  BY <1>t, TypeNext, ProgressNext
<1>g. ItemByItem /\ ItemByItem'
  BY <1>t, <1>n, Spelled, SpelledNext
<1> USE <1>t, <1>n, <1>g, Items, GensAssumption DEF TypeOK, Progress, Transaction, Undamaged, ItemByItem,
        Olds, Scene, Place, Clear, File, Undone, Store, Goto, files, staging, jrnl, locals
<1>1. CASE Start
  BY <1>1 DEF Start
<1>2. CASE Verify
  BY <1>2 DEF Verify
<1>3. CASE Refuse
  BY <1>3 DEF Refuse, End, Explained, ValidBaks
<1>4. CASE Recover
  BY <1>4 DEF Recover, Explained, ValidBaks
<1>5. CASE Settle
  BY <1>5 DEF Settle
<1>6. CASE SettleTemps
  BY <1>6 DEF SettleTemps
<1>7. CASE SettleJournal
  BY <1>7 DEF SettleJournal
<1>8. CASE Switch
  BY <1>8 DEF Switch
<1>9. CASE Validate
  BY <1>9 DEF Validate
<1>10. CASE Undo
  BY <1>10 DEF Undo, UndoOne
<1>11. CASE UndoTemps
  BY <1>11 DEF UndoTemps
<1>12. CASE UndoJournal
  BY <1>12 DEF UndoJournal, AfterUndo, End
<1>13. CASE Checks
  BY <1>13 DEF Checks, End
<1>14. CASE Stage
  BY <1>14 DEF Stage
<1>15. CASE WriteJournal
  BY <1>15 DEF WriteJournal
<1>16. CASE Backup
  BY <1>16 DEF Backup
<1>17. CASE Commit
  BY <1>17 DEF Commit
<1>18. CASE Clean
  BY <1>18 DEF Clean
<1>19. CASE CleanJournal
  BY <1>19 DEF CleanJournal, End
<1>20. CASE SettleFails
  BY <1>20 DEF SettleFails
<1>21. CASE UndoFails
  BY <1>21 DEF UndoFails, End
<1>22. CASE UndoJournalFails
  BY <1>22 DEF UndoJournalFails, AfterUndo, End
<1>23. CASE StageFails
  BY <1>23 DEF StageFails
<1>24. CASE CommitFails
  BY <1>24 DEF CommitFails
<1>25. CASE CleanFails
  BY <1>25 DEF CleanFails, End
<1>26. CASE Crash
  BY <1>26 DEF Crash, End
<1>27. CASE UNCHANGED vars
  BY <1>27 DEF vars
<1> QED
  BY <1>1, <1>2, <1>3, <1>4, <1>5, <1>6, <1>7, <1>8, <1>9, <1>10, <1>11, <1>12, <1>13, <1>14, <1>15, <1>16, <1>17, <1>18, <1>19, <1>20, <1>21, <1>22, <1>23, <1>24, <1>25, <1>26, <1>27
  DEF Next, Run, Failures

LEMMA InvInit == Init => IInv
<1> SUFFICES ASSUME Init PROVE IInv
  OBVIOUS
<1>t. TypeOK
  <2>1. path \in [Item -> File] /\ before \in File
    BY DEF Init
  <2>2. bak \in [Item -> File] /\ temp \in [Item -> File]
    BY DEF Init, Nothing, File
  <2>3. /\ stray = FALSE /\ journal = "none" /\ jpre = FALSE /\ pc = "idle" /\ i = 1 /\ gen = NoFile
        /\ pre = FALSE /\ left = FALSE /\ exit = "none" /\ hurt = FALSE /\ faults = 0
    BY DEF Init
  <2>4. gen \in File
    BY <2>3 DEF File
  <2>5. journal \in Journals /\ pc \in Pcs /\ exit \in Exits /\ i \in 0..4 /\ faults \in Nat
    BY <2>3 DEF Journals, Undone, Pcs, Exits
  <2> QED BY <2>1, <2>2, <2>3, <2>4, <2>5 DEF TypeOK
<1>g. ItemByItem
  BY <1>t, Spelled
<1>1. path[1] = before /\ path[2] = before /\ path[3] = before /\ before \in File
  BY Items DEF Init, File
<1>2. Progress /\ Transaction
  BY <1>1, Items DEF Init, Progress, Transaction, Store, Undone
<1>3. Scene /\ Place
  BY <1>t, <1>g, <1>1, Items DEF Init, Scene, Place, Clear, Store, File, Undone, ItemByItem
<1> QED BY <1>t, <1>2, <1>3 DEF IInv, Undamaged

LEMMA InvNext == IInv /\ [Next]_vars => IInv'
BY TypeNext, ProgressNext, UndamagedNext DEF IInv

LEMMA Inductive == Spec => []IInv
BY InvInit, InvNext, PTL DEF Spec

(***************************************************************************)
(* The theorems.                                                           *)
(***************************************************************************)
\* Every variable keeps its type, in every run of gen and verify.
THEOREM TypeCorrect == Spec => []TypeOK
<1>1. IInv => TypeOK
  BY DEF IInv
<1> QED BY <1>1, Inductive, PTL

\* Without an unfinished transaction in the journal the three artifacts are one
\* generation or there are none, unless backups were left (recover_txn_residue
\* and write_artifacts trust this state).
THEOREM SettledTrioIsWhole == Spec => []SettledIsWhole
<1>1. IInv => SettledIsWhole
  BY Spelled DEF IInv, SettledIsWhole, Undamaged, Scene, Progress, Clear, ItemByItem
<1> QED BY <1>1, Inductive, PTL

\* The recovery accepts every scene that crashes and failures leave: no run is
\* refused for "unexplained" residue.
THEOREM ResidueIsExplained == Spec => []RecoveryExplains
<1>1. IInv => RecoveryExplains
  <2> SUFFICES ASSUME IInv, ~hurt PROVE (pc = "entry" => Explained) /\ (pc = "validate" => (jpre => Whole(OldTrio)))
    BY DEF RecoveryExplains
  <2>g. ItemByItem /\ TypeOK /\ Scene /\ Progress
    BY Spelled DEF IInv, Undamaged
  <2>1. Present(bak) = {} <=> bak[1] = NoFile /\ bak[2] = NoFile /\ bak[3] = NoFile
    BY Items DEF Present
  <2>2. ASSUME journal \in Undone PROVE Explained
    <3>1. ValidBaks(journal)
      BY <2>g, <2>1, <2>2, Items, GensAssumption DEF ValidBaks, Scene, ItemByItem, Undone, Prefix
    <3>2. journal # "none" /\ journal # "committed"
      BY <2>2 DEF Undone
    <3> QED BY <2>g, <3>1, <3>2 DEF Explained, Scene, Undone
  <2>3. ASSUME journal = "none" PROVE Explained
    BY <2>g, <2>1, <2>3 DEF Explained, Scene, Clear, ItemByItem
  <2>4. ASSUME journal = "committed" PROVE Explained
    BY <2>g, <2>4 DEF Explained, Progress
  <2>5. Explained
    BY <2>g, <2>2, <2>3, <2>4 DEF TypeOK, Journals
  <2>6. pc = "validate" /\ jpre => Whole(OldTrio)
    BY <2>g DEF Scene, Progress
  <2> QED BY <2>5, <2>6
<1> QED BY <1>1, Inductive, PTL

\* A run that reports "previous generation restored" has restored what the
\* directory stood for when it began, unless backups were left before.
THEOREM RestoredIsWhatWas == Spec => []RestoredWithoutResidue
<1>1. IInv => RestoredWithoutResidue
  BY DEF IInv, RestoredWithoutResidue, RestoredIsPrevious, Undamaged, Place
<1> QED BY <1>1, Inductive, PTL

(***************************************************************************)
(* The transaction implements the generation store.                        *)
(***************************************************************************)
LEMMA StoreTyped == TypeOK => Store \in File
<1> SUFFICES ASSUME TypeOK PROVE Store \in File
  OBVIOUS
<1>1. \A n \in Item : path[n] \in File /\ bak[n] \in File
  BY DEF TypeOK
<1>2. path[1] \in File /\ OldTrio[1] \in File /\ NoFile \in File
  BY <1>1, Items DEF OldTrio, File
<1> QED BY <1>2 DEF Store

LEMMA StoreTypedNext == TypeOK' => (Store \in File)'
BY StoreTyped, PTL

\* The steps that change what the directory stands for.
LEMMA StoreStep ==
  IInv /\ [Next]_vars =>
    \/ Store' = Store /\ hurt' \in BOOLEAN
    \/ gen \in Gens /\ Store' = gen /\ hurt' = hurt
    \/ hurt /\ hurt'
<1> SUFFICES ASSUME IInv, [Next]_vars, ~(hurt /\ hurt')
             PROVE  \/ Store' = Store /\ hurt' \in BOOLEAN
                    \/ gen \in Gens /\ Store' = gen /\ hurt' = hurt
  OBVIOUS
<1>t. TypeOK /\ Progress /\ Transaction /\ Undamaged
  BY DEF IInv
<1>n. TypeOK' /\ Progress' /\ Transaction' /\ Undamaged'
  BY <1>t, TypeNext, ProgressNext, UndamagedNext
<1>g. ItemByItem /\ ItemByItem'
  BY <1>t, <1>n, Spelled, SpelledNext
<1> USE <1>t, <1>n, <1>g, Items, GensAssumption DEF TypeOK, Progress, Transaction, Undamaged, ItemByItem,
        Olds, Scene, Place, Clear, File, Undone, Store, Goto, files, staging, jrnl, locals
<1>1. CASE Start
  BY <1>1 DEF Start
<1>2. CASE Verify
  BY <1>2 DEF Verify
<1>3. CASE Refuse
  BY <1>3 DEF Refuse, End
<1>4. CASE Recover
  BY <1>4 DEF Recover
<1>5. CASE Settle
  BY <1>5 DEF Settle
<1>6. CASE SettleTemps
  BY <1>6 DEF SettleTemps
<1>7. CASE SettleJournal
  BY <1>7 DEF SettleJournal
<1>8. CASE Switch
  BY <1>8 DEF Switch
<1>9. CASE Validate
  BY <1>9 DEF Validate
<1>10. CASE Undo
  BY <1>10 DEF Undo, UndoOne
<1>11. CASE UndoTemps
  BY <1>11 DEF UndoTemps
<1>12. CASE UndoJournal
  BY <1>12 DEF UndoJournal, AfterUndo, End
<1>13. CASE Checks
  BY <1>13 DEF Checks, End
<1>14. CASE Stage
  BY <1>14 DEF Stage
<1>15. CASE WriteJournal
  BY <1>15 DEF WriteJournal
<1>16. CASE Backup
  BY <1>16 DEF Backup
<1>17. CASE Commit
  BY <1>17 DEF Commit
<1>18. CASE Clean
  BY <1>18 DEF Clean
<1>19. CASE CleanJournal
  BY <1>19 DEF CleanJournal, End
<1>20. CASE SettleFails
  BY <1>20 DEF SettleFails
<1>21. CASE UndoFails
  BY <1>21 DEF UndoFails, End
<1>22. CASE UndoJournalFails
  BY <1>22 DEF UndoJournalFails, AfterUndo, End
<1>23. CASE StageFails
  BY <1>23 DEF StageFails
<1>24. CASE CommitFails
  BY <1>24 DEF CommitFails
<1>25. CASE CleanFails
  BY <1>25 DEF CleanFails, End
<1>26. CASE Crash
  BY <1>26 DEF Crash, End
<1>27. CASE UNCHANGED vars
  BY <1>27 DEF vars
<1> QED
  BY <1>1, <1>2, <1>3, <1>4, <1>5, <1>6, <1>7, <1>8, <1>9, <1>10, <1>11, <1>12, <1>13, <1>14, <1>15, <1>16, <1>17, <1>18, <1>19, <1>20, <1>21, <1>22, <1>23, <1>24, <1>25, <1>26, <1>27
  DEF Next, Run, Failures

\* Only a finished commit changes which generation the directory stands for, to
\* the one it has staged; crashes, failures, rollbacks and recoveries are invisible.
THEOREM ImplementsGenerationStore == Spec => KeepsGeneration
<1>1. Init => Promise!Init
  <2>1. ASSUME Init
        PROVE  /\ Store \in Gens \cup {NoFile} /\ gen \in Gens \cup {NoFile}
               /\ hurt = FALSE
    BY <2>1, InvInit, StoreTyped DEF Init, IInv, File
  <2> QED BY <2>1 DEF Promise!Init, Promise!Standing
<1>2. IInv /\ [Next]_vars => [Promise!Next]_<<Store, gen, hurt>>
  <2> SUFFICES ASSUME IInv, [Next]_vars PROVE [Promise!Next]_<<Store, gen, hurt>>
    OBVIOUS
  <2>1. /\ Store' \in Gens \cup {NoFile} /\ gen' \in Gens \cup {NoFile}
        /\ hurt \in BOOLEAN /\ hurt' \in BOOLEAN
    <3>1. TypeOK /\ TypeOK'
      BY InvNext DEF IInv
    <3> QED BY <3>1, StoreTypedNext DEF File, TypeOK
  <2> QED BY <2>1, StoreStep DEF Promise!Next, Promise!Standing, Promise!Stand, Promise!Publish,
            Promise!Hurt, Promise!Heal, Promise!Lose
<1> QED BY <1>1, <1>2, Inductive, PTL DEF Spec, KeepsGeneration, Promise!Spec
=============================================================================
