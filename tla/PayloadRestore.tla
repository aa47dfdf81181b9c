--------------------------- MODULE PayloadRestore ---------------------------
(***************************************************************************)
(* restore-fantgpu-payload of tools/internal/r16-f-payload-integrity.py:   *)
(* the vendor tree is rebuilt from the archived package next to the        *)
(* current one and swapped in under a write-ahead journal; an interrupted  *)
(* run is resolved from a truth table over the journal and over which of   *)
(* the three trees (current, transaction, old) exist.                      *)
(*                                                                         *)
(* A tree is abstracted to what restore_content_check tells apart: absent, *)
(* valid (matches the manifest), drifted (a complete tree that does not),  *)
(* partial (half extracted or half removed).  The run holds the restore    *)
(* lock (LockFile), so one run at a time is modelled, and there is at most *)
(* one transaction directory: the scan removes a stray one before a new    *)
(* one is made.                                                            *)
(***************************************************************************)
EXTENDS Naturals

CONSTANTS InitTrees,  \* what the vendor directory may be at first
          MayDrift,   \* TRUE: a valid tree can be damaged between two runs
          MayCrash,   \* TRUE: the process may die between two steps
          FailOps,    \* the operations whose system call may fail
          MaxFaults   \* bound: failures and crashes in a behaviour

ASSUME InitAssumption == InitTrees \subseteq {"none", "valid", "drifted"}
ASSUME FaultAssumption ==
  MaxFaults \in Nat /\ MayCrash \in BOOLEAN /\ MayDrift \in BOOLEAN

VARIABLES cur, txn, old,  \* the three trees
          jstate, jpre,   \* the journal: its state ("none": no file) and pre_existing
          pre,            \* local: the vendor directory existed
          inrun,          \* local: the scan runs in the failure handler
          pc,
          exit,           \* how the last run ended; "none" while one is running
          hadTree,        \* history: there has been a vendor tree
          faults          \* history: failures and crashes so far

vars == <<cur, txn, old, jstate, jpre, pre, inrun, pc, exit, hadTree, faults>>
trees == <<cur, txn, old>>
journal == <<jstate, jpre>>

Trees == {"none", "valid", "drifted", "partial"}
States == {"staged", "moving_old", "moved_old", "moving_new", "committed"}
Complete(t) == t \in {"valid", "drifted"}
Pcs == {"idle", "scan", "s_rename", "s_txn", "s_old", "s_journal", "extract",
        "w_staged", "w_moving_old", "mv_old", "w_moved_old", "w_moving_new",
        "mv_new", "w_committed", "c_old", "c_journal"}
Exits == {"none", "pass", "refused", "failed", "recovered", "crashed"}

TypeOK ==
  /\ cur \in {"none", "valid", "drifted"}
  /\ txn \in {"none", "valid", "partial"}
  /\ old \in Trees
  /\ jstate \in States \cup {"none"} /\ jpre \in BOOLEAN
  /\ pre \in BOOLEAN /\ inrun \in BOOLEAN
  /\ pc \in Pcs /\ exit \in Exits
  /\ hadTree \in BOOLEAN
  /\ faults \in Nat

Fault(op) == op \in FailOps /\ faults < MaxFaults /\ faults' = faults + 1
NoFault == faults' = faults

Goto(p) == pc' = p /\ UNCHANGED <<pre, inrun, exit>> /\ UNCHANGED hadTree
End(e) ==
  /\ pc' = "idle" /\ exit' = e /\ pre' = FALSE /\ inrun' = FALSE
  /\ UNCHANGED hadTree

\* The scan gives up.  In the failure handler its exit is swallowed and the
\* run reports that the state machine has recovered.
GiveUp == End(IF inrun THEN "recovered" ELSE "refused")

Init ==
  /\ cur \in InitTrees /\ hadTree = (cur # "none")
  /\ txn = "none" /\ old = "none"
  /\ jstate = "none" /\ jpre = FALSE
  /\ pre = FALSE /\ inrun = FALSE /\ pc = "idle" /\ exit = "none"
  /\ faults = 0

\* The lock is held and the manifest is loaded: the startup scan begins.
Start ==
  /\ pc = "idle"
  /\ pc' = "scan" /\ exit' = "none"
  /\ UNCHANGED <<pre, inrun, hadTree>> /\ UNCHANGED trees /\ UNCHANGED journal /\ NoFault

\* Between two runs somebody damages the tree, or the manifest changes.
Drift ==
  /\ MayDrift /\ pc = "idle" /\ cur = "valid"
  /\ cur' = "drifted" /\ exit' = "none"
  /\ UNCHANGED <<txn, old, pc, pre, inrun>> /\ UNCHANGED journal /\ UNCHANGED hadTree /\ NoFault

(***************************************************************************)
(* The truth table, one predicate per treatment.                           *)
(***************************************************************************)
C == cur # "none"
T == txn # "none"
O == old # "none"

\* Nothing of the current tree has moved: remove the transaction.
DropTxn ==
  \/ jstate = "staged" /\ ~O /\ (C <=> jpre)
  \/ jstate = "moving_old" /\ jpre /\ C /\ ~O
  \/ jstate = "moving_new" /\ ~jpre /\ ~C /\ ~O

\* The old tree has moved away and the new one has not arrived: put it back.
PutBack == jstate \in {"moving_old", "moved_old", "moving_new"} /\ jpre /\ ~C /\ T /\ O

\* The current tree is the one to keep.
KeepCurrent ==
  \/ jstate \in {"moved_old", "moving_new"} /\ jpre /\ C /\ ~O
  \/ jstate = "moving_new" /\ ~jpre /\ C /\ ~T /\ ~O
  \/ jstate = "committed" /\ C /\ ~T /\ ~O

\* The new tree has arrived: remove the old one.
KeepNew == jstate \in {"moving_new", "committed"} /\ jpre /\ C /\ ~T /\ O

InTable == DropTxn \/ PutBack \/ KeepCurrent \/ KeepNew

(***************************************************************************)
(* The scan.                                                               *)
(***************************************************************************)
\* Mutant: a current tree that does not match the manifest is never replaced.
ScanNoJournalOfMatch ==
  /\ pc = "scan" /\ jstate = "none" /\ ~O
  /\ IF cur = "drifted" THEN GiveUp ELSE Goto("s_txn")
  /\ UNCHANGED trees /\ UNCHANGED journal /\ NoFault

\* Without a journal a transaction directory is garbage.
ScanNoJournal ==
  /\ pc = "scan" /\ jstate = "none" /\ ~O
  /\ Goto("s_txn")
  /\ UNCHANGED trees /\ UNCHANGED journal /\ NoFault

\* Mutant: the old tree is removed where it should be put back.
ScanJournalForgetsRename ==
  /\ pc = "scan" /\ jstate # "none"
  /\ \/ DropTxn /\ Goto("s_txn")
     \/ PutBack /\ old = "valid" /\ Goto("s_old")
     \/ KeepCurrent /\ cur = "valid" /\ Goto("s_txn")
     \/ KeepNew /\ cur = "valid" /\ Goto("s_old")
  /\ UNCHANGED trees /\ UNCHANGED journal /\ NoFault

ScanJournal ==
  /\ pc = "scan" /\ jstate # "none"
  /\ \/ DropTxn /\ Goto("s_txn")
     \/ PutBack /\ old = "valid" /\ Goto("s_rename")
     \/ KeepCurrent /\ cur = "valid" /\ Goto("s_txn")
     \/ KeepNew /\ cur = "valid" /\ Goto("s_old")
  /\ UNCHANGED trees /\ UNCHANGED journal /\ NoFault

\* The scene is kept: an old tree nobody answers for, a combination outside
\* the table, or a tree to rely on that does not match the manifest.
ScanRefuses ==
  /\ pc = "scan"
  /\ \/ jstate = "none" /\ O
     \/ jstate # "none" /\ ~InTable
     \/ PutBack /\ old # "valid"
     \/ (KeepCurrent \/ KeepNew) /\ cur # "valid"
  /\ GiveUp
  /\ UNCHANGED trees /\ UNCHANGED journal /\ NoFault

ScanRename ==
  /\ pc = "s_rename"
  /\ cur' = old /\ old' = "none"
  /\ Goto("s_txn")
  /\ UNCHANGED txn /\ UNCHANGED journal /\ NoFault

ScanDelete ==
  /\ \/ pc = "s_txn" /\ txn' = "none" /\ UNCHANGED <<cur, old>>
     \/ pc = "s_old" /\ old' = "none" /\ UNCHANGED <<cur, txn>>
  /\ Goto("s_journal")
  /\ UNCHANGED journal /\ NoFault

\* The journal goes last; a startup scan is followed by the restore itself.
ScanUnlink ==
  /\ pc = "s_journal"
  /\ jstate' = "none" /\ jpre' = FALSE
  /\ IF inrun THEN End("recovered") ELSE Goto("extract")
  /\ UNCHANGED trees /\ NoFault

\* A directory being removed by rmtree may lose a part of its files.
Eaten(t) == IF t = "none" THEN {"none"} ELSE {t, "partial"}

ScanFails ==
  /\ \/ pc = "s_rename" /\ Fault("rename") /\ UNCHANGED trees
     \/ pc = "s_txn" /\ T /\ Fault("delete") /\ txn' \in Eaten(txn) /\ UNCHANGED <<cur, old>>
     \/ pc = "s_old" /\ O /\ Fault("delete") /\ old' \in Eaten(old) /\ UNCHANGED <<cur, txn>>
     \/ pc = "s_journal" /\ jstate # "none" /\ Fault("unlink") /\ UNCHANGED trees
  /\ GiveUp
  /\ UNCHANGED journal

(***************************************************************************)
(* The restore.                                                            *)
(***************************************************************************)

\* dpkg-deb -R, DEBIAN/ removed, content checked.
Extract ==
  /\ pc = "extract"
  /\ txn' = "valid"
  /\ pre' = C /\ pc' = "w_staged"
  /\ UNCHANGED <<cur, old, inrun, exit>> /\ UNCHANGED journal /\ UNCHANGED hadTree /\ NoFault

\* The transaction directory is removed as well as it goes.
ExtractFails ==
  /\ pc = "extract" /\ Fault("extract")
  /\ txn' \in {"none", "partial"}
  /\ End("failed")
  /\ UNCHANGED <<cur, old>> /\ UNCHANGED journal

Journal(s) == jstate' = s /\ jpre' = pre

\* The journal is written ahead of each move and after it.
WriteJournal ==
  /\ \/ pc = "w_staged" /\ Journal("staged")
          /\ Goto(IF pre THEN "w_moving_old" ELSE "w_moving_new")
     \/ pc = "w_moving_old" /\ Journal("moving_old") /\ Goto("mv_old")
     \/ pc = "w_moved_old" /\ Journal("moved_old") /\ Goto("w_moving_new")
     \/ pc = "w_moving_new" /\ Journal("moving_new") /\ Goto("mv_new")
     \/ pc = "w_committed" /\ Journal("committed") /\ Goto("c_old")
  /\ UNCHANGED trees /\ NoFault

\* Mutant: the new tree moves in before the journal announces it.
MoveNewUnannounced ==
  /\ \/ pc = "mv_old" /\ cur' = "none" /\ old' = cur /\ txn' = txn
          /\ hadTree' = hadTree /\ pc' = "w_moved_old"
     \/ pc = "w_moving_new" /\ cur' = txn /\ txn' = "none" /\ old' = old
          /\ hadTree' = TRUE /\ pc' = "w_committed"
  /\ UNCHANGED <<pre, inrun, exit>> /\ UNCHANGED journal /\ NoFault

Move ==
  /\ \/ pc = "mv_old" /\ cur' = "none" /\ old' = cur /\ txn' = txn
          /\ hadTree' = hadTree /\ pc' = "w_moved_old"
     \/ pc = "mv_new" /\ cur' = txn /\ txn' = "none" /\ old' = old
          /\ hadTree' = TRUE /\ pc' = "w_committed"
  /\ UNCHANGED <<pre, inrun, exit>> /\ UNCHANGED journal /\ NoFault

\* A journal write or a rename raises: the handler scans.
CommitFails ==
  /\ \/ pc \in {"w_staged", "w_moving_old", "w_moved_old", "w_moving_new", "w_committed"}
          /\ Fault("journal")
     \/ pc \in {"mv_old", "mv_new"} /\ Fault("rename")
  /\ pc' = "scan" /\ inrun' = TRUE
  /\ UNCHANGED <<pre, exit>> /\ UNCHANGED trees /\ UNCHANGED journal /\ UNCHANGED hadTree

\* After the commit: the journal goes only when the old tree is gone.
CleanOld ==
  /\ pc = "c_old"
  /\ old' = "none"
  /\ Goto("c_journal")
  /\ UNCHANGED <<cur, txn>> /\ UNCHANGED journal /\ NoFault

CleanJournal ==
  /\ pc = "c_journal"
  /\ jstate' = "none" /\ jpre' = FALSE
  /\ End("pass")
  /\ UNCHANGED trees /\ NoFault

\* A failing cleanup is a warning: the run has passed.
CleanFails ==
  /\ \/ pc = "c_old" /\ O /\ Fault("delete") /\ old' \in Eaten(old)
     \/ pc = "c_journal" /\ Fault("unlink") /\ old' = old
  /\ End("pass")
  /\ UNCHANGED <<cur, txn>> /\ UNCHANGED journal

\* The process is killed; a directory it was writing or removing is partial.
Crash ==
  /\ MayCrash /\ pc # "idle"
  /\ faults < MaxFaults /\ faults' = faults + 1
  /\ \/ UNCHANGED trees
     \/ pc = "s_txn" /\ txn' \in Eaten(txn) /\ UNCHANGED <<cur, old>>
     \/ pc \in {"s_old", "c_old"} /\ old' \in Eaten(old) /\ UNCHANGED <<cur, txn>>
     \/ pc = "extract" /\ txn' = "partial" /\ UNCHANGED <<cur, old>>
  /\ End("crashed")
  /\ UNCHANGED journal

Run ==
  \/ ScanNoJournal \/ ScanJournal \/ ScanRefuses \/ ScanRename \/ ScanDelete
  \/ ScanUnlink \/ Extract \/ WriteJournal \/ Move \/ CleanOld \/ CleanJournal

Failures == ScanFails \/ ExtractFails \/ CommitFails \/ CleanFails \/ Crash

Next == Start \/ Drift \/ Run \/ Failures

Spec == Init /\ [][Next]_vars

\* The tool is run again until it succeeds; nothing forces a fault.
FairSpec == Spec /\ WF_vars(Start \/ Run)
(***************************************************************************)
(* Properties.                                                             *)
(***************************************************************************)
\* Once there is a vendor tree there is always a complete one, as the current
\* or as the old tree, whatever fails or dies between the two renames.
TreeSurvives == hadTree => Complete(cur) \/ Complete(old)

\* The scan never meets a scene it cannot explain: every combination a failed
\* or killed run leaves behind is a row of the truth table, and an old tree
\* never outlives its journal.
ScanExplainsScene ==
  pc = "scan" => IF jstate = "none" THEN ~O ELSE InTable

\* A run that passes leaves the tree the manifest describes.
PassMeansValid == exit = "pass" => cur = "valid"

\* An interrupted transaction whose only complete tree, the one the table says
\* to keep or to put back, does not match the manifest: left to hand.
Unresolved ==
  \/ (KeepCurrent \/ KeepNew) /\ cur = "drifted"
  \/ PutBack /\ old = "drifted"

\* Once failures stop, running the tool again ends with a pass and the tree of
\* the manifest, however often the tree is damaged: a current tree that does
\* not match is replaced.  The one exception is an interrupted transaction that
\* rests on such a tree, and every run after it leaves it as it is.
Converges == []<>(exit = "pass" /\ cur = "valid") \/ <>[]Unresolved
=============================================================================
