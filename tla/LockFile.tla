------------------------------ MODULE LockFile ------------------------------
(***************************************************************************)
(* The exclusive lock of the generation tools: flock(LOCK_EX | LOCK_NB) on *)
(* a file of the output directory, and the journal the lock protects.      *)
(*                                                                         *)
(* d-stage-audit-gen.py (.snapshot.lock) and r16-f-payload-integrity.py    *)
(* (.restore.lock) never remove the lock file; materialize-o-stage.sh      *)
(* (.materialize.lock) removes journal and lock file after it has released *)
(* the lock.  A behaviour follows one of the two disciplines throughout.    *)
(*                                                                         *)
(* A lock belongs to an inode, not to a path: whoever opened the file      *)
(* before it was unlinked keeps the old inode.                             *)
(***************************************************************************)
EXTENDS FiniteSets

CONSTANTS Proc,            \* concurrent runs of the tool
          Inode,           \* inodes the path can name; one more than Proc is enough
          None,
          Disciplines      \* may hold TRUE (the lock file is removed) and FALSE

ASSUME NoneAssumption == None \notin Proc /\ None \notin Inode
ASSUME DisciplineAssumption == Disciplines \subseteq BOOLEAN

VARIABLES path,     \* inode the lock path names, None when there is no such file
          fd,       \* fd[p]: inode process p has open
          holder,   \* holder[i]: process that holds the lock of inode i
          owner,    \* process whose transaction the journal file describes
          phase,
          removing  \* TRUE: the discipline of materialize-o-stage.sh

lockVars == <<path, fd, holder, owner, phase, removing>>

Phases == {"idle", "opened", "locked", "working", "closing", "unlocked", "tidied"}

LockTypeOK ==
  /\ path \in Inode \cup {None}
  /\ fd \in [Proc -> Inode \cup {None}]
  /\ holder \in [Inode -> Proc \cup {None}]
  /\ owner \in Proc \cup {None}
  /\ phase \in [Proc -> Phases]
  /\ removing \in BOOLEAN

LockInit ==
  /\ path = None
  /\ fd = [p \in Proc |-> None]
  /\ holder = [i \in Inode |-> None]
  /\ owner = None
  /\ phase = [p \in Proc |-> "idle"]
  /\ removing \in Disciplines

To(p, l) == phase' = [phase EXCEPT ![p] = l]

\* The inode disappears with its last name and its last descriptor.
Unused(i) == i # path /\ \A p \in Proc : fd[p] # i

\* open(O_CREAT): the file the path names, or a new one.
Open(p) ==
  /\ phase[p] = "idle"
  /\ \E i \in Inode :
       /\ IF path = None THEN Unused(i) ELSE i = path
       /\ path' = i
       /\ fd' = [fd EXCEPT ![p] = i]
  /\ To(p, "opened")
  /\ UNCHANGED <<holder, owner>>

\* Mutant: LOCK_NB reports the contention and nobody looks at the result.
LockUnchecked(p) ==
  /\ phase[p] = "opened"
  /\ holder' = [holder EXCEPT ![fd[p]] = p]
  /\ To(p, "locked")
  /\ UNCHANGED <<path, fd, owner>>

Lock(p) ==
  /\ phase[p] = "opened" /\ holder[fd[p]] = None
  /\ holder' = [holder EXCEPT ![fd[p]] = p]
  /\ To(p, "locked")
  /\ UNCHANGED <<path, fd, owner>>

\* Closing the last descriptor of an open file releases its lock.
Released(p) == [i \in Inode |-> IF holder[i] = p THEN None ELSE holder[i]]

\* The lock is held by another run: exit 6, nothing touched.
Contend(p) ==
  /\ phase[p] = "opened" /\ holder[fd[p]] # None
  /\ fd' = [fd EXCEPT ![p] = None]
  /\ To(p, "idle")
  /\ UNCHANGED <<path, holder, owner>>

\* The journal's first state: from here on recovery depends on the file.
WriteJournal(p) ==
  /\ phase[p] = "locked"
  /\ owner' = p
  /\ To(p, "working")
  /\ UNCHANGED <<path, fd, holder>>

\* The transaction has been committed.
Finish(p) ==
  /\ phase[p] = "working"
  /\ To(p, "closing")
  /\ UNCHANGED <<path, fd, holder, owner>>

\* A failed or killed run: the kernel releases the lock, both files stay.
Die(p) ==
  /\ phase[p] # "idle"
  /\ holder' = Released(p)
  /\ fd' = [fd EXCEPT ![p] = None]
  /\ To(p, "idle")
  /\ UNCHANGED <<path, owner>>

(***************************************************************************)
(* The lock file stays: the journal goes before the lock.                  *)
(***************************************************************************)
\* Mutant: the lock is released before the journal is removed.
CloseKeepingTooEarly(p) ==
  /\ ~removing
  /\ \/ phase[p] = "closing" /\ To(p, "unlocked") /\ owner' = owner
        /\ holder' = Released(p) /\ fd' = fd
     \/ phase[p] = "unlocked" /\ To(p, "idle") /\ owner' = None
        /\ holder' = holder /\ fd' = [fd EXCEPT ![p] = None]
  /\ path' = path

CloseKeeping(p) ==
  /\ ~removing
  /\ \/ phase[p] = "closing" /\ To(p, "unlocked") /\ owner' = None
        /\ UNCHANGED <<holder, fd>>
     \/ phase[p] = "unlocked" /\ To(p, "idle") /\ owner' = owner
        /\ holder' = Released(p) /\ fd' = [fd EXCEPT ![p] = None]
  /\ path' = path

(***************************************************************************)
(* The lock file goes: unlock, remove the journal, remove the lock file.   *)
(***************************************************************************)
CloseRemoving(p) ==
  /\ removing
  /\ \/ phase[p] = "closing" /\ To(p, "unlocked") /\ holder' = Released(p)
        /\ UNCHANGED <<path, fd, owner>>
     \/ phase[p] = "unlocked" /\ To(p, "tidied") /\ owner' = None
        /\ UNCHANGED <<path, fd, holder>>
     \/ phase[p] = "tidied" /\ To(p, "idle") /\ path' = None
        /\ fd' = [fd EXCEPT ![p] = None]
        /\ UNCHANGED <<holder, owner>>

Step(p) ==
  \/ Open(p) \/ Lock(p) \/ Contend(p) \/ WriteJournal(p) \/ Finish(p)
  \/ Die(p) \/ CloseKeeping(p) \/ CloseRemoving(p)

LockNext == (\E p \in Proc : Step(p)) /\ removing' = removing

LockSpec == LockInit /\ [][LockNext]_lockVars

(***************************************************************************)
(* Properties.                                                             *)
(***************************************************************************)
Inside(p) == phase[p] \in {"locked", "working", "closing"}

\* Two runs are never inside the transaction at once.
MutualExclusion ==
  \A p, q \in Proc : Inside(p) /\ Inside(q) => p = q

\* Runs inside at the same time have locked different inodes: the kernel's lock
\* is not what fails.
ExclusionPerInode ==
  \A p, q \in Proc : Inside(p) /\ Inside(q) /\ fd[p] = fd[q] => p = q

\* What the locks give, through kills and restarts: one run inside when the lock
\* file is never removed, with either discipline one run per inode.
LocksExclude ==
  /\ ~removing => MutualExclusion
  /\ ExclusionPerInode

\* The journal recovery would read is the one of the run that is working: no
\* other run removes it or writes over it before the commit.
JournalOfTheHolder ==
  \A p \in Proc : phase[p] \in {"working", "closing"} => owner = p

KeptLockGuardsJournal == ~removing => JournalOfTheHolder
=============================================================================
