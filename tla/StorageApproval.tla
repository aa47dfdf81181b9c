--------------------------- MODULE StorageApproval --------------------------
(***************************************************************************)
(* Tasks 4 and 5 of the storage clean-up (r50-storage-task4.py, which      *)
(* moves build/ to its new places, and r50-storage-task5.py, which deletes *)
(* the artifacts of retired kernels).  Both take an inventory of objects   *)
(* as root, bind an operator's approval to it in a receipt, and start runs *)
(* that may act on nothing else.  This module holds the objects, the       *)
(* inventory and the receipt; StorageMove and StorageCleanup hold what a   *)
(* run does.                                                               *)
(*                                                                         *)
(* The content of an object is the set of its files, each of which stands  *)
(* for a name with its content and metadata, so that two contents are      *)
(* equal when both digests of their identity are.                          *)
(***************************************************************************)
EXTENDS Naturals, Sequences, FiniteSets, Functions

CONSTANTS Moves, Empties,  \* task 4: sources to move, directories to remove
          Plan,            \* task 4: its rows in order
          Candidates,      \* task 5: what is to be deleted, in order
          Items,           \* files an object may hold
          Runs,            \* processes that apply an approval
          Absent,          \* what is not on the disk
          MaxChanges, MaxKills \* bounds: changes by others, kills

ASSUME StorageAssumption ==
  /\ Range(Plan) = Moves \cup Empties /\ Moves \cap Empties = {}
  /\ Plan \in Seq(Range(Plan)) /\ Candidates \in Seq(Range(Candidates))
  /\ {MaxChanges, MaxKills} \subseteq Nat /\ \A files \in SUBSET Items : files # Absent

VARIABLES task,      \* which of the two scripts is run
          disk,      \* content per place
          upset,     \* foreign entry in build/, or another set of kernels
          inventory, \* progress and rows of the inventory
          receipt,   \* the operator's answer and the rows it is bound to
          run,       \* per process
          read,      \* per process: the rows it has read from the manifest
          rewritten, \* history, per process: between its digest and its reading
          changes, kills,
          recorded,  \* task 5: files in the hash records of all runs
          strays     \* history: files a run of task 5 had no right to delete

vars == <<task, disk, upset, inventory, receipt, run, read, rewritten, changes, kills,
          recorded, strays>>
approval == <<task, upset, inventory, receipt, changes, kills>>
reading == <<read, rewritten>>

From(r) == <<"build", r>>
To(r) == <<"new", r>>
Build == <<"build">>
At(c) == <<"candidate", c>>
Kept == <<"retained">>

Places ==
  IF task = 4
  THEN {From(r) : r \in Moves \cup Empties} \cup {To(r) : r \in Moves} \cup {Build}
  ELSE {At(c) : c \in Range(Candidates)} \cup {Kept}

Present(p) == disk[p] # Absent
Identity(p) == disk[p]

\* Where the rows of an inventory come from, in order.
Surveyed ==
  IF task = 4
  THEN [i \in DOMAIN Plan |-> From(Plan[i])]
  ELSE [i \in DOMAIN Candidates |-> At(Candidates[i])] \o <<Kept>>

NoRows == [p \in {} |-> Absent]
NoInventory == [at |-> 0, rows |-> NoRows]
NoReceipt == [yes |-> FALSE, rows |-> NoRows]
Idle == [pc |-> "idle", mode |-> "apply", n |-> 1, saw |-> FALSE, list |-> {}, late |-> {}]

StorageTypeOK ==
  /\ task \in {4, 5} /\ {upset, receipt.yes} \subseteq BOOLEAN
  /\ DOMAIN disk = Places
  /\ \A p \in Places : disk[p] = Absent \/ disk[p] \subseteq Items
  /\ inventory.at \in 0..Len(Surveyed) + 1
  /\ changes \in 0..MaxChanges /\ kills \in 0..MaxKills
  /\ DOMAIN run = Runs /\ DOMAIN read = Runs /\ rewritten \in [Runs -> BOOLEAN]
  /\ \A k \in Runs : run[k].n \in 1..Len(Plan) + Len(Candidates) + 1

(***************************************************************************)
(* Inventory.  The checks of validate_layout and validate_host come first, *)
(* then every object is read in turn; a failure ends the attempt.          *)
(***************************************************************************)
Layout ==
  /\ ~upset /\ \A i \in DOMAIN Surveyed : Surveyed[i] # Kept => Present(Surveyed[i])
  /\ task = 4 => Present(Build)

BeginInventory ==
  /\ inventory.at = 0 /\ Layout /\ inventory' = [inventory EXCEPT !.at = 1]
  /\ UNCHANGED <<task, disk, upset, receipt, run, changes, kills, recorded, strays, reading>>

Survey ==
  /\ inventory.at \in DOMAIN Surveyed
  /\ LET p == Surveyed[inventory.at]
         taken == task = 4 /\ \E r \in Moves : p = From(r) /\ Present(To(r))
     IN inventory' = IF taken \/ (~Present(p) /\ p # Kept)
                     THEN NoInventory
                     ELSE [at |-> inventory.at + 1,
                           rows |-> [q \in DOMAIN inventory.rows \cup {p} |->
                                       IF q = p THEN Identity(p) ELSE inventory.rows[q]]]
  /\ UNCHANGED <<task, disk, upset, receipt, run, changes, kills, recorded, strays, reading>>

Inventoried == inventory.at > Len(Surveyed)

\* The operator answers; the receipt holds the digest of the manifest.
Confirm ==
  /\ Inventoried /\ receipt = NoReceipt
  /\ \E yes \in BOOLEAN : receipt' = [yes |-> yes, rows |-> inventory.rows]
  /\ UNCHANGED <<task, disk, upset, inventory, run, changes, kills, recorded, strays, reading>>

(***************************************************************************)
(* approved_rows and approved of the two scripts open the manifest twice:  *)
(* once for its digest, which has to be the one in the receipt, and once   *)
(* more for the rows, which the run goes by from then on.  A rewrite       *)
(* changes what a row says of its object; which rows there are, and in     *)
(* which order, stays.                                                     *)
(***************************************************************************)
Approved == receipt.yes /\ receipt.rows = inventory.rows
CheckDigest(k) ==
  /\ rewritten' = [rewritten EXCEPT ![k] = FALSE]
  /\ UNCHANGED read
ReadManifest(k) ==
  /\ read' = [read EXCEPT ![k] = inventory.rows]
  /\ UNCHANGED rewritten

\* What a run goes by is what the operator approved, unless the manifest
\* was rewritten between the two openings.
Bound(k) == rewritten[k] \/ read[k] = receipt.rows

(***************************************************************************)
(* Others: a build, a consumer, an upgrade, or the owner of the manifest.  *)
(***************************************************************************)
Changed == changes < MaxChanges /\ changes' = changes + 1

\* What others did since a run looked: the place, with what they put there.
Overtaken(p, content) ==
  LET put == {Absent} \cup (IF content = Absent THEN {} ELSE content)
  IN [k \in Runs |-> [run[k] EXCEPT !.late = @ \cup {<<p, x>> : x \in put}]]
Lately(k, places) == {l \in run[k].late : l[1] \in places}

Change ==
  /\ Changed
  /\ \E p \in Places \ {Build}, content \in (SUBSET Items) \cup {Absent} :
       /\ content # disk[p]
       /\ disk' = [q \in Places |->
            IF q = p THEN content
            ELSE IF q = Build /\ content # Absent /\ \E r \in Moves \cup Empties : p = From(r)
            THEN {}
            ELSE disk[q]]
       /\ run' = Overtaken(p, content)
  /\ UNCHANGED <<task, upset, inventory, receipt, kills, recorded, strays, reading>>

Upset ==
  /\ Changed /\ upset' = ~upset
  /\ disk' = IF task = 4 /\ ~upset THEN [disk EXCEPT ![Build] = {}] ELSE disk
  /\ UNCHANGED <<task, inventory, receipt, run, kills, recorded, strays, reading>>

Rewrite ==
  /\ Changed /\ Inventoried
  /\ \E p \in DOMAIN inventory.rows, content \in SUBSET Items :
       /\ content # inventory.rows[p]
       /\ inventory' = [inventory EXCEPT !.rows[p] = content]
  /\ rewritten' = [k \in Runs |-> rewritten[k] \/ run[k].pc = "open"]
  /\ UNCHANGED <<task, disk, upset, receipt, run, read, kills, recorded, strays>>

Others == Change \/ Upset \/ Rewrite
Approval == BeginInventory \/ Survey \/ Confirm

(***************************************************************************)
(* Runs.                                                                   *)
(***************************************************************************)
Step(k, to) == run' = [run EXCEPT ![k] = to]
Goto(k, pc) == Step(k, [run[k] EXCEPT !.pc = pc])
Fail(k) == Step(k, [Idle EXCEPT !.pc = "failed"])

\* A process that ended is followed by another one.
Again(k) ==
  /\ run[k].pc = "failed" /\ Step(k, Idle)
  /\ UNCHANGED <<approval, disk, recorded, strays, reading>>

Kill(k) ==
  /\ run[k].pc \notin {"idle", "failed", "passed"} /\ kills < MaxKills
  /\ kills' = kills + 1 /\ Fail(k)
  /\ UNCHANGED <<task, upset, inventory, receipt, changes, disk, recorded, strays, reading>>

StorageInit ==
  /\ task \in {4, 5} /\ upset = FALSE
  /\ disk = [p \in Places |->
       IF p \in {To(r) : r \in Moves} THEN Absent
       ELSE IF p \in {From(e) : e \in Empties} \cup {Build} THEN {}
       ELSE {CHOOSE x \in Items : TRUE}]
  /\ inventory = NoInventory /\ receipt = NoReceipt
  /\ run = [k \in Runs |-> Idle]
  /\ read = [k \in Runs |-> NoRows] /\ rewritten = [k \in Runs |-> FALSE]
  /\ changes = 0 /\ kills = 0 /\ recorded = {} /\ strays = {}
=============================================================================
