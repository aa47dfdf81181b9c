----------------------------- MODULE StorageMove ----------------------------
(***************************************************************************)
(* A run of task 4 over an approved inventory (apply, apply_root,          *)
(* audit_root and move_one of r50-storage-task4.py): each row is moved     *)
(* when exactly one of its source and target is there, with the approved   *)
(* identity; a row that another run has moved is taken as moved.           *)
(***************************************************************************)
EXTENDS StorageApproval

Row(k) == Plan[run[k].n]
AtRow(k, pc) == task = 4 /\ run[k].pc = pc /\ run[k].n \in DOMAIN Plan
Moving(k, pc) == AtRow(k, pc) /\ Row(k) \in Moves
Removing(k, pc) == AtRow(k, pc) /\ Row(k) \in Empties
Ends(r) == {From(r), To(r)}
ToApprove(k, r) == read[k][From(r)]

NextRow(k) == [run[k] EXCEPT !.pc = "row", !.n = @ + 1]
\* What comes from now on comes after the check, unless somebody has made
\* a new source meanwhile.
Checked(k, r) ==
  [NextRow(k) EXCEPT !.late = IF Present(From(r)) THEN @ ELSE @ \ Lately(k, Ends(r))]

\* apply as the user, which drops the rows it reads, then apply_root, which
\* checks and reads for itself; audit_root goes through the rows without a
\* change.
Ask(k) ==
  /\ task = 4 /\ run[k].pc = "idle" /\ Approved /\ Goto(k, "asked")
  /\ UNCHANGED disk
Admit(k) ==
  /\ task = 4 /\ run[k].pc = "asked"
  /\ IF Approved THEN Goto(k, "open") ELSE Fail(k)
  /\ CheckDigest(k) /\ UNCHANGED disk
Audit(k) ==
  /\ task = 4 /\ run[k].pc = "idle" /\ Approved
  /\ Step(k, [run[k] EXCEPT !.pc = "open", !.mode = "audit"])
  /\ CheckDigest(k) /\ UNCHANGED disk
ReadRows(k) ==
  /\ task = 4 /\ run[k].pc = "open" /\ Goto(k, "row")
  /\ ReadManifest(k) /\ UNCHANGED disk

(***************************************************************************)
(* move_one.                                                               *)
(***************************************************************************)
LookAtSource(k) ==
  /\ Moving(k, "row")
  /\ Step(k, [run[k] EXCEPT !.pc = "target", !.saw = Present(From(Row(k))),
                             !.late = @ \ Lately(k, Ends(Row(k)))])
  /\ UNCHANGED disk

LookAtTarget(k) ==
  /\ Moving(k, "target")
  /\ IF run[k].saw = Present(To(Row(k))) THEN Fail(k) ELSE Goto(k, "identify")
  /\ UNCHANGED disk

\* Mutant: a row that is already moved fails.
IdentifyOnce(k) ==
  /\ Moving(k, "identify")
  /\ LET r == Row(k)
     IN IF ~run[k].saw \/ disk[From(r)] # ToApprove(k, r)
        THEN Fail(k)
        ELSE IF run[k].mode = "audit" THEN Step(k, NextRow(k)) ELSE Goto(k, "rename")
  /\ UNCHANGED disk

Identify(k) ==
  /\ Moving(k, "identify")
  /\ LET r == Row(k)
         current == IF run[k].saw THEN From(r) ELSE To(r)
     IN IF Identity(current) # ToApprove(k, r)
        THEN Fail(k)
        ELSE IF ~run[k].saw \/ run[k].mode = "audit"
        THEN Step(k, NextRow(k))
        ELSE Goto(k, "rename")
  /\ UNCHANGED disk

\* A target that came after the look at it is replaced, unless it is a
\* directory with something in it.
Rename(k) ==
  /\ Moving(k, "rename")
  /\ LET r == Row(k) IN
     \/ /\ ~Present(From(r)) \/ (Present(To(r)) /\ disk[To(r)] # {})
        /\ Fail(k) /\ UNCHANGED disk
     \/ /\ Present(From(r)) /\ Goto(k, "verify")
        /\ disk' = [disk EXCEPT ![To(r)] = disk[From(r)], ![From(r)] = Absent]

\* Mutant: the move is not verified.
VerifyNothing(k) ==
  /\ Moving(k, "verify") /\ Step(k, Checked(k, Row(k)))
  /\ UNCHANGED disk

Verify(k) ==
  /\ Moving(k, "verify")
  /\ IF Identity(To(Row(k))) = ToApprove(k, Row(k)) THEN Step(k, Checked(k, Row(k))) ELSE Fail(k)
  /\ UNCHANGED disk

(***************************************************************************)
(* The rows that remove an empty directory, and build/ itself at the end.  *)
(***************************************************************************)
LookAtEmpty(k) ==
  /\ Removing(k, "row")
  /\ LET p == From(Row(k))
     IN IF ~Present(p)
        THEN Step(k, NextRow(k))
        ELSE IF run[k].mode = "apply"
        THEN Goto(k, "rmdir")
        ELSE IF disk[p] = {} THEN Step(k, NextRow(k)) ELSE Fail(k)
  /\ UNCHANGED disk

RemoveEmpty(k) ==
  /\ Removing(k, "rmdir")
  /\ LET p == From(Row(k))
     IN IF Present(p) /\ disk[p] = {}
        THEN disk' = [disk EXCEPT ![p] = Absent] /\ Step(k, NextRow(k))
        ELSE Fail(k) /\ UNCHANGED disk

AllRows(k) == task = 4 /\ run[k].n > Len(Plan)
BuildIsEmpty == ~upset /\ \A r \in Moves \cup Empties : ~Present(From(r))

LookAtBuild(k) ==
  /\ AllRows(k) /\ run[k].pc = "row"
  /\ IF run[k].mode = "audit"
     THEN Fail(k)  \* the audit has told what it found
     ELSE Goto(k, IF Present(Build) THEN "rmbuild" ELSE "passed")
  /\ UNCHANGED disk

RemoveBuild(k) ==
  /\ AllRows(k) /\ run[k].pc = "rmbuild"
  /\ IF Present(Build) /\ BuildIsEmpty
     THEN disk' = [disk EXCEPT ![Build] = Absent] /\ Goto(k, "passed")
     ELSE Fail(k) /\ UNCHANGED disk

MoveStep(k) ==
  /\ \/ Admit(k) \/ Audit(k) \/ ReadRows(k)
     \/ /\ \/ Ask(k)
           \/ LookAtSource(k) \/ LookAtTarget(k) \/ Identify(k) \/ Rename(k) \/ Verify(k)
           \/ LookAtEmpty(k) \/ RemoveEmpty(k) \/ LookAtBuild(k) \/ RemoveBuild(k)
        /\ UNCHANGED reading
  /\ UNCHANGED <<approval, recorded, strays>>

\* The operator applies what was approved, whatever is audited before.
Applied(k) == Ask(k) /\ UNCHANGED <<approval, recorded, strays, reading>>

(***************************************************************************)
(* A run that reports R50_TASK4_MIGRATION_PASS has every row where the     *)
(* plan wants it, with the identity the run has read, whoever moved it, but*)
(* for what others changed after the run had checked the row; and what the *)
(* run has read is what was approved, but for a rewrite of the manifest    *)
(* between its digest and its reading.                                     *)
(***************************************************************************)
InPlace(k, r) == ~Present(From(r)) /\ disk[To(r)] = ToApprove(k, r)
PassMeansApproved ==
  \A k \in Runs : task = 4 /\ run[k].pc = "passed" =>
    Bound(k) /\ \A r \in Moves : Lately(k, Ends(r)) # {} \/ InPlace(k, r)

(***************************************************************************)
(* What the documentation says of --apply RECEIPT: each object is checked  *)
(* against the identity the receipt is bound to, and drift is refused.     *)
(* The second opening of the manifest breaks it.                           *)
(***************************************************************************)
DriftIsRefused ==
  \A k \in Runs : task = 4 /\ run[k].pc = "passed" =>
    \A r \in Moves :
      Lately(k, Ends(r)) # {} \/ (~Present(From(r)) /\ disk[To(r)] = receipt.rows[From(r)])

(***************************************************************************)
(* Runs killed at any step and repeated, or several at the same time, end  *)
(* with a run that passes, when nobody else changes the objects.           *)
(***************************************************************************)
Passed == \E k \in Runs : run[k].pc = "passed"
MoveConverges == [](task = 4 /\ receipt.yes => <>(Passed \/ changes > 0))
=============================================================================
