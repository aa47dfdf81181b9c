--------------------------- MODULE StorageCleanup ---------------------------
(***************************************************************************)
(* A run of task 5 over an approved inventory (apply, apply_root of        *)
(* r50-storage-task5.py): everything is compared with the approval once    *)
(* more, the files to delete are recorded with their digests, and then the *)
(* candidates are deleted one after the other.                             *)
(***************************************************************************)
EXTENDS StorageApproval

Nth(k) == At(Candidates[run[k].n])
AtNth(k, pc) == task = 5 /\ run[k].pc = pc /\ run[k].n \in DOMAIN Candidates
Through(k, pc) == task = 5 /\ run[k].pc = pc /\ run[k].n > Len(Candidates)
NextOf(k, pc) == [run[k] EXCEPT !.pc = pc, !.n = @ + 1]
Restart(k, pc) == [run[k] EXCEPT !.pc = pc, !.n = 1]

AsApproved(k, p) == Identity(p) = read[k][p]

AskCleanup(k) ==
  /\ task = 5 /\ run[k].pc = "idle" /\ Approved /\ Goto(k, "asked")
  /\ UNCHANGED <<disk, recorded, strays>>

\* validate_host and the digests of approved.
AdmitCleanup(k) ==
  /\ task = 5 /\ run[k].pc = "asked"
  /\ IF upset \/ ~Approved THEN Fail(k) ELSE Goto(k, "open")
  /\ CheckDigest(k) /\ UNCHANGED <<disk, recorded, strays>>

\* The rows of approved, then candidate_specs.
ReadCleanupRows(k) ==
  /\ task = 5 /\ run[k].pc = "open"
  /\ IF \E i \in DOMAIN Candidates : ~Present(At(Candidates[i]))
     THEN Fail(k)
     ELSE Goto(k, "collect")
  /\ ReadManifest(k) /\ UNCHANGED <<disk, recorded, strays>>

\* Mutant: drift after the confirmation is not noticed.
CollectBlindly(k) ==
  /\ AtNth(k, "collect")
  /\ IF ~Present(Nth(k)) THEN Fail(k) ELSE Step(k, NextOf(k, "collect"))
  /\ UNCHANGED <<disk, recorded, strays>>

\* collect_rows; what comes to a candidate from now on is late.
Collect(k) ==
  /\ AtNth(k, "collect")
  /\ IF ~AsApproved(k, Nth(k))
     THEN Fail(k)
     ELSE Step(k, [NextOf(k, "collect") EXCEPT
                     !.late = @ \ Lately(k, {Nth(k)})])
  /\ UNCHANGED <<disk, recorded, strays>>

CompareRetained(k) ==
  /\ Through(k, "collect")
  /\ IF ~AsApproved(k, Kept) THEN Fail(k) ELSE Step(k, Restart(k, "hash"))
  /\ UNCHANGED <<disk, recorded, strays>>

\* deletion-files.sha256, closed before the first deletion.
Hash(k) ==
  /\ AtNth(k, "hash")
  /\ IF ~Present(Nth(k))
     THEN Fail(k) /\ UNCHANGED recorded
     ELSE /\ recorded' = recorded \cup {<<Nth(k), x>> : x \in disk[Nth(k)]}
          /\ Step(k, NextOf(k, "hash"))
  /\ UNCHANGED <<disk, strays>>

BeginDeletion(k) ==
  /\ Through(k, "hash") /\ Step(k, Restart(k, "delete"))
  /\ UNCHANGED <<disk, recorded, strays>>

\* rmtree: the files it listed, then the directory.
List(k) ==
  /\ AtNth(k, "delete")
  /\ IF ~Present(Nth(k))
     THEN Fail(k)
     ELSE Step(k, [run[k] EXCEPT !.pc = "unlink", !.list = disk[Nth(k)]])
  /\ UNCHANGED <<disk, recorded, strays>>

Rightful(k, x) ==
  \/ <<Nth(k), x>> \in run[k].late
  \/ x \in read[k][Nth(k)] /\ <<Nth(k), x>> \in recorded /\ Bound(k)

Unlink(k) ==
  /\ AtNth(k, "unlink")
  /\ \E x \in run[k].list :
       IF Present(Nth(k)) /\ x \in disk[Nth(k)]
       THEN /\ disk' = [disk EXCEPT ![Nth(k)] = @ \ {x}]
            /\ Step(k, [run[k] EXCEPT !.list = @ \ {x}])
            /\ strays' = IF Rightful(k, x) THEN strays ELSE strays \cup {<<Nth(k), x>>}
       ELSE Fail(k) /\ UNCHANGED <<disk, strays>>
  /\ UNCHANGED recorded

RemoveDirectory(k) ==
  /\ AtNth(k, "unlink") /\ run[k].list = {}
  /\ IF Present(Nth(k)) /\ disk[Nth(k)] = {}
     THEN disk' = [disk EXCEPT ![Nth(k)] = Absent] /\ Step(k, NextOf(k, "delete"))
     ELSE Fail(k) /\ UNCHANGED disk
  /\ UNCHANGED <<recorded, strays>>

\* Nothing remains, the retained evidence and the host are as they were.
Conclude(k) ==
  /\ Through(k, "delete")
  /\ IF \/ \E i \in DOMAIN Candidates : Present(At(Candidates[i]))
        \/ ~AsApproved(k, Kept) \/ upset
     THEN Fail(k)
     ELSE Goto(k, "passed")
  /\ UNCHANGED <<disk, recorded, strays>>

CleanupStep(k) ==
  /\ \/ AdmitCleanup(k) \/ ReadCleanupRows(k)
     \/ /\ \/ AskCleanup(k) \/ Collect(k) \/ CompareRetained(k)
           \/ Hash(k) \/ BeginDeletion(k) \/ List(k) \/ Unlink(k) \/ RemoveDirectory(k)
           \/ Conclude(k)
        /\ UNCHANGED reading
  /\ UNCHANGED approval

(***************************************************************************)
(* Whatever a run deletes is in the rows it has read and in a hash record, *)
(* also when two runs work on one candidate or a run was killed in the     *)
(* middle; only what others put there after the run's comparison can be    *)
(* deleted besides.  The rows are the approved ones, but for a rewrite of  *)
(* the manifest between its digest and its reading.                        *)
(***************************************************************************)
DeletesApproved == strays = {}
=============================================================================
