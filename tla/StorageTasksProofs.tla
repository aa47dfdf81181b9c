------------------------- MODULE StorageTasksProofs -------------------------
(***************************************************************************)
(* What the clean-up of task 5 deletes, for any candidates, any number of  *)
(* runs at the same time, and whatever others change meanwhile.            *)
(***************************************************************************)
EXTENDS StorageTasks, TLAPS

(***************************************************************************)
(* The inductive invariant behind DeletesApproved: whatever stands at a    *)
(* candidate that a run has compared is approved, and recorded once the    *)
(* run has hashed it, unless others put it there after the comparison.     *)
(***************************************************************************)
\* Where a run stands that has not read the rows of the manifest yet.
Fresh == {"idle", "asked", "open", "failed"}

Held(p) == IF Present(p) THEN disk[p] ELSE {}
Compared(k, i) ==
  run[k].pc \in {"hash", "delete", "unlink"} \/ (run[k].pc = "collect" /\ i < run[k].n)
Hashed(k, i) ==
  run[k].pc \in {"delete", "unlink"} \/ (run[k].pc = "hash" /\ i < run[k].n)

Accounted(k, i, x) ==
  LET p == At(Candidates[i])
  IN \/ <<p, x>> \in run[k].late
     \/ /\ Compared(k, i) => x \in read[k][p]
        /\ Hashed(k, i) => <<p, x>> \in recorded

Knows(k) ==
  /\ run[k].pc \notin {"idle", "failed"} => receipt.yes
  /\ task = 5 /\ run[k].pc \in Fresh => run[k].n = 1
  /\ task = 5 => \A i \in DOMAIN Candidates :
                    \A x \in Held(At(Candidates[i])) : Accounted(k, i, x)

RunShape(s) ==
  /\ s = [pc |-> s.pc, mode |-> s.mode, n |-> s.n, saw |-> s.saw, list |-> s.list, late |-> s.late]
  /\ s.n \in Nat

Shape ==
  /\ task = 5 => disk = [p \in Places |-> disk[p]]
  /\ run = [k \in Runs |-> run[k]] /\ \A k \in Runs : RunShape(run[k])

(***************************************************************************)
(* What binds the rows a run has read to the approval: until they are read *)
(* the manifest is the approved one, or was rewritten since its digest.    *)
(***************************************************************************)
Bounded(k) ==
  /\ run[k].pc = "open" => rewritten[k] \/ inventory.rows = receipt.rows
  /\ run[k].pc \notin Fresh => Bound(k)

Readings ==
  /\ read = [k \in Runs |-> read[k]]
  /\ rewritten = [k \in Runs |-> rewritten[k]] /\ \A k \in Runs : rewritten[k] \in BOOLEAN
  /\ inventory = [at |-> inventory.at, rows |-> inventory.rows]
  /\ receipt.yes => Inventoried

BoundIInv == Readings /\ \A k \in Runs : Bounded(k)

StorageIInv == Shape /\ DeletesApproved /\ \A k \in Runs : Knows(k)

(***************************************************************************)
(* The inductive invariant behind PassMeansApproved: a move that a run has *)
(* come past is settled, and one that it has seen without its source, or   *)
(* has renamed, has none, unless others changed its ends after the look.   *)
(***************************************************************************)
Looking == {"target", "identify", "rename", "verify"}
BusyWith(k, r) ==
  run[k].pc \in Looking /\ run[k].n \in DOMAIN Plan /\ Row(k) = r
CamePast(k, r) ==
  ~BusyWith(k, r) /\ \E j \in DOMAIN Plan : j < run[k].n /\ Plan[j] = r

Excused(k, r) == Lately(k, Ends(r)) # {}
Settled(k, r) == ~Present(From(r)) /\ disk[To(r)] = ToApprove(k, r)
Sourceless(k, r) == BusyWith(k, r) /\ (run[k].pc = "verify" \/ ~run[k].saw)

SettledSoFar(k) ==
  \A r \in Moves :
    /\ CamePast(k, r) => Excused(k, r) \/ Settled(k, r)
    /\ Sourceless(k, r) => Excused(k, r) \/ ~Present(From(r))

MovesKnown(k) ==
  /\ run[k].mode \in {"apply", "audit"}
  /\ run[k].mode = "apply" => SettledSoFar(k)
  /\ run[k].pc \in {"rmbuild", "passed"} => run[k].mode = "apply" /\ run[k].n > Len(Plan)
  /\ run[k].pc \in Fresh => run[k].n = 1

MoveIInv ==
  task = 4 => disk = [p \in Places |-> disk[p]] /\ \A k \in Runs : MovesKnown(k)

CandidateRow == DOMAIN Candidates

LEMMA RowsAreNumbers == CandidateRow = 1..Len(Candidates) /\ Len(Candidates) \in Nat
BY StorageAssumption DEF CandidateRow

LEMMA CandidatesHavePlaces == task = 5 => \A i \in CandidateRow : At(Candidates[i]) \in Places
BY StorageAssumption DEF Places, Range, CandidateRow

LEMMA StorageInitIInv == StorageInit => StorageIInv
<1> SUFFICES ASSUME StorageInit PROVE StorageIInv
  OBVIOUS
<1>1. Shape
  BY DEF StorageInit, Shape, RunShape, Idle
<1>2. ASSUME NEW k \in Runs PROVE Knows(k)
  BY DEF StorageInit, Knows, Idle, Accounted, Compared, Hashed
<1> QED BY <1>1, <1>2 DEF StorageIInv, StorageInit, DeletesApproved

\* A run that stands still keeps what it knows while files only go away and
\* digests are only added.
LEMMA KnowsOn ==
  ASSUME NEW k \in Runs, Knows(k), run'[k] = run[k], UNCHANGED <<task, receipt>>,
         task = 5 => read'[k] = read[k],
         recorded \subseteq recorded',
         task = 5 => \A i \in CandidateRow : Held(At(Candidates[i]))' \subseteq Held(At(Candidates[i]))
  PROVE  Knows(k)'
<1>1. ASSUME task = 5
      PROVE  \A i \in CandidateRow : \A x : Accounted(k, i, x) => Accounted(k, i, x)'
  BY <1>1 DEF Accounted, Compared, Hashed
<1> QED BY <1>1 DEF Knows, CandidateRow

\* A run that has ended knows nothing any more.
LEMMA KnowsNothing ==
  ASSUME NEW k \in Runs, run'[k].pc \in {"idle", "failed"}, run'[k].n = 1
  PROVE  Knows(k)'
BY DEF Knows, Accounted, Compared, Hashed, Fresh

\* Files others put there are late for every run.
LEMMA ChangeKeeps ==
  ASSUME StorageIInv, Change
  PROVE  StorageIInv'
<1>1. PICK p \in Places \ {Build}, content \in (SUBSET Items) \cup {Absent} :
        /\ disk' = [q \in Places |->
             IF q = p THEN content
             ELSE IF q = Build /\ content # Absent /\ \E r \in Moves \cup Empties : p = From(r)
             THEN {}
             ELSE disk[q]]
        /\ run' = Overtaken(p, content)
  BY DEF Change
<1>u. UNCHANGED <<task, receipt, recorded, strays, read>>
  BY DEF Change, reading
<1> DEFINE put == {Absent} \cup (IF content = Absent THEN {} ELSE content)
           late(k) == run[k].late \cup {<<p, x>> : x \in put}
<1>r. run' = [k \in Runs |-> [run[k] EXCEPT !.late = run[k].late \cup {<<p, x>> : x \in put}]]
  BY <1>1 DEF Overtaken
<1>2. ASSUME NEW k \in Runs
      PROVE run'[k] = [pc |-> run[k].pc, mode |-> run[k].mode, n |-> run[k].n,
                       saw |-> run[k].saw, list |-> run[k].list, late |-> late(k)]
  <2>1. run'[k] = [run[k] EXCEPT !.late = late(k)]
    BY <1>r
  <2>2. run[k] = [pc |-> run[k].pc, mode |-> run[k].mode, n |-> run[k].n,
                  saw |-> run[k].saw, list |-> run[k].list, late |-> run[k].late]
    BY DEF StorageIInv, Shape, RunShape
  <2> HIDE DEF late
  <2> QED BY <2>1, <2>2
<1>p. \A k \in Runs : \A x : x \in content /\ content # Absent => <<p, x>> \in late(k)
  OBVIOUS
<1>q. \A k \in Runs : \A y : y \in run[k].late => y \in late(k)
  OBVIOUS
<1> HIDE DEF late, put
<1>3. run' = [k \in Runs |-> run'[k]]
  BY <1>1 DEF Overtaken
<1>4. Places' = Places
  BY <1>u DEF Places
<1>5. Shape'
  <2>1. task' = 5 => disk' = [q \in Places' |-> disk'[q]]
    BY <1>1, <1>4
  <2> QED BY <1>2, <1>3, <2>1 DEF Shape, RunShape, StorageIInv
<1>6. ASSUME NEW k \in Runs PROVE Knows(k)'
  <2>0. run'[k].late = late(k) /\ run'[k].pc = run[k].pc /\ run'[k].n = run[k].n
    <3> DEFINE l == late(k)
    <3>1. run'[k] = [pc |-> run[k].pc, mode |-> run[k].mode, n |-> run[k].n,
                     saw |-> run[k].saw, list |-> run[k].list, late |-> l]
      BY <1>2
    <3> HIDE DEF l
    <3>2. run'[k].late = l /\ run'[k].pc = run[k].pc /\ run'[k].n = run[k].n
      BY <3>1
    <3> QED BY <3>2 DEF l
  <2>1. ASSUME task = 5, NEW i \in CandidateRow, NEW x \in Held(At(Candidates[i]))'
        PROVE  Accounted(k, i, x)'
    <3>1. At(Candidates[i]) \in Places
      BY <2>1, CandidatesHavePlaces
    <3>2. CASE At(Candidates[i]) = p
      <4>1. content # Absent /\ x \in content
        BY <1>1, <2>1, <3>1, <3>2 DEF Held, Present
      <4> QED BY <2>0, <1>p, <3>2, <4>1 DEF Accounted
    <3>3. CASE At(Candidates[i]) # p
      <4>1. x \in Held(At(Candidates[i]))
        BY <1>1, <2>1, <3>1, <3>3 DEF Held, Present
      <4>2. Accounted(k, i, x)
        BY <2>1, <4>1 DEF StorageIInv, Knows, CandidateRow
      <4> QED BY <2>0, <1>q, <1>u, <4>2 DEF Accounted, Compared, Hashed
    <3> QED BY <3>2, <3>3
  <2> QED BY <2>0, <1>u, <2>1 DEF StorageIInv, Knows, CandidateRow
<1> QED BY <1>5, <1>6, <1>u DEF StorageIInv, DeletesApproved

\* A step of one run in a disk that stays one.
LEMMA StepShape ==
  ASSUME Shape, UNCHANGED task, NEW k \in Runs, NEW to, Step(k, to), RunShape(to),
         task = 5 => disk' = [p \in Places |-> disk'[p]]
  PROVE  Shape' /\ run'[k] = to /\ \A j \in Runs \ {k} : run'[j] = run[j]
<1>1. Places' = Places
  BY DEF Places
<1>2. run'[k] = to /\ run' = [j \in Runs |-> run'[j]] /\ \A j \in Runs \ {k} : run'[j] = run[j]
  BY DEF Shape, Step
<1>3. \A j \in Runs : RunShape(run'[j])
  BY <1>2 DEF Shape
<1> QED BY <1>1, <1>2, <1>3 DEF Shape, RunShape

\* The states a run is given.
RunRecord(pc, mode, n, saw, list, late) ==
  [pc |-> pc, mode |-> mode, n |-> n, saw |-> saw, list |-> list, late |-> late]

LEMMA RecordShape ==
  ASSUME NEW pc, NEW mode, NEW n \in Nat, NEW saw, NEW list, NEW late,
         NEW s, s = RunRecord(pc, mode, n, saw, list, late)
  PROVE  /\ RunShape(s)
         /\ s.pc = pc /\ s.mode = mode /\ s.n = n /\ s.saw = saw /\ s.list = list /\ s.late = late
BY DEF RunShape, RunRecord

LEMMA ShapeRecord ==
  ASSUME NEW s, RunShape(s)
  PROVE  s = RunRecord(s.pc, s.mode, s.n, s.saw, s.list, s.late) /\ s.n \in Nat
BY DEF RunShape, RunRecord

\* One field of a run, as a record.
LEMMA Written ==
  ASSUME NEW s, RunShape(s), NEW x
  PROVE  /\ [s EXCEPT !.pc = x] = RunRecord(x, s.mode, s.n, s.saw, s.list, s.late)
         /\ [s EXCEPT !.mode = x] = RunRecord(s.pc, x, s.n, s.saw, s.list, s.late)
         /\ [s EXCEPT !.n = x] = RunRecord(s.pc, s.mode, x, s.saw, s.list, s.late)
         /\ [s EXCEPT !.saw = x] = RunRecord(s.pc, s.mode, s.n, x, s.list, s.late)
         /\ [s EXCEPT !.list = x] = RunRecord(s.pc, s.mode, s.n, s.saw, x, s.late)
         /\ [s EXCEPT !.late = x] = RunRecord(s.pc, s.mode, s.n, s.saw, s.list, x)
<1>1. s = [pc |-> s.pc, mode |-> s.mode, n |-> s.n, saw |-> s.saw, list |-> s.list, late |-> s.late]
  BY DEF RunShape
<1> QED BY <1>1 DEF RunRecord

\* Two fields, one after the other.
LEMMA PcAndN ==
  ASSUME NEW s, RunShape(s), NEW pc, NEW n \in Nat
  PROVE  [s EXCEPT !.pc = pc, !.n = n] = RunRecord(pc, s.mode, n, s.saw, s.list, s.late)
<1>1. PICK t : t = [s EXCEPT !.pc = pc] /\ [s EXCEPT !.pc = pc, !.n = n] = [t EXCEPT !.n = n]
  BY Zenon
<1>2. t = RunRecord(pc, s.mode, s.n, s.saw, s.list, s.late) /\ s.n \in Nat
  BY <1>1, Written DEF RunShape
<1> DEFINE w == [t EXCEPT !.n = n]
<1>3. RunShape(t) /\ t.mode = s.mode /\ t.pc = pc /\ t.saw = s.saw /\ t.list = s.list /\ t.late = s.late
  BY <1>2, RecordShape
<1>4. w = RunRecord(pc, s.mode, n, s.saw, s.list, s.late)
  <2>1. t = [pc |-> pc, mode |-> s.mode, n |-> s.n, saw |-> s.saw, list |-> s.list, late |-> s.late]
    BY <1>2 DEF RunRecord
  <2> QED BY <2>1 DEF RunRecord
<1>5. [s EXCEPT !.pc = pc, !.n = n] = w
  BY <1>1, Zenon
<1> QED BY <1>4, <1>5, Zenon

Failed == [Idle EXCEPT !.pc = "failed"]

LEMMA FailedShape ==
  ASSUME NEW s, s = Idle \/ s = Failed
  PROVE  RunShape(s) /\ s.pc \in {"idle", "failed"} /\ s.n = 1
<1>1. RunShape(Idle) /\ Idle.pc = "idle" /\ Idle.n = 1
  BY DEF RunShape, Idle
<1>2. Failed = RunRecord("failed", Idle.mode, Idle.n, Idle.saw, Idle.list, Idle.late)
  BY <1>1, Written, Zenon DEF Failed
<1>3. Idle.n \in Nat
  BY <1>1, ShapeRecord
<1>4. CASE s = Idle
  BY <1>1, <1>4
<1>5. CASE s = Failed
  BY <1>1, <1>2, <1>3, <1>5, RecordShape
<1> QED BY <1>4, <1>5

\* A run that fails, is killed or begins again has nothing to keep.
LEMMA EndKeeps ==
  ASSUME StorageIInv, NEW k \in Runs, NEW to, to = Idle \/ to = Failed, Step(k, to),
         task = 5 => \A j \in Runs \ {k} : read'[j] = read[j],
         UNCHANGED <<task, receipt, disk, recorded, strays>>
  PROVE  StorageIInv'
<1>1. RunShape(to) /\ to.pc \in {"idle", "failed"} /\ to.n = 1
  BY FailedShape
<1>2. Shape' /\ run'[k] = to /\ \A j \in Runs \ {k} : run'[j] = run[j]
  BY <1>1, StepShape DEF StorageIInv, Shape
<1>3. ASSUME NEW j \in Runs PROVE Knows(j)'
  <2>1. CASE j = k
    BY <1>1, <1>2, <2>1, KnowsNothing
  <2>2. CASE j # k
    <3>1. \A i \in CandidateRow : Held(At(Candidates[i]))' = Held(At(Candidates[i]))
      BY DEF Held, Present
    <3> QED BY <1>2, <2>2, <3>1, KnowsOn DEF StorageIInv
  <2> QED BY <2>1, <2>2
<1> QED BY <1>2, <1>3 DEF StorageIInv, DeletesApproved

LEMMA PcAndMode ==
  ASSUME NEW s, RunShape(s), NEW pc, NEW mode
  PROVE  [s EXCEPT !.pc = pc, !.mode = mode] = RunRecord(pc, mode, s.n, s.saw, s.list, s.late)
<1>1. PICK t : t = [s EXCEPT !.pc = pc] /\ [s EXCEPT !.pc = pc, !.mode = mode] = [t EXCEPT !.mode = mode]
  BY Zenon
<1>2. t = [pc |-> pc, mode |-> s.mode, n |-> s.n, saw |-> s.saw, list |-> s.list, late |-> s.late]
  BY <1>1, Written, Zenon DEF RunRecord
<1>3. [t EXCEPT !.mode = mode] = RunRecord(pc, mode, s.n, s.saw, s.list, s.late)
  BY <1>2 DEF RunRecord
<1> QED BY <1>1, <1>3, Zenon

LEMMA PcAndList ==
  ASSUME NEW s, RunShape(s), NEW pc, NEW list
  PROVE  [s EXCEPT !.pc = pc, !.list = list] = RunRecord(pc, s.mode, s.n, s.saw, list, s.late)
<1>1. PICK t : t = [s EXCEPT !.pc = pc] /\ [s EXCEPT !.pc = pc, !.list = list] = [t EXCEPT !.list = list]
  BY Zenon
<1>2. t = [pc |-> pc, mode |-> s.mode, n |-> s.n, saw |-> s.saw, list |-> s.list, late |-> s.late]
  BY <1>1, Written, Zenon DEF RunRecord
<1>3. [t EXCEPT !.list = list] = RunRecord(pc, s.mode, s.n, s.saw, list, s.late)
  BY <1>2 DEF RunRecord
<1> QED BY <1>1, <1>3, Zenon

Looked(s, pc, saw, late) == [s EXCEPT !.pc = pc, !.saw = saw, !.late = late]

LEMMA PcSawAndLate ==
  ASSUME NEW s, RunShape(s), NEW pc, NEW saw, NEW late
  PROVE  Looked(s, pc, saw, late) = RunRecord(pc, s.mode, s.n, saw, s.list, late)
<1>1. PICK t : /\ t = [s EXCEPT !.pc = pc]
               /\ [s EXCEPT !.pc = pc, !.saw = saw, !.late = late] = [t EXCEPT !.saw = saw, !.late = late]
  BY Zenon
<1>2. t = [pc |-> pc, mode |-> s.mode, n |-> s.n, saw |-> s.saw, list |-> s.list, late |-> s.late]
  BY <1>1, Written, Zenon DEF RunRecord
<1>3. PICK u : u = [t EXCEPT !.saw = saw] /\ [t EXCEPT !.saw = saw, !.late = late] = [u EXCEPT !.late = late]
  BY Zenon
<1>4. [t EXCEPT !.saw = saw]
        = [pc |-> pc, mode |-> s.mode, n |-> s.n, saw |-> saw, list |-> s.list, late |-> s.late]
  BY <1>2
<1>5. u = [pc |-> pc, mode |-> s.mode, n |-> s.n, saw |-> saw, list |-> s.list, late |-> s.late]
  BY <1>3, <1>4, Zenon
<1>6. [u EXCEPT !.late = late] = RunRecord(pc, s.mode, s.n, saw, s.list, late)
  BY <1>5 DEF RunRecord
<1> QED BY <1>1, <1>3, <1>6, Zenon DEF Looked

\* A step of one run, when what it comes to know is accounted for.
LEMMA StepKeeps ==
  ASSUME StorageIInv, NEW k \in Runs, NEW to, Step(k, to), RunShape(to),
         UNCHANGED <<task, receipt>>,
         task = 5 => \A j \in Runs \ {k} : read'[j] = read[j],
         task = 5 => disk' = [p \in Places |-> disk'[p]],
         recorded \subseteq recorded', strays' = {},
         task = 5 => \A i \in CandidateRow : Held(At(Candidates[i]))' \subseteq Held(At(Candidates[i])),
         to.pc \notin {"idle", "failed"} => receipt.yes,
         task = 5 /\ to.pc \in Fresh => to.n = 1,
         run'[k] = to =>
           (task = 5 => \A i \in CandidateRow : \A x \in Held(At(Candidates[i]))' : Accounted(k, i, x)')
  PROVE  StorageIInv'
<1>1. Shape' /\ run'[k] = to /\ \A j \in Runs \ {k} : run'[j] = run[j]
  BY StepShape DEF StorageIInv
<1>2. Knows(k)'
  BY <1>1 DEF Knows, CandidateRow
<1>3. ASSUME NEW j \in Runs \ {k} PROVE Knows(j)'
  BY <1>1, KnowsOn DEF StorageIInv
<1> QED BY <1>1, <1>2, <1>3 DEF StorageIInv, DeletesApproved

\* Goto, as a record.
LEMMA GotoRecord ==
  ASSUME StorageIInv, NEW k \in Runs, NEW pc, Goto(k, pc)
  PROVE  \E to : /\ Step(k, to) /\ RunShape(to)
                 /\ to.pc = pc /\ to.n = run[k].n /\ to.late = run[k].late
<1>1. RunShape(run[k])
  BY DEF StorageIInv, Shape
<1> DEFINE to == [run[k] EXCEPT !.pc = pc]
<1>2. to = RunRecord(pc, run[k].mode, run[k].n, run[k].saw, run[k].list, run[k].late)
  BY <1>1, Written, Zenon
<1>3. Step(k, to)
  BY Zenon DEF Goto
<1> HIDE DEF to
<1>4. run[k].n \in Nat
  BY <1>1, ShapeRecord
<1>5. /\ RunShape(to) /\ to.pc = pc /\ to.n = run[k].n /\ to.late = run[k].late
  BY <1>2, <1>4, RecordShape
<1> QED BY <1>3, <1>5

(***************************************************************************)
(* Task 4: its runs delete nothing of task 5.                              *)
(***************************************************************************)
LEMMA MoveTo ==
  ASSUME StorageIInv, task = 4, receipt.yes, NEW k \in Runs, NEW to, Step(k, to), RunShape(to),
         UNCHANGED <<task, receipt, recorded, strays>>
  PROVE  StorageIInv'
BY StepKeeps DEF StorageIInv, DeletesApproved

LEMMA NextRowShape ==
  ASSUME StorageIInv, NEW k \in Runs
  PROVE  RunShape(NextRow(k)) /\ RunShape(Checked(k, Row(k)))
<1>1. RunShape(run[k])
  BY DEF StorageIInv, Shape
<1>2. run[k].n + 1 \in Nat
  BY <1>1 DEF RunShape
<1>3. NextRow(k) = RunRecord("row", run[k].mode, run[k].n + 1, run[k].saw, run[k].list, run[k].late)
  BY <1>1, <1>2, PcAndN, Zenon DEF NextRow
<1>4. RunShape(NextRow(k))
  BY <1>2, <1>3, RecordShape
<1> DEFINE t == NextRow(k)
           late == IF Present(From(Row(k))) THEN t.late ELSE t.late \ Lately(k, Ends(Row(k)))
<1> HIDE DEF t, late
<1>5. Checked(k, Row(k)) = [t EXCEPT !.late = late]
  BY Zenon DEF Checked, t, late
<1>6. [t EXCEPT !.late = late] = RunRecord(t.pc, t.mode, t.n, t.saw, t.list, late)
  BY <1>4, Written, Zenon DEF t
<1>7. t.n \in Nat
  BY <1>4, ShapeRecord DEF t
<1>8. Checked(k, Row(k)) = RunRecord(t.pc, t.mode, t.n, t.saw, t.list, late)
  BY <1>5, <1>6, Zenon
<1>9. RunShape(Checked(k, Row(k)))
  BY <1>7, <1>8, RecordShape
<1> QED BY <1>4, <1>9

LEMMA GotoMove ==
  ASSUME StorageIInv, task = 4, receipt.yes, NEW k \in Runs, NEW pc, Goto(k, pc),
         UNCHANGED <<task, receipt, recorded, strays>>
  PROVE  StorageIInv'
BY GotoRecord, MoveTo

LEMMA FailKeeps ==
  ASSUME StorageIInv, NEW k \in Runs, Fail(k),
         task = 5 => \A j \in Runs \ {k} : read'[j] = read[j],
         UNCHANGED <<task, receipt, disk, recorded, strays>>
  PROVE  StorageIInv'
<1>1. Step(k, Failed)
  BY Zenon DEF Fail, Failed
<1> QED BY <1>1, EndKeeps

LEMMA MoveStepKeeps ==
  ASSUME StorageIInv, NEW k \in Runs, MoveStep(k)
  PROVE  StorageIInv'
<1>1. UNCHANGED <<task, receipt, recorded, strays>>
  BY DEF MoveStep, approval
<1>2. task = 4
  BY DEF MoveStep, Ask, Admit, Audit, ReadRows, LookAtSource, LookAtTarget, Identify, Rename, Verify,
         LookAtEmpty, RemoveEmpty, LookAtBuild, RemoveBuild, Moving, Removing, AtRow, AllRows
<1>3. run[k].pc \notin {"idle", "failed"} => receipt.yes
  BY DEF StorageIInv, Knows
<1>4. RunShape(run[k])
  BY DEF StorageIInv, Shape
<1>5. RunShape(NextRow(k)) /\ RunShape(Checked(k, Row(k)))
  BY NextRowShape
<1>a. CASE Ask(k)
  <2>1. receipt.yes /\ Goto(k, "asked")
    BY <1>a DEF Ask, Approved
  <2> QED BY <1>1, <1>2, <2>1, GotoMove
<1>b. CASE Admit(k)
  <2>1. (Fail(k) /\ UNCHANGED disk) \/ Goto(k, "open")
    BY <1>b DEF Admit
  <2>2. receipt.yes
    BY <1>b, <1>3 DEF Admit
  <2> QED BY <1>1, <1>2, <2>1, <2>2, GotoMove, FailKeeps
<1>c. CASE Audit(k)
  <2> DEFINE to == [run[k] EXCEPT !.pc = "open", !.mode = "audit"]
  <2>1. to = RunRecord("open", "audit", run[k].n, run[k].saw, run[k].list, run[k].late)
    BY <1>4, PcAndMode, Zenon
  <2>2. Step(k, to)
    BY <1>c, Zenon DEF Audit
  <2>3. receipt.yes
    BY <1>c DEF Audit, Approved
  <2> HIDE DEF to
  <2>4. run[k].n \in Nat
    BY <1>4, ShapeRecord
  <2>5. RunShape(to)
    BY <2>1, <2>4, RecordShape
  <2> QED BY <1>1, <1>2, <2>2, <2>3, <2>5, MoveTo
<1>k. CASE ReadRows(k)
  <2>1. receipt.yes /\ Goto(k, "row")
    BY <1>k, <1>3 DEF ReadRows
  <2> QED BY <1>1, <1>2, <2>1, GotoMove
<1>d. CASE LookAtSource(k)
  <2> DEFINE saw == Present(From(Row(k)))
             late == run[k].late \ Lately(k, Ends(Row(k)))
             to == Looked(run[k], "target", saw, late)
  <2>1. Step(k, to)
    BY <1>d, Zenon DEF LookAtSource, Looked
  <2>2. receipt.yes
    BY <1>d, <1>3 DEF LookAtSource, Moving, AtRow
  <2> HIDE DEF saw, late
  <2>3. to = RunRecord("target", run[k].mode, run[k].n, saw, run[k].list, late)
    BY <1>4, PcSawAndLate
  <2> HIDE DEF to
  <2>4. run[k].n \in Nat
    BY <1>4, ShapeRecord
  <2>5. RunShape(to)
    BY <2>3, <2>4, RecordShape
  <2> QED BY <1>1, <1>2, <2>1, <2>2, <2>5, MoveTo
<1>e. CASE LookAtTarget(k)
  <2>1. (Fail(k) /\ UNCHANGED disk) \/ Goto(k, "identify")
    BY <1>e DEF LookAtTarget
  <2>2. receipt.yes
    BY <1>e, <1>3 DEF LookAtTarget, Moving, AtRow
  <2> QED BY <1>1, <1>2, <2>1, <2>2, GotoMove, FailKeeps
<1>f. CASE Identify(k)
  <2>1. (Fail(k) /\ UNCHANGED disk) \/ Goto(k, "rename") \/ Step(k, NextRow(k))
    BY <1>f DEF Identify
  <2>2. receipt.yes
    BY <1>f, <1>3 DEF Identify, Moving, AtRow
  <2> QED BY <1>1, <1>2, <1>5, <2>1, <2>2, GotoMove, FailKeeps, MoveTo
<1>g. CASE Rename(k)
  <2>1. (Fail(k) /\ UNCHANGED disk) \/ Goto(k, "verify")
    BY <1>g, Zenon DEF Rename
  <2>2. receipt.yes
    BY <1>g, <1>3, Zenon DEF Rename, Moving, AtRow
  <2> QED BY <1>1, <1>2, <2>1, <2>2, GotoMove, FailKeeps
<1>h. CASE Verify(k)
  <2>1. (Fail(k) /\ UNCHANGED disk) \/ Step(k, Checked(k, Row(k)))
    BY <1>h DEF Verify
  <2>2. receipt.yes
    BY <1>h, <1>3 DEF Verify, Moving, AtRow
  <2> QED BY <1>1, <1>2, <1>5, <2>1, <2>2, FailKeeps, MoveTo
<1>i. CASE LookAtEmpty(k)
  <2>1. (Fail(k) /\ UNCHANGED disk) \/ Goto(k, "rmdir") \/ Step(k, NextRow(k))
    BY <1>i DEF LookAtEmpty
  <2>2. receipt.yes
    BY <1>i, <1>3 DEF LookAtEmpty, Removing, AtRow
  <2> QED BY <1>1, <1>2, <1>5, <2>1, <2>2, GotoMove, FailKeeps, MoveTo
<1>j. CASE RemoveEmpty(k)
  <2>1. (Fail(k) /\ UNCHANGED disk) \/ Step(k, NextRow(k))
    BY <1>j, Zenon DEF RemoveEmpty
  <2>2. receipt.yes
    BY <1>j, <1>3, Zenon DEF RemoveEmpty, Removing, AtRow
  <2> QED BY <1>1, <1>2, <1>5, <2>1, <2>2, FailKeeps, MoveTo
<1>l. CASE LookAtBuild(k)
  <2>1. (Fail(k) /\ UNCHANGED disk) \/ Goto(k, "rmbuild") \/ Goto(k, "passed")
    BY <1>l DEF LookAtBuild
  <2>2. receipt.yes
    BY <1>l, <1>3 DEF LookAtBuild
  <2> QED BY <1>1, <1>2, <2>1, <2>2, GotoMove, FailKeeps
<1>m. CASE RemoveBuild(k)
  <2>1. (Fail(k) /\ UNCHANGED disk) \/ Goto(k, "passed")
    BY <1>m, Zenon DEF RemoveBuild
  <2>2. receipt.yes
    BY <1>m, <1>3, Zenon DEF RemoveBuild
  <2> QED BY <1>1, <1>2, <2>1, <2>2, GotoMove, FailKeeps
<1> QED BY <1>a, <1>b, <1>c, <1>d, <1>e, <1>f, <1>g, <1>h, <1>i, <1>j, <1>k, <1>l, <1>m DEF MoveStep

(***************************************************************************)
(* Task 5.                                                                 *)
(***************************************************************************)
\* What the steps write into a run.
LEMMA CleanupRecords ==
  ASSUME StorageIInv, NEW k \in Runs, NEW pc
  PROVE  /\ RunShape(NextOf(k, pc)) /\ NextOf(k, pc).pc = pc
         /\ NextOf(k, pc).n = run[k].n + 1 /\ NextOf(k, pc).late = run[k].late
         /\ RunShape(Restart(k, pc)) /\ Restart(k, pc).pc = pc
         /\ Restart(k, pc).n = 1 /\ Restart(k, pc).late = run[k].late
<1>1. RunShape(run[k])
  BY DEF StorageIInv, Shape
<1>2. run[k].n + 1 \in Nat /\ 1 \in Nat
  BY <1>1 DEF RunShape
<1>3. NextOf(k, pc) = RunRecord(pc, run[k].mode, run[k].n + 1, run[k].saw, run[k].list, run[k].late)
  BY <1>1, <1>2, PcAndN, Zenon DEF NextOf
<1>4. Restart(k, pc) = RunRecord(pc, run[k].mode, 1, run[k].saw, run[k].list, run[k].late)
  BY <1>1, <1>2, PcAndN, Zenon DEF Restart
<1>5. /\ RunShape(NextOf(k, pc)) /\ NextOf(k, pc).pc = pc
      /\ NextOf(k, pc).n = run[k].n + 1 /\ NextOf(k, pc).late = run[k].late
  BY <1>2, <1>3, RecordShape
<1>6. /\ RunShape(Restart(k, pc)) /\ Restart(k, pc).pc = pc
      /\ Restart(k, pc).n = 1 /\ Restart(k, pc).late = run[k].late
  BY <1>2, <1>4, RecordShape
<1> QED BY <1>5, <1>6

\* The late files and the list of a run.
WithLate(s, late) == [s EXCEPT !.late = late]
WithList(s, list) == [s EXCEPT !.list = list]

LEMMA FieldRecords ==
  ASSUME NEW s, RunShape(s), NEW x
  PROVE  /\ RunShape(WithLate(s, x)) /\ WithLate(s, x).pc = s.pc
         /\ WithLate(s, x).n = s.n /\ WithLate(s, x).late = x
         /\ RunShape(WithList(s, x)) /\ WithList(s, x).pc = s.pc
         /\ WithList(s, x).n = s.n /\ WithList(s, x).late = s.late
<1>1. WithLate(s, x) = RunRecord(s.pc, s.mode, s.n, s.saw, s.list, x)
  BY Written, Zenon DEF WithLate
<1>2. WithList(s, x) = RunRecord(s.pc, s.mode, s.n, s.saw, x, s.late)
  BY Written, Zenon DEF WithList
<1>3. s.n \in Nat
  BY ShapeRecord
<1>4. /\ RunShape(WithLate(s, x)) /\ WithLate(s, x).pc = s.pc
      /\ WithLate(s, x).n = s.n /\ WithLate(s, x).late = x
  BY <1>1, <1>3, RecordShape
<1>5. /\ RunShape(WithList(s, x)) /\ WithList(s, x).pc = s.pc
      /\ WithList(s, x).n = s.n /\ WithList(s, x).late = s.late
  BY <1>2, <1>3, RecordShape
<1> QED BY <1>4, <1>5

\* What a run has found out so far.
LEMMA KnownSoFar ==
  ASSUME StorageIInv, NEW k \in Runs, task = 5
  PROVE  /\ run[k].pc \notin {"idle", "failed"} => receipt.yes
         /\ run[k].pc \in Fresh => run[k].n = 1
         /\ \A i \in CandidateRow : \A x \in Held(At(Candidates[i])) : Accounted(k, i, x)
         /\ run[k].n \in Nat /\ CandidateRow = 1..Len(Candidates) /\ Len(Candidates) \in Nat
         /\ \A i \in CandidateRow : At(Candidates[i]) \in Places
         /\ disk = [p \in Places |-> disk[p]] /\ (Places' = Places \/ task' # task)
BY RowsAreNumbers, CandidatesHavePlaces DEF StorageIInv, Knows, Shape, RunShape, CandidateRow, Places

\* Steps that only look at the disk.
LEMMA LookKeeps ==
  ASSUME StorageIInv, task = 5, NEW k \in Runs, NEW to, Step(k, to), RunShape(to), receipt.yes,
         UNCHANGED <<task, receipt, disk, strays>>, recorded \subseteq recorded',
         \A j \in Runs \ {k} : read'[j] = read[j],
         to.pc \in Fresh => to.n = 1,
         run'[k] = to =>
           \A i \in CandidateRow : \A x \in Held(At(Candidates[i])) :
             Accounted(k, i, x) => Accounted(k, i, x)'
  PROVE  StorageIInv'
<1>1. \A i \in CandidateRow : Held(At(Candidates[i]))' = Held(At(Candidates[i]))
  BY DEF Held, Present
<1>2. task = 5 => disk' = [p \in Places |-> disk'[p]]
  BY KnownSoFar
<1>3. strays' = {}
  BY DEF StorageIInv, DeletesApproved
<1>4. run'[k] = to =>
        (task = 5 => \A i \in CandidateRow : \A x \in Held(At(Candidates[i]))' : Accounted(k, i, x)')
  BY <1>1, KnownSoFar
<1> QED BY <1>1, <1>2, <1>3, <1>4, StepKeeps

\* What the two openings of the manifest leave alone.
LEMMA ReadingOf ==
  ASSUME Readings, NEW k \in Runs, CheckDigest(k) \/ ReadManifest(k)
  PROVE  /\ read' = [j \in Runs |-> read'[j]] /\ rewritten' = [j \in Runs |-> rewritten'[j]]
         /\ \A j \in Runs \ {k} : read'[j] = read[j] /\ rewritten'[j] = rewritten[j]
         /\ ReadManifest(k) => read'[k] = inventory.rows /\ rewritten'[k] = rewritten[k]
         /\ CheckDigest(k) => ~rewritten'[k] /\ \A j \in Runs : rewritten'[j] \in BOOLEAN
BY DEF Readings, CheckDigest, ReadManifest

LEMMA AskKeeps ==
  ASSUME StorageIInv, Readings, NEW k \in Runs, CleanupStep(k),
         AskCleanup(k) \/ AdmitCleanup(k) \/ ReadCleanupRows(k) \/ Conclude(k)
  PROVE  StorageIInv'
<1>1. task = 5 /\ UNCHANGED <<task, receipt, disk, recorded, strays>>
  BY DEF CleanupStep, approval, AskCleanup, AdmitCleanup, ReadCleanupRows, Conclude, Through
<1>r. \A j \in Runs \ {k} : read'[j] = read[j]
  <2>1. CASE UNCHANGED reading
    BY <2>1 DEF reading
  <2>2. CASE CheckDigest(k) \/ ReadManifest(k)
    BY <2>2, ReadingOf
  <2> QED BY <2>1, <2>2 DEF CleanupStep, AdmitCleanup, ReadCleanupRows
<1>2. ASSUME receipt.yes, NEW pc \in {"asked", "open", "passed", "collect"}, Goto(k, pc),
             pc # "passed" => run[k].pc \in Fresh
      PROVE  StorageIInv'
  <2>2. PICK to : /\ Step(k, to) /\ RunShape(to)
                  /\ to.pc = pc /\ to.n = run[k].n /\ to.late = run[k].late
    BY <1>2, GotoRecord
  <2>3. to.pc \in Fresh \cup {"collect"} => to.n = 1
    BY <1>1, <1>2, <2>2, KnownSoFar DEF Fresh
  <2>4. ASSUME run'[k] = to, NEW i \in CandidateRow, NEW x \in Held(At(Candidates[i]))
        PROVE  Accounted(k, i, x)'
    <3>1. i \in 1..Len(Candidates)
      BY <1>1, KnownSoFar
    <3>2. ~Compared(k, i)' /\ ~Hashed(k, i)'
      BY <1>1, <1>2, <2>2, <2>3, <2>4, <3>1, KnownSoFar DEF Compared, Hashed
    <3> QED BY <3>2 DEF Accounted
  <2> QED BY <1>1, <1>r, <1>2, <2>2, <2>3, <2>4, LookKeeps
<1>3. Fail(k) \/ receipt.yes
  BY <1>1, KnownSoFar DEF AskCleanup, AdmitCleanup, ReadCleanupRows, Conclude, Approved, Through
<1>4. \/ Fail(k)
      \/ Goto(k, "passed")
      \/ Goto(k, "collect") /\ run[k].pc \in Fresh
      \/ Goto(k, "open") /\ run[k].pc \in Fresh
      \/ Goto(k, "asked") /\ run[k].pc \in Fresh
  BY DEF AskCleanup, AdmitCleanup, ReadCleanupRows, Conclude, Fresh
<1> QED BY <1>1, <1>r, <1>2, <1>3, <1>4, FailKeeps

LEMMA CollectKeeps ==
  ASSUME StorageIInv, NEW k \in Runs, UNCHANGED reading, CleanupStep(k), Collect(k)
  PROVE  StorageIInv'
<1>1. /\ task = 5 /\ run[k].pc = "collect" /\ run[k].n \in CandidateRow
      /\ UNCHANGED <<task, receipt, disk, recorded, strays, read>>
  BY DEF reading, CleanupStep, approval, Collect, AtNth, CandidateRow
<1> DEFINE t == NextOf(k, "collect")
           late == t.late \ Lately(k, {Nth(k)})
           to == WithLate(t, late)
<1>2. CASE ~AsApproved(k, Nth(k))
  BY <1>1, <1>2, FailKeeps DEF Collect
<1>3. CASE AsApproved(k, Nth(k))
  <2>1. Step(k, to)
    BY <1>3, Zenon DEF Collect, WithLate
  <2>2. RunShape(t) /\ t.pc = "collect" /\ t.n = run[k].n + 1 /\ t.late = run[k].late
    BY CleanupRecords
  <2> HIDE DEF t, late
  <2>3. RunShape(to) /\ to.pc = "collect" /\ to.n = run[k].n + 1 /\ to.late = late
    BY <2>2, FieldRecords
  <2>4. \A l \in run[k].late : l[1] # Nth(k) => l \in late
    BY <2>2 DEF Lately, late
  <2> HIDE DEF to
  <2>5. ASSUME run'[k] = to, NEW i \in CandidateRow, NEW x \in Held(At(Candidates[i])), Accounted(k, i, x)
        PROVE  Accounted(k, i, x)'
    <3>1. run[k].n \in Nat /\ i \in Nat
      BY <1>1, KnownSoFar
    <3>2. ~Hashed(k, i)'
      BY <2>3, <2>5 DEF Hashed
    <3>3. CASE At(Candidates[i]) = Nth(k)
      <4>1. x \in read[k][At(Candidates[i])]
        BY <1>3, <2>5, <3>3 DEF AsApproved, Identity, Held
      <4> QED BY <1>1, <3>2, <4>1 DEF Accounted
    <3>4. CASE At(Candidates[i]) # Nth(k)
      <4>1. i # run[k].n
        BY <3>4 DEF Nth
      <4>2. Compared(k, i)' => Compared(k, i)
        BY <1>1, <2>3, <2>5, <3>1, <4>1 DEF Compared
      <4>3. <<At(Candidates[i]), x>> \in run[k].late => <<At(Candidates[i]), x>> \in late
        BY <2>4, <3>4
      <4> QED BY <1>1, <2>3, <2>5, <3>2, <4>2, <4>3 DEF Accounted
    <3> QED BY <3>3, <3>4
  <2>6. receipt.yes
    BY <1>1, KnownSoFar
  <2> QED BY <1>1, <2>1, <2>3, <2>5, <2>6, LookKeeps DEF Fresh
<1> QED BY <1>2, <1>3

LEMMA CompareKeeps ==
  ASSUME StorageIInv, NEW k \in Runs, UNCHANGED reading, CleanupStep(k), CompareRetained(k) \/ BeginDeletion(k)
  PROVE  StorageIInv'
<1>1. /\ task = 5 /\ run[k].n > Len(Candidates)
      /\ UNCHANGED <<task, receipt, disk, recorded, strays, read>>
  BY DEF reading, CleanupStep, approval, CompareRetained, BeginDeletion, Through
<1>2. CASE Fail(k)
  BY <1>1, <1>2, FailKeeps
<1>3. ASSUME NEW pc, Step(k, Restart(k, pc)),
             \/ run[k].pc = "collect" /\ pc = "hash"
             \/ run[k].pc = "hash" /\ pc = "delete"
      PROVE  StorageIInv'
  <2> DEFINE to == Restart(k, pc)
  <2>1. RunShape(to) /\ to.pc = pc /\ to.n = 1 /\ to.late = run[k].late
    BY CleanupRecords
  <2> HIDE DEF to
  <2>2. ASSUME run'[k] = to, NEW i \in CandidateRow, NEW x \in Held(At(Candidates[i])), Accounted(k, i, x)
        PROVE  Accounted(k, i, x)'
    <3>1. run[k].n \in Nat /\ i \in 1..Len(Candidates) /\ Len(Candidates) \in Nat
      BY <1>1, KnownSoFar
    <3>2. Compared(k, i)
      BY <1>1, <1>3, <3>1 DEF Compared
    <3>3. Hashed(k, i)' => Hashed(k, i)
      BY <1>1, <1>3, <2>1, <2>2, <3>1 DEF Hashed
    <3> QED BY <1>1, <2>1, <2>2, <3>2, <3>3 DEF Accounted
  <2>3. receipt.yes
    BY <1>1, <1>3, KnownSoFar
  <2>4. Step(k, to)
    BY <1>3 DEF to
  <2>5. to.pc \in Fresh => to.n = 1
    BY <2>1
  <2> QED BY <1>1, <2>1, <2>2, <2>3, <2>4, <2>5, LookKeeps
<1>4. \/ Fail(k)
      \/ run[k].pc = "collect" /\ Step(k, Restart(k, "hash"))
      \/ run[k].pc = "hash" /\ Step(k, Restart(k, "delete"))
  BY DEF CompareRetained, BeginDeletion, Through
<1> QED BY <1>2, <1>3, <1>4

LEMMA HashKeeps ==
  ASSUME StorageIInv, NEW k \in Runs, UNCHANGED reading, CleanupStep(k), Hash(k)
  PROVE  StorageIInv'
<1>1. /\ task = 5 /\ run[k].pc = "hash" /\ run[k].n \in CandidateRow
      /\ UNCHANGED <<task, receipt, disk, strays, read>>
  BY DEF reading, CleanupStep, approval, Hash, AtNth, CandidateRow
<1>2. CASE ~Present(Nth(k))
  BY <1>1, <1>2, FailKeeps DEF Hash
<1>3. CASE Present(Nth(k))
  <2> DEFINE to == NextOf(k, "hash")
  <2>1. /\ recorded' = recorded \cup {<<Nth(k), x>> : x \in disk[Nth(k)]}
        /\ Step(k, to)
    BY <1>3 DEF Hash
  <2>2. RunShape(to) /\ to.pc = "hash" /\ to.n = run[k].n + 1 /\ to.late = run[k].late
    BY CleanupRecords
  <2> HIDE DEF to
  <2>3. ASSUME run'[k] = to, NEW i \in CandidateRow, NEW x \in Held(At(Candidates[i])), Accounted(k, i, x)
        PROVE  Accounted(k, i, x)'
    <3>1. run[k].n \in Nat /\ i \in Nat
      BY <1>1, KnownSoFar
    <3>2. Compared(k, i)
      BY <1>1 DEF Compared
    <3>3. CASE i = run[k].n
      <4>1. <<At(Candidates[i]), x>> \in recorded'
        BY <1>3, <2>1, <2>3, <3>3 DEF Held, Nth
      <4> QED BY <1>1, <2>2, <2>3, <3>2, <4>1 DEF Accounted
    <3>4. CASE i # run[k].n
      <4>1. Hashed(k, i)' => Hashed(k, i)
        BY <1>1, <2>2, <2>3, <3>1, <3>4 DEF Hashed
      <4> QED BY <1>1, <2>1, <2>2, <2>3, <3>2, <4>1 DEF Accounted
    <3> QED BY <3>3, <3>4
  <2>4. receipt.yes
    BY <1>1, KnownSoFar
  <2>5. recorded \subseteq recorded'
    BY <2>1
  <2> QED BY <1>1, <2>1, <2>2, <2>3, <2>4, <2>5, LookKeeps DEF Fresh
<1> QED BY <1>2, <1>3

LEMMA ListKeeps ==
  ASSUME StorageIInv, NEW k \in Runs, UNCHANGED reading, CleanupStep(k), List(k)
  PROVE  StorageIInv'
<1>1. /\ task = 5 /\ run[k].pc = "delete"
      /\ UNCHANGED <<task, receipt, disk, recorded, strays, read>>
  BY DEF reading, CleanupStep, approval, List, AtNth
<1>2. CASE ~Present(Nth(k))
  BY <1>1, <1>2, FailKeeps DEF List
<1>3. CASE Present(Nth(k))
  <2> DEFINE to == [run[k] EXCEPT !.pc = "unlink", !.list = disk[Nth(k)]]
  <2>1. Step(k, to)
    BY <1>3, Zenon DEF List
  <2>2. RunShape(run[k])
    BY DEF StorageIInv, Shape
  <2>3. to = RunRecord("unlink", run[k].mode, run[k].n, run[k].saw, disk[Nth(k)], run[k].late)
    BY <2>2, PcAndList, Zenon
  <2> HIDE DEF to
  <2>4. run[k].n \in Nat
    BY <2>2, ShapeRecord
  <2>5. RunShape(to) /\ to.pc = "unlink" /\ to.late = run[k].late
    BY <2>3, <2>4, RecordShape
  <2>6. ASSUME run'[k] = to, NEW i \in CandidateRow, NEW x \in Held(At(Candidates[i])), Accounted(k, i, x)
        PROVE  Accounted(k, i, x)'
    BY <1>1, <2>5, <2>6 DEF Accounted, Compared, Hashed
  <2>7. receipt.yes
    BY <1>1, KnownSoFar
  <2> QED BY <1>1, <2>1, <2>5, <2>6, <2>7, LookKeeps DEF Fresh
<1> QED BY <1>2, <1>3

\* Steps that only remove files of the candidate a run is at.
LEMMA RemoveKeeps ==
  ASSUME StorageIInv, task = 5, NEW k \in Runs, NEW to, Step(k, to), RunShape(to), receipt.yes,
         UNCHANGED <<task, receipt, recorded, strays, read>>,
         to.pc \notin Fresh,
         NEW content, disk' = [disk EXCEPT ![Nth(k)] = content],
         content # Absent => Present(Nth(k)) /\ content \subseteq disk[Nth(k)],
         run'[k] = to =>
           \A i \in CandidateRow : \A x \in Held(At(Candidates[i])) :
             Accounted(k, i, x) => Accounted(k, i, x)'
  PROVE  StorageIInv'
<1>1. ASSUME NEW i \in CandidateRow
      PROVE  Held(At(Candidates[i]))' \subseteq Held(At(Candidates[i]))
  BY KnownSoFar DEF Held, Present
<1>2. disk' = [p \in Places |-> disk'[p]]
  BY KnownSoFar
<1>3. strays' = {}
  BY DEF StorageIInv, DeletesApproved
<1>4. run'[k] = to =>
        (task = 5 => \A i \in CandidateRow : \A x \in Held(At(Candidates[i]))' : Accounted(k, i, x)')
  BY <1>1, KnownSoFar
<1> QED BY <1>1, <1>2, <1>3, <1>4, StepKeeps

LEMMA UnlinkKeeps ==
  ASSUME StorageIInv, BoundIInv, NEW k \in Runs, UNCHANGED reading, CleanupStep(k), Unlink(k)
  PROVE  StorageIInv'
<1>1. /\ task = 5 /\ run[k].pc = "unlink" /\ run[k].n \in CandidateRow
      /\ UNCHANGED <<task, receipt, recorded, read>>
  BY DEF reading, CleanupStep, approval, Unlink, AtNth, CandidateRow
<1>2. PICK x \in run[k].list :
        IF Present(Nth(k)) /\ x \in disk[Nth(k)]
        THEN /\ disk' = [disk EXCEPT ![Nth(k)] = disk[Nth(k)] \ {x}]
             /\ Step(k, WithList(run[k], run[k].list \ {x}))
             /\ strays' = IF Rightful(k, x) THEN strays ELSE strays \cup {<<Nth(k), x>>}
        ELSE Fail(k) /\ UNCHANGED <<disk, strays>>
  BY Zenon DEF Unlink, WithList
<1>3. CASE ~(Present(Nth(k)) /\ x \in disk[Nth(k)])
  BY <1>1, <1>2, <1>3, FailKeeps
<1>4. CASE Present(Nth(k)) /\ x \in disk[Nth(k)]
  <2> DEFINE to == WithList(run[k], run[k].list \ {x})
             content == disk[Nth(k)] \ {x}
  <2>1. RunShape(run[k])
    BY DEF StorageIInv, Shape
  <2>2. RunShape(to) /\ to.pc = "unlink" /\ to.n = run[k].n /\ to.late = run[k].late
    BY <1>1, <2>1, FieldRecords
  <2>3. Step(k, to) /\ disk' = [disk EXCEPT ![Nth(k)] = content]
    BY <1>2, <1>4
  <2>4. Rightful(k, x)
    <3>1. Accounted(k, run[k].n, x)
      BY <1>1, <1>4, KnownSoFar DEF Held, Nth
    <3>2. Bound(k)
      BY <1>1 DEF BoundIInv, Bounded, Fresh
    <3> QED BY <1>1, <3>1, <3>2 DEF Rightful, Accounted, Compared, Hashed, Nth
  <2>5. UNCHANGED strays
    BY <1>2, <1>4, <2>4
  <2> HIDE DEF to
  <2>6. ASSUME run'[k] = to, NEW i \in CandidateRow, NEW y \in Held(At(Candidates[i])), Accounted(k, i, y)
        PROVE  Accounted(k, i, y)'
    BY <1>1, <2>2, <2>6 DEF Accounted, Compared, Hashed
  <2>7. receipt.yes
    BY <1>1, KnownSoFar
  <2>8. content # Absent => Present(Nth(k)) /\ content \subseteq disk[Nth(k)]
    BY <1>4
  <2> HIDE DEF content
  <2> QED BY <1>1, <2>2, <2>3, <2>5, <2>6, <2>7, <2>8, RemoveKeeps DEF Fresh
<1> QED BY <1>3, <1>4

LEMMA RemoveDirectoryKeeps ==
  ASSUME StorageIInv, NEW k \in Runs, UNCHANGED reading, CleanupStep(k), RemoveDirectory(k)
  PROVE  StorageIInv'
<1>1. /\ task = 5 /\ run[k].pc = "unlink" /\ run[k].n \in CandidateRow
      /\ UNCHANGED <<task, receipt, recorded, strays, read>>
  BY DEF reading, CleanupStep, approval, RemoveDirectory, AtNth, CandidateRow
<1>2. CASE ~(Present(Nth(k)) /\ disk[Nth(k)] = {})
  BY <1>1, <1>2, FailKeeps DEF RemoveDirectory
<1>3. CASE Present(Nth(k)) /\ disk[Nth(k)] = {}
  <2> DEFINE to == NextOf(k, "delete")
  <2>1. disk' = [disk EXCEPT ![Nth(k)] = Absent] /\ Step(k, to)
    BY <1>3 DEF RemoveDirectory
  <2>2. RunShape(to) /\ to.pc = "delete" /\ to.late = run[k].late
    BY CleanupRecords
  <2> HIDE DEF to
  <2>3. ASSUME run'[k] = to, NEW i \in CandidateRow, NEW y \in Held(At(Candidates[i])), Accounted(k, i, y)
        PROVE  Accounted(k, i, y)'
    BY <1>1, <2>2, <2>3 DEF Accounted, Compared, Hashed
  <2>4. receipt.yes
    BY <1>1, KnownSoFar
  <2> QED BY <1>1, <2>1, <2>2, <2>3, <2>4, RemoveKeeps DEF Fresh
<1> QED BY <1>2, <1>3

LEMMA CleanupStepKeeps ==
  ASSUME StorageIInv, BoundIInv, NEW k \in Runs, CleanupStep(k)
  PROVE  StorageIInv'
<1>1. AskCleanup(k) \/ AdmitCleanup(k) \/ ReadCleanupRows(k) \/ Conclude(k) => StorageIInv'
  BY AskKeeps DEF BoundIInv
<1>2. UNCHANGED reading /\ (CompareRetained(k) \/ BeginDeletion(k)) => StorageIInv'
  BY CompareKeeps
<1> QED BY <1>1, <1>2, CollectKeeps, HashKeeps, ListKeeps, UnlinkKeeps, RemoveDirectoryKeeps DEF CleanupStep

(***************************************************************************)
(* The rest: the inventory, the operator, others, and the end of a run.    *)
(***************************************************************************)
LEMMA AsideKeeps ==
  ASSUME StorageIInv, UNCHANGED <<task, receipt, run, recorded, strays, read>>,
         task = 5 => UNCHANGED disk
  PROVE  StorageIInv'
<1>1. task = 5 => \A i \in CandidateRow : Held(At(Candidates[i]))' = Held(At(Candidates[i]))
  BY DEF Held, Present
<1>2. \A k \in Runs : Knows(k)'
  BY <1>1, KnowsOn DEF StorageIInv
<1>3. Shape'
  BY DEF StorageIInv, Shape, Places
<1> QED BY <1>2, <1>3 DEF StorageIInv, DeletesApproved

LEMMA ConfirmKeeps ==
  ASSUME StorageIInv, Confirm
  PROVE  StorageIInv'
<1>1. UNCHANGED <<task, disk, run, recorded, strays, read>> /\ ~receipt.yes
  BY DEF Confirm, NoReceipt, reading
<1>2. Shape'
  BY <1>1 DEF StorageIInv, Shape, Places
<1>3. ASSUME NEW k \in Runs PROVE Knows(k)'
  BY <1>1 DEF StorageIInv, Knows, Accounted, Compared, Hashed
<1> QED BY <1>1, <1>2, <1>3 DEF StorageIInv, DeletesApproved

LEMMA StorageNextKeeps == StorageIInv /\ BoundIInv /\ [StorageNext]_vars => StorageIInv'
<1> SUFFICES ASSUME StorageIInv, BoundIInv, [StorageNext]_vars PROVE StorageIInv'
  OBVIOUS
<1>1. CASE BeginInventory \/ Survey \/ Upset \/ Rewrite \/ UNCHANGED vars
  <2>1. UNCHANGED <<task, receipt, run, recorded, strays, read>> /\ (task = 5 => UNCHANGED disk)
    BY <1>1 DEF BeginInventory, Survey, Upset, Rewrite, vars, reading
  <2> QED BY <2>1, AsideKeeps
<1>2. CASE Confirm
  BY <1>2, ConfirmKeeps
<1>3. CASE Change
  BY <1>3, ChangeKeeps
<1>4. ASSUME NEW k \in Runs, MoveStep(k) \/ CleanupStep(k) PROVE StorageIInv'
  BY <1>4, MoveStepKeeps, CleanupStepKeeps
<1>5. ASSUME NEW k \in Runs, Again(k) PROVE StorageIInv'
  <2>1. Step(k, Idle) /\ UNCHANGED <<task, receipt, disk, recorded, strays, read>>
    BY <1>5 DEF Again, approval, reading
  <2> QED BY <2>1, EndKeeps
<1>6. ASSUME NEW k \in Runs, Kill(k) PROVE StorageIInv'
  <2>1. Fail(k) /\ UNCHANGED <<task, receipt, disk, recorded, strays, read>>
    BY <1>6 DEF Kill, reading
  <2> QED BY <2>1, FailKeeps
<1> QED BY <1>1, <1>2, <1>3, <1>4, <1>5, <1>6 DEF StorageNext, Approval, Others

(***************************************************************************)
(* What binds a run to the approval.                                       *)
(***************************************************************************)
\* What a step writes into the run it is of.
LEMMA Takes ==
  ASSUME StorageIInv, NEW k \in Runs,
         NEW pc, NEW mode, NEW n \in Nat, NEW saw, NEW list, NEW late,
         NEW to, to = RunRecord(pc, mode, n, saw, list, late), Step(k, to)
  PROVE  /\ run'[k].pc = pc /\ run'[k].mode = mode /\ run'[k].n = n
         /\ run'[k].saw = saw /\ run'[k].late = late
         /\ \A j \in Runs \ {k} : run'[j] = run[j]
<1>1. run'[k] = to /\ \A j \in Runs \ {k} : run'[j] = run[j]
  BY DEF StorageIInv, Shape, Step
<1> QED BY <1>1, RecordShape

SameExcept(k, pc, n, late) ==
  /\ run'[k].pc = pc /\ run'[k].n = n /\ run'[k].late = late
  /\ run'[k].mode = run[k].mode /\ run'[k].saw = run[k].saw
  /\ \A j \in Runs \ {k} : run'[j] = run[j]

LEMMA GotoTakes ==
  ASSUME StorageIInv, NEW k \in Runs, NEW pc, Goto(k, pc)
  PROVE  SameExcept(k, pc, run[k].n, run[k].late)
<1>1. RunShape(run[k]) /\ run[k].n \in Nat
  BY ShapeRecord DEF StorageIInv, Shape
<1> DEFINE to == [run[k] EXCEPT !.pc = pc]
<1>2. to = RunRecord(pc, run[k].mode, run[k].n, run[k].saw, run[k].list, run[k].late)
  BY <1>1, Written, Zenon
<1>3. Step(k, to)
  BY Zenon DEF Goto
<1> HIDE DEF to
<1>4. /\ run'[k].pc = pc /\ run'[k].mode = run[k].mode /\ run'[k].n = run[k].n
      /\ run'[k].saw = run[k].saw /\ run'[k].late = run[k].late
      /\ \A j \in Runs \ {k} : run'[j] = run[j]
  BY <1>1, <1>2, <1>3, Takes
<1> QED BY <1>4 DEF SameExcept

LEMMA FailTakes ==
  ASSUME StorageIInv, NEW k \in Runs, Fail(k)
  PROVE  /\ run'[k].pc = "failed" /\ run'[k].n = 1 /\ run'[k].mode = "apply"
         /\ \A j \in Runs \ {k} : run'[j] = run[j]
<1>1. Step(k, Failed)
  BY Zenon DEF Fail, Failed
<1>2. run'[k] = Failed /\ \A j \in Runs \ {k} : run'[j] = run[j]
  BY <1>1 DEF StorageIInv, Shape, Step
<1>3. Failed.pc = "failed" /\ Failed.n = 1 /\ Failed.mode = "apply"
  BY DEF Failed, Idle
<1> QED BY <1>2, <1>3

LEMMA NextRowTakes ==
  ASSUME StorageIInv, NEW k \in Runs
  PROVE  /\ Step(k, NextRow(k)) => SameExcept(k, "row", run[k].n + 1, run[k].late)
         /\ Step(k, Checked(k, Row(k))) =>
              SameExcept(k, "row", run[k].n + 1,
                IF Present(From(Row(k))) THEN run[k].late ELSE run[k].late \ Lately(k, Ends(Row(k))))
<1>1. RunShape(run[k]) /\ run[k].n \in Nat /\ run[k].n + 1 \in Nat
  BY ShapeRecord DEF StorageIInv, Shape
<1> DEFINE t == NextRow(k)
           late == IF Present(From(Row(k))) THEN run[k].late ELSE run[k].late \ Lately(k, Ends(Row(k)))
<1>2. t = RunRecord("row", run[k].mode, run[k].n + 1, run[k].saw, run[k].list, run[k].late)
  BY <1>1, PcAndN, Zenon DEF NextRow
<1>3. Step(k, NextRow(k)) => SameExcept(k, "row", run[k].n + 1, run[k].late)
  BY <1>1, <1>2, Takes DEF SameExcept
<1> HIDE DEF t
<1>4. /\ RunShape(t) /\ t.pc = "row" /\ t.mode = run[k].mode /\ t.n = run[k].n + 1
      /\ t.saw = run[k].saw /\ t.list = run[k].list /\ t.late = run[k].late
  BY <1>1, <1>2, RecordShape
<1> DEFINE tlate == IF Present(From(Row(k))) THEN t.late ELSE t.late \ Lately(k, Ends(Row(k)))
<1>5. tlate = late
  BY <1>4
<1> HIDE DEF tlate, late
<1>6. Checked(k, Row(k)) = [t EXCEPT !.late = tlate]
  BY Zenon DEF Checked, t, tlate
<1>7. [t EXCEPT !.late = tlate] = RunRecord(t.pc, t.mode, t.n, t.saw, t.list, tlate)
  BY <1>4 DEF RunShape, RunRecord
<1>8. Checked(k, Row(k)) = RunRecord("row", run[k].mode, run[k].n + 1, run[k].saw, run[k].list, late)
  BY <1>4, <1>5, <1>6, <1>7
<1>9. ASSUME Step(k, Checked(k, Row(k)))
      PROVE  SameExcept(k, "row", run[k].n + 1, late)
  <2>1. Step(k, RunRecord("row", run[k].mode, run[k].n + 1, run[k].saw, run[k].list, late))
    BY <1>8, <1>9
  <2>2. PICK rec : /\ rec = RunRecord("row", run[k].mode, run[k].n + 1, run[k].saw, run[k].list, late)
                   /\ Step(k, rec)
    BY <2>1, Zenon
  <2>3. run'[k] = rec /\ \A j \in Runs \ {k} : run'[j] = run[j]
    BY <2>2 DEF StorageIInv, Shape, Step
  <2>4. /\ rec.pc = "row" /\ rec.n = run[k].n + 1 /\ rec.late = late
        /\ rec.mode = run[k].mode /\ rec.saw = run[k].saw
    BY <2>2 DEF RunRecord
  <2> QED BY <2>3, <2>4 DEF SameExcept
<1> QED BY <1>3, <1>9 DEF late

\* A step of one run, when what it goes by stays bound.
LEMMA BoundStep ==
  ASSUME BoundIInv, NEW k \in Runs, UNCHANGED <<task, inventory, receipt>>,
         read' = [j \in Runs |-> read'[j]], rewritten' = [j \in Runs |-> rewritten'[j]],
         \A j \in Runs : rewritten'[j] \in BOOLEAN,
         \A j \in Runs \ {k} :
           run'[j] = run[j] /\ read'[j] = read[j] /\ rewritten'[j] = rewritten[j],
         Bounded(k)'
  PROVE  BoundIInv'
<1>1. Readings'
  BY DEF BoundIInv, Readings, Inventoried, Surveyed
<1>2. ASSUME NEW j \in Runs \ {k} PROVE Bounded(j)'
  BY DEF BoundIInv, Bounded, Bound
<1> QED BY <1>1, <1>2 DEF BoundIInv

\* A step that opens nothing.
LEMMA BoundOn ==
  ASSUME BoundIInv, NEW k \in Runs, UNCHANGED <<task, inventory, receipt, read, rewritten>>,
         \A j \in Runs \ {k} : run'[j] = run[j],
         \/ run'[k].pc \in Fresh \ {"open"}
         \/ run[k].pc \notin Fresh /\ run'[k].pc # "open"
  PROVE  BoundIInv'
<1>1. Bounded(k)'
  BY DEF BoundIInv, Bounded, Bound, Fresh
<1> QED BY <1>1, BoundStep DEF BoundIInv, Readings

\* The steps after the manifest was read.
GoesOn(k) ==
  /\ run[k].pc \notin Fresh /\ run'[k].pc # "open"
  /\ \A j \in Runs \ {k} : run'[j] = run[j]

LEMMA GoingOn ==
  ASSUME StorageIInv, NEW k \in Runs, run[k].pc \notin Fresh
  PROVE  /\ Fail(k) => GoesOn(k)
         /\ \A pc : pc # "open" /\ Goto(k, pc) => GoesOn(k)
         /\ \A to : to.pc # "open" /\ Step(k, to) => GoesOn(k)
         /\ Step(k, NextRow(k)) \/ Step(k, Checked(k, Row(k))) => GoesOn(k)
<1>1. Fail(k) => GoesOn(k)
  BY FailTakes DEF GoesOn
<1>2. ASSUME NEW pc, pc # "open", Goto(k, pc) PROVE GoesOn(k)
  BY <1>2, GotoTakes DEF GoesOn, SameExcept
<1>3. ASSUME NEW to, to.pc # "open", Step(k, to) PROVE GoesOn(k)
  <2>1. run'[k] = to /\ \A j \in Runs \ {k} : run'[j] = run[j]
    BY <1>3 DEF StorageIInv, Shape, Step
  <2> QED BY <1>3, <2>1 DEF GoesOn
<1>4. Step(k, NextRow(k)) \/ Step(k, Checked(k, Row(k))) => GoesOn(k)
  BY NextRowTakes DEF GoesOn, SameExcept
<1> QED BY <1>1, <1>2, <1>3, <1>4

LEMMA MovesOn ==
  ASSUME StorageIInv, NEW k \in Runs,
         \/ LookAtSource(k) \/ LookAtTarget(k) \/ Identify(k) \/ Rename(k) \/ Verify(k)
         \/ LookAtEmpty(k) \/ RemoveEmpty(k) \/ LookAtBuild(k) \/ RemoveBuild(k)
  PROVE  GoesOn(k)
<1>0. run[k].pc \notin Fresh
  BY DEF LookAtSource, LookAtTarget, Identify, Rename, Verify, LookAtEmpty, RemoveEmpty, LookAtBuild,
     RemoveBuild, Moving, Removing, AtRow, Fresh
<1>1. CASE LookAtSource(k)
  <2> DEFINE saw == Present(From(Row(k)))
             late == run[k].late \ Lately(k, Ends(Row(k)))
             to == Looked(run[k], "target", saw, late)
  <2>1. Step(k, to)
    BY <1>1, Zenon DEF LookAtSource, Looked
  <2>2. RunShape(run[k]) /\ run[k].n \in Nat
    BY ShapeRecord DEF StorageIInv, Shape
  <2> HIDE DEF saw, late
  <2>3. to = RunRecord("target", run[k].mode, run[k].n, saw, run[k].list, late)
    BY <2>2, PcSawAndLate
  <2> HIDE DEF to
  <2>4. to.pc # "open"
    BY <2>3 DEF RunRecord
  <2> QED BY <1>0, <2>1, <2>4, GoingOn
<1>2. CASE LookAtTarget(k)
  <2>1. Fail(k) \/ Goto(k, "identify")
    BY <1>2 DEF LookAtTarget
  <2> QED BY <1>0, <2>1, GoingOn
<1>3. CASE Identify(k)
  <2>1. Fail(k) \/ Goto(k, "rename") \/ Step(k, NextRow(k))
    BY <1>3 DEF Identify
  <2> QED BY <1>0, <2>1, GoingOn
<1>4. CASE Rename(k)
  <2>1. Fail(k) \/ Goto(k, "verify")
    BY <1>4, Zenon DEF Rename
  <2> QED BY <1>0, <2>1, GoingOn
<1>5. CASE Verify(k)
  <2>1. Fail(k) \/ Step(k, Checked(k, Row(k)))
    BY <1>5 DEF Verify
  <2> QED BY <1>0, <2>1, GoingOn
<1>6. CASE LookAtEmpty(k)
  <2>1. Fail(k) \/ Goto(k, "rmdir") \/ Step(k, NextRow(k))
    BY <1>6 DEF LookAtEmpty
  <2> QED BY <1>0, <2>1, GoingOn
<1>7. CASE RemoveEmpty(k)
  <2>1. Fail(k) \/ Step(k, NextRow(k))
    BY <1>7, Zenon DEF RemoveEmpty
  <2> QED BY <1>0, <2>1, GoingOn
<1>8. CASE LookAtBuild(k)
  <2>1. Fail(k) \/ Goto(k, "rmbuild") \/ Goto(k, "passed")
    BY <1>8 DEF LookAtBuild
  <2> QED BY <1>0, <2>1, GoingOn
<1>9. CASE RemoveBuild(k)
  <2>1. Fail(k) \/ Goto(k, "passed")
    BY <1>9, Zenon DEF RemoveBuild
  <2> QED BY <1>0, <2>1, GoingOn
<1> QED BY <1>1, <1>2, <1>3, <1>4, <1>5, <1>6, <1>7, <1>8, <1>9

LEMMA DeletionsOn ==
  ASSUME StorageIInv, NEW k \in Runs,
         \/ Collect(k) \/ CompareRetained(k) \/ Hash(k) \/ BeginDeletion(k) \/ List(k) \/ Unlink(k)
         \/ RemoveDirectory(k) \/ Conclude(k)
  PROVE  GoesOn(k)
<1>0. run[k].pc \notin Fresh
  BY DEF Collect, CompareRetained, Hash, BeginDeletion, List, Unlink, RemoveDirectory, Conclude,
     AtNth, Through, Fresh
<1>s. RunShape(run[k]) /\ run[k].n \in Nat
  BY ShapeRecord DEF StorageIInv, Shape
<1>1. ASSUME NEW pc \in {"collect", "hash", "delete"}, Step(k, NextOf(k, pc)) \/ Step(k, Restart(k, pc))
      PROVE  GoesOn(k)
  <2>1. NextOf(k, pc).pc = pc /\ Restart(k, pc).pc = pc
    BY CleanupRecords
  <2> QED BY <1>0, <1>1, <2>1, GoingOn
<1>2. CASE Collect(k)
  <2> DEFINE t == NextOf(k, "collect")
             late == t.late \ Lately(k, {Nth(k)})
             to == WithLate(t, late)
  <2>1. Fail(k) \/ Step(k, to)
    BY <1>2, Zenon DEF Collect, WithLate
  <2>2. RunShape(t) /\ t.pc = "collect"
    BY CleanupRecords
  <2> HIDE DEF t, late
  <2>3. to.pc # "open"
    BY <2>2, FieldRecords
  <2> QED BY <1>0, <2>1, <2>3, GoingOn
<1>3. CASE CompareRetained(k) \/ BeginDeletion(k)
  <2>1. Fail(k) \/ Step(k, Restart(k, "hash")) \/ Step(k, Restart(k, "delete"))
    BY <1>3 DEF CompareRetained, BeginDeletion
  <2> QED BY <1>0, <1>1, <2>1, GoingOn
<1>4. CASE Hash(k) \/ RemoveDirectory(k)
  <2>1. Fail(k) \/ Step(k, NextOf(k, "hash")) \/ Step(k, NextOf(k, "delete"))
    BY <1>4 DEF Hash, RemoveDirectory
  <2> QED BY <1>0, <1>1, <2>1, GoingOn
<1>5. CASE List(k)
  <2> DEFINE to == [run[k] EXCEPT !.pc = "unlink", !.list = disk[Nth(k)]]
  <2>1. Fail(k) \/ Step(k, to)
    BY <1>5, Zenon DEF List
  <2>2. to = RunRecord("unlink", run[k].mode, run[k].n, run[k].saw, disk[Nth(k)], run[k].late)
    BY <1>s, PcAndList, Zenon
  <2> HIDE DEF to
  <2>3. to.pc # "open"
    BY <2>2 DEF RunRecord
  <2> QED BY <1>0, <2>1, <2>3, GoingOn
<1>6. CASE Unlink(k)
  <2>1. PICK x : Fail(k) \/ Step(k, WithList(run[k], run[k].list \ {x}))
    BY <1>6, Zenon DEF Unlink, WithList
  <2>2. WithList(run[k], run[k].list \ {x}).pc = run[k].pc /\ run[k].pc # "open"
    BY <1>0, <1>s, FieldRecords DEF Fresh
  <2> QED BY <1>0, <2>1, <2>2, GoingOn
<1>7. CASE Conclude(k)
  <2>1. Fail(k) \/ Goto(k, "passed")
    BY <1>7 DEF Conclude
  <2> QED BY <1>0, <2>1, GoingOn
<1> QED BY <1>2, <1>3, <1>4, <1>5, <1>6, <1>7

\* The steps around the two openings of the manifest.
LEMMA OpeningBound ==
  ASSUME StorageIInv, BoundIInv, NEW k \in Runs, UNCHANGED approval,
         \/ (Ask(k) \/ AskCleanup(k)) /\ UNCHANGED reading
         \/ Admit(k) \/ AdmitCleanup(k) \/ Audit(k)
         \/ ReadRows(k) \/ ReadCleanupRows(k)
  PROVE  BoundIInv'
<1>1. UNCHANGED <<task, inventory, receipt>> /\ Readings
  BY DEF approval, BoundIInv
<1>2. CASE (Ask(k) \/ AskCleanup(k)) /\ UNCHANGED reading
  <2>1. Goto(k, "asked") /\ UNCHANGED <<read, rewritten>>
    BY <1>2 DEF Ask, AskCleanup, reading
  <2>2. SameExcept(k, "asked", run[k].n, run[k].late)
    BY <2>1, GotoTakes
  <2> QED BY <1>1, <2>1, <2>2, BoundOn DEF SameExcept, Fresh
<1>3. CASE Admit(k) \/ AdmitCleanup(k) \/ Audit(k)
  <2>1. /\ read' = [j \in Runs |-> read'[j]] /\ rewritten' = [j \in Runs |-> rewritten'[j]]
        /\ \A j \in Runs \ {k} : read'[j] = read[j] /\ rewritten'[j] = rewritten[j]
        /\ \A j \in Runs : rewritten'[j] \in BOOLEAN
    BY <1>1, <1>3, ReadingOf DEF Admit, AdmitCleanup, Audit
  <2>2. Fail(k) \/ (Approved /\ run'[k].pc = "open" /\ \A j \in Runs \ {k} : run'[j] = run[j])
    <3>1. CASE Goto(k, "open") /\ Approved
      BY <3>1, GotoTakes DEF SameExcept
    <3>2. CASE Audit(k)
      <4> DEFINE to == [run[k] EXCEPT !.pc = "open", !.mode = "audit"]
      <4>1. Step(k, to) /\ Approved
        BY <3>2, Zenon DEF Audit
      <4>2. RunShape(run[k])
        BY DEF StorageIInv, Shape
      <4>3. to = RunRecord("open", "audit", run[k].n, run[k].saw, run[k].list, run[k].late)
        BY <4>2, PcAndMode, Zenon
      <4> HIDE DEF to
      <4>4. run'[k] = to /\ \A j \in Runs \ {k} : run'[j] = run[j]
        BY <4>1 DEF StorageIInv, Shape, Step
      <4> QED BY <4>1, <4>3, <4>4 DEF RunRecord
    <3> QED BY <1>3, <3>1, <3>2 DEF Admit, AdmitCleanup
  <2>3. Bounded(k)' /\ \A j \in Runs \ {k} : run'[j] = run[j]
    <3>1. CASE Fail(k)
      BY <3>1, FailTakes DEF Bounded, Fresh
    <3>2. CASE ~Fail(k)
      BY <1>1, <2>2, <3>2 DEF Bounded, Fresh, Approved
    <3> QED BY <3>1, <3>2
  <2> QED BY <1>1, <2>1, <2>3, BoundStep
<1>4. CASE ReadRows(k) \/ ReadCleanupRows(k)
  <2>0. run[k].pc = "open" /\ ReadManifest(k)
    BY <1>4 DEF ReadRows, ReadCleanupRows
  <2>1. /\ read' = [j \in Runs |-> read'[j]] /\ rewritten' = [j \in Runs |-> rewritten'[j]]
        /\ \A j \in Runs \ {k} : read'[j] = read[j] /\ rewritten'[j] = rewritten[j]
        /\ read'[k] = inventory.rows /\ rewritten'[k] = rewritten[k]
    BY <1>1, <2>0, ReadingOf
  <2>2. \A j \in Runs : rewritten'[j] \in BOOLEAN
    BY <1>1, <2>1 DEF Readings
  <2>3. Bound(k)'
    BY <1>1, <2>0, <2>1 DEF BoundIInv, Bounded, Bound
  <2>4. run'[k].pc # "open" /\ \A j \in Runs \ {k} : run'[j] = run[j]
    <3>1. Fail(k) \/ Goto(k, "row") \/ Goto(k, "collect")
      BY <1>4 DEF ReadRows, ReadCleanupRows
    <3> QED BY <3>1, FailTakes, GotoTakes DEF SameExcept
  <2>5. Bounded(k)'
    BY <2>3, <2>4 DEF Bounded
  <2> QED BY <1>1, <2>1, <2>2, <2>4, <2>5, BoundStep
<1> QED BY <1>2, <1>3, <1>4

\* The inventory and the operator, while no run goes by an approval.
LEMMA SurveyedRows == Len(Surveyed) \in Nat /\ DOMAIN Surveyed = 1..Len(Surveyed)
<1>1. Plan \in Seq(Range(Plan)) /\ Candidates \in Seq(Range(Candidates))
  BY StorageAssumption
<1>2. ASSUME NEW S, NEW s \in Seq(S), NEW Place(_)
      PROVE  [i \in DOMAIN s |-> Place(s[i])] \in Seq({Place(x) : x \in S})
  OBVIOUS
<1> QED BY <1>1 DEF Surveyed

LEMMA ApprovalBound ==
  ASSUME StorageIInv, BoundIInv, Approval
  PROVE  BoundIInv'
<1>1. UNCHANGED <<task, run, read, rewritten>>
  BY DEF Approval, BeginInventory, Survey, Confirm, reading
<1>2. ~receipt.yes
  <2>1. CASE Confirm
    BY <2>1 DEF Confirm, NoReceipt
  <2>2. CASE BeginInventory \/ Survey
    <3>1. ~Inventoried
      BY <2>2, SurveyedRows DEF BeginInventory, Survey, Inventoried
    <3> QED BY <3>1 DEF BoundIInv, Readings
  <2> QED BY <2>1, <2>2 DEF Approval
<1>3. ASSUME NEW k \in Runs PROVE Bounded(k)'
  <2>1. run[k].pc \in {"idle", "failed"}
    BY <1>2 DEF StorageIInv, Knows
  <2> QED BY <1>1, <2>1 DEF Bounded, Fresh
<1>4. Readings'
  <2>1. inventory' = [at |-> inventory'.at, rows |-> inventory'.rows]
    BY DEF Approval, BeginInventory, Survey, Confirm, BoundIInv, Readings, NoInventory
  <2>2. receipt'.yes => Inventoried'
    <3>1. CASE Confirm
      BY <3>1 DEF Confirm, Inventoried, Surveyed
    <3>2. CASE BeginInventory \/ Survey
      BY <1>2, <3>2 DEF BeginInventory, Survey
    <3> QED BY <3>1, <3>2 DEF Approval
  <2> QED BY <1>1, <2>1, <2>2 DEF BoundIInv, Readings
<1> QED BY <1>3, <1>4 DEF BoundIInv

\* Others: what they do to the objects, and a rewrite of the manifest.
LEMMA OthersBound ==
  ASSUME StorageIInv, BoundIInv, Others
  PROVE  BoundIInv'
<1>1. CASE Rewrite
  <2>1. /\ UNCHANGED <<task, run, read, receipt>>
        /\ rewritten' = [k \in Runs |-> rewritten[k] \/ run[k].pc = "open"]
    BY <1>1 DEF Rewrite
  <2>2. PICK p, content : inventory' = [inventory EXCEPT !.rows[p] = content]
    BY <1>1, Zenon DEF Rewrite
  <2>3. inventory' = [at |-> inventory'.at, rows |-> inventory'.rows] /\ inventory'.at = inventory.at
    BY <2>2 DEF BoundIInv, Readings
  <2>4. \A k \in Runs : rewritten'[k] \in BOOLEAN /\ (rewritten[k] \/ run[k].pc = "open" => rewritten'[k])
    BY <2>1
  <2>5. ASSUME NEW k \in Runs PROVE Bounded(k)'
    BY <2>1, <2>4 DEF BoundIInv, Bounded, Bound
  <2>6. Readings'
    BY <2>1, <2>3, <2>4 DEF BoundIInv, Readings, Inventoried, Surveyed
  <2> QED BY <2>5, <2>6 DEF BoundIInv
<1>2. CASE Change \/ Upset
  <2>1. UNCHANGED <<task, inventory, receipt, read, rewritten>>
    BY <1>2 DEF Change, Upset, reading
  <2>2. ASSUME NEW k \in Runs PROVE run'[k].pc = run[k].pc
    <3>1. CASE Upset
      BY <3>1 DEF Upset
    <3>2. CASE Change
      <4>1. PICK p, content : run' = Overtaken(p, content)
        BY <3>2, Zenon DEF Change
      <4> DEFINE late == run[k].late \cup
                   {<<p, x>> : x \in {Absent} \cup (IF content = Absent THEN {} ELSE content)}
      <4>2. run'[k] = [run[k] EXCEPT !.late = late]
        BY <4>1 DEF Overtaken
      <4> HIDE DEF late
      <4>3. RunShape(run[k])
        BY DEF StorageIInv, Shape
      <4> QED BY <4>2, <4>3 DEF RunShape
    <3> QED BY <1>2, <3>1, <3>2
  <2>3. ASSUME NEW k \in Runs PROVE Bounded(k)'
    BY <2>1, <2>2 DEF BoundIInv, Bounded, Bound
  <2> QED BY <2>1, <2>3 DEF BoundIInv, Readings, Inventoried, Surveyed
<1> QED BY <1>1, <1>2 DEF Others

LEMMA BoundNextKeeps == StorageIInv /\ BoundIInv /\ [StorageNext]_vars => BoundIInv'
<1> SUFFICES ASSUME StorageIInv, BoundIInv, [StorageNext]_vars PROVE BoundIInv'
  OBVIOUS
<1>1. CASE UNCHANGED vars
  BY <1>1 DEF vars, BoundIInv, Readings, Bounded, Bound, Inventoried, Surveyed
<1>2. ASSUME NEW k \in Runs, MoveStep(k) \/ CleanupStep(k) PROVE BoundIInv'
  <2>1. UNCHANGED approval
    BY <1>2 DEF MoveStep, CleanupStep
  <2>2. CASE GoesOn(k) /\ UNCHANGED reading
    BY <2>1, <2>2, BoundOn DEF GoesOn, approval, reading
  <2> QED BY <1>2, <2>1, <2>2, OpeningBound, MovesOn, DeletionsOn DEF MoveStep, CleanupStep
<1>3. ASSUME NEW k \in Runs, Again(k) \/ Kill(k) PROVE BoundIInv'
  <2>1. UNCHANGED <<task, inventory, receipt, read, rewritten>>
    BY <1>3 DEF Again, Kill, approval, reading
  <2>2. run'[k].pc \in {"idle", "failed"} /\ \A j \in Runs \ {k} : run'[j] = run[j]
    <3>1. CASE Kill(k)
      BY <3>1, FailTakes DEF Kill
    <3>2. CASE Again(k)
      BY <3>2 DEF Again, Step, Idle, StorageIInv, Shape
    <3> QED BY <1>3, <3>1, <3>2
  <2> QED BY <2>1, <2>2, BoundOn DEF Fresh
<1> QED BY <1>1, <1>2, <1>3, ApprovalBound, OthersBound DEF StorageNext

LEMMA StorageInitBound == StorageInit => BoundIInv
<1> SUFFICES ASSUME StorageInit PROVE BoundIInv
  OBVIOUS
<1>1. Readings
  BY DEF StorageInit, Readings, NoInventory, NoReceipt
<1>2. ASSUME NEW k \in Runs PROVE Bounded(k)
  BY DEF StorageInit, Idle, Bounded, Fresh
<1> QED BY <1>1, <1>2 DEF BoundIInv

(***************************************************************************)
(* The clean-up deletes only files that are in the rows the run has read   *)
(* and in a hash record, but for what others put there after the           *)
(* comparison, and the rows are the approved ones, but for a rewrite of    *)
(* the manifest between its digest and its reading (r50-storage-task5.py), *)
(* with any number of runs, kills and changes by others.                   *)
(***************************************************************************)
THEOREM DeletesOnlyApproved == StorageSpec => []DeletesApproved
<1>1. StorageIInv /\ BoundIInv => DeletesApproved
  BY DEF StorageIInv
<1>2. StorageIInv /\ BoundIInv /\ [StorageNext]_vars => (StorageIInv /\ BoundIInv)'
  BY StorageNextKeeps, BoundNextKeeps
<1> QED BY <1>1, <1>2, StorageInitIInv, StorageInitBound, PTL DEF StorageSpec

(***************************************************************************)
(* Task 4: what a run that passes has seen to, whoever moved it.           *)
(***************************************************************************)
PlanRow == DOMAIN Plan

LEMMA PlanRows ==
  /\ PlanRow = 1..Len(Plan) /\ Len(Plan) \in Nat
  /\ \A r \in Moves : \E j \in PlanRow : Plan[j] = r
  /\ \A j \in PlanRow : Plan[j] \in Moves \cup Empties
  /\ Moves \cap Empties = {}
<1>1. \A r \in Range(Plan) : \E j \in PlanRow : Plan[j] = r
  BY DEF Range, PlanRow
<1>2. \A j \in PlanRow : Plan[j] \in Range(Plan)
  BY DEF Range, PlanRow
<1> QED BY <1>1, <1>2, StorageAssumption DEF PlanRow

\* The ends of two moves have nothing in common, nor with what is removed.
LEMMA EndsApart ==
  /\ \A r, q : From(r) = From(q) => r = q
  /\ \A r, q : To(r) = To(q) => r = q
  /\ \A r, q : From(r) # To(q) /\ From(r) # Build /\ To(r) # Build
<1>1. ASSUME NEW r, NEW q PROVE (From(r) = From(q) \/ To(r) = To(q)) => r = q
  BY DEF From, To
<1>2. ASSUME NEW r, NEW q PROVE From(r) # To(q)
  <2>1. From(r)[1] = "build" /\ To(q)[1] = "new"
    BY DEF From, To
  <2> QED BY <2>1
<1>3. ASSUME NEW r PROVE From(r) # Build /\ To(r) # Build
  <2>1. Len(From(r)) = 2 /\ Len(To(r)) = 2 /\ Len(Build) = 1
    BY DEF From, To, Build
  <2> QED BY <2>1
<1> QED BY <1>1, <1>2, <1>3

LEMMA MovePlaces ==
  ASSUME task = 4, NEW r \in Moves
  PROVE  From(r) \in Places /\ To(r) \in Places
BY DEF Places

\* A move without a source stays one while runs of task 4 work.
GoneStays(r) == ~Present(From(r)) => ~Present(From(r))' /\ disk'[To(r)] = disk[To(r)]

LEMMA MoveDisk ==
  ASSUME task = 4, UNCHANGED task, disk = [p \in Places |-> disk[p]], NEW k \in Runs, MoveStep(k)
  PROVE  disk' = [p \in Places' |-> disk'[p]] /\ \A r \in Moves : GoneStays(r)
<1>p. Places' = Places
  BY DEF Places
<1>1. CASE UNCHANGED disk
  BY <1>1, <1>p DEF GoneStays, Present
<1>2. CASE Rename(k) /\ ~UNCHANGED disk
  <2>1. PICK q \in Moves : /\ Present(From(q))
                           /\ disk' = [disk EXCEPT ![To(q)] = disk[From(q)], ![From(q)] = Absent]
    BY <1>2 DEF Rename, Moving
  <2>2. \A r \in Moves \ {q} : disk'[From(r)] = disk[From(r)] /\ disk'[To(r)] = disk[To(r)]
    <3> TAKE r \in Moves \ {q}
    <3>1. From(r) # From(q) /\ To(r) # To(q) /\ From(r) # To(q) /\ To(r) # From(q)
      BY EndsApart
    <3> QED BY <2>1, <3>1, MovePlaces
  <2>3. disk' = [p \in Places' |-> disk'[p]]
    BY <2>1, <1>p
  <2> QED BY <2>1, <2>2, <2>3 DEF GoneStays, Present
<1>3. CASE (RemoveEmpty(k) \/ RemoveBuild(k)) /\ ~UNCHANGED disk
  <2>1. PICK p : disk' = [disk EXCEPT ![p] = Absent] /\ \A r \in Moves : p # From(r) /\ p # To(r)
    <3>1. CASE RemoveEmpty(k)
      <4>1. Row(k) \in Empties /\ disk' = [disk EXCEPT ![From(Row(k))] = Absent]
        BY <1>3, <3>1, Zenon DEF RemoveEmpty, Removing
      <4>2. \A r \in Moves : From(Row(k)) # From(r) /\ From(Row(k)) # To(r)
        BY <4>1, EndsApart, PlanRows
      <4> QED BY <4>1, <4>2
    <3>2. CASE RemoveBuild(k)
      <4>1. disk' = [disk EXCEPT ![Build] = Absent]
        BY <1>3, <3>2, Zenon DEF RemoveBuild
      <4> QED BY <4>1, EndsApart
    <3> QED BY <1>3, <3>1, <3>2
  <2>2. disk' = [q \in Places' |-> disk'[q]]
    BY <2>1, <1>p
  <2>3. \A r \in Moves : disk'[From(r)] = disk[From(r)] /\ disk'[To(r)] = disk[To(r)]
    BY <2>1, MovePlaces
  <2> QED BY <2>2, <2>3 DEF GoneStays, Present
<1>4. Rename(k) \/ RemoveEmpty(k) \/ RemoveBuild(k) \/ UNCHANGED disk
  BY DEF MoveStep, Ask, Admit, Audit, ReadRows, LookAtSource, LookAtTarget, Identify, Verify,
     LookAtEmpty, LookAtBuild
<1> QED BY <1>1, <1>2, <1>3, <1>4

\* What others did after a look is never forgotten while the run does nothing.
LEMMA StillKnown ==
  ASSUME NEW k \in Runs, MovesKnown(k), UNCHANGED task, read'[k] = read[k],
         run'[k].mode = run[k].mode, run'[k].saw = run[k].saw, run[k].n \in Nat,
         \/ run'[k].n = run[k].n /\ run'[k].pc = run[k].pc
         \/ /\ run[k].pc \notin Looking /\ run'[k].pc \notin Looking \cup Fresh
            /\ run'[k].pc \in {"rmbuild", "passed"} => run[k].mode = "apply" /\ run'[k].n > Len(Plan)
            /\ \/ run'[k].n = run[k].n
               \/ run'[k].n = run[k].n + 1 /\ run[k].n \in PlanRow /\ Plan[run[k].n] \in Empties,
         run[k].late \subseteq run'[k].late,
         \A r \in Moves : Excused(k, r)' \/ GoneStays(r)
  PROVE  MovesKnown(k)'
<1>1. ASSUME NEW r \in Moves, Excused(k, r) PROVE Excused(k, r)'
  BY <1>1 DEF Excused, Lately
<1>2. ASSUME NEW r \in Moves
      PROVE  /\ BusyWith(k, r)' <=> BusyWith(k, r)
             /\ CamePast(k, r)' => CamePast(k, r)
             /\ Sourceless(k, r)' => Sourceless(k, r)
  <2>1. BusyWith(k, r)' <=> BusyWith(k, r)
    BY DEF BusyWith, Row
  <2>2. CamePast(k, r)' => CamePast(k, r)
    BY <2>1, PlanRows DEF CamePast, PlanRow
  <2>3. Sourceless(k, r)' => Sourceless(k, r)
    BY <2>1 DEF Sourceless, BusyWith
  <2> QED BY <2>1, <2>2, <2>3
<1>3. ASSUME NEW r \in Moves, ~Excused(k, r)' PROVE Settled(k, r) => Settled(k, r)'
  BY <1>3 DEF Settled, ToApprove, GoneStays, Present
<1>4. ASSUME SettledSoFar(k) PROVE SettledSoFar(k)'
  <2> SUFFICES ASSUME NEW r \in Moves
               PROVE  /\ CamePast(k, r)' => Excused(k, r)' \/ Settled(k, r)'
                      /\ Sourceless(k, r)' => Excused(k, r)' \/ ~Present(From(r))'
    BY DEF SettledSoFar
  <2>1. ASSUME CamePast(k, r)' PROVE Excused(k, r)' \/ Settled(k, r)'
    BY <2>1, <1>1, <1>2, <1>3, <1>4 DEF SettledSoFar
  <2>2. ASSUME Sourceless(k, r)' PROVE Excused(k, r)' \/ ~Present(From(r))'
    BY <2>2, <1>1, <1>2, <1>4 DEF SettledSoFar, GoneStays
  <2> QED BY <2>1, <2>2
<1> QED BY <1>4 DEF MovesKnown

\* A run at a move settles it or goes on with it, and leaves the others alone.
LEMMA RowKnown ==
  ASSUME NEW k \in Runs, MovesKnown(k), UNCHANGED task, read'[k] = read[k],
         NEW q \in Moves, run[k].n \in PlanRow, Plan[run[k].n] = q,
         run[k].n \in Nat, run'[k].n \in {run[k].n, run[k].n + 1},
         run'[k].pc \in (IF run'[k].n = run[k].n THEN Looking ELSE {"row"}),
         run'[k].mode = run[k].mode,
         run[k].late \ Lately(k, Ends(q)) \subseteq run'[k].late,
         \A r \in Moves \ {q} : GoneStays(r),
         run[k].mode = "apply" /\ run'[k].n # run[k].n => Excused(k, q)' \/ Settled(k, q)',
         run[k].mode = "apply" /\ run'[k].n = run[k].n /\ (run'[k].pc = "verify" \/ ~run'[k].saw)
           => Excused(k, q)' \/ ~Present(From(q))'
  PROVE  MovesKnown(k)'
<1>1. ASSUME NEW r \in Moves \ {q}, Excused(k, r) PROVE Excused(k, r)'
  <2>1. PICK l \in run[k].late : l[1] \in Ends(r)
    BY <1>1 DEF Excused, Lately
  <2>2. l[1] \notin Ends(q)
    BY <2>1, EndsApart DEF Ends
  <2>3. l \in run'[k].late
    BY <2>1, <2>2 DEF Lately
  <2> QED BY <2>1, <2>3 DEF Excused, Lately
<1>2. ASSUME NEW r \in Moves \ {q} PROVE ~BusyWith(k, r) /\ ~BusyWith(k, r)'
  BY DEF BusyWith, Row, Looking
<1>3. ASSUME NEW r \in Moves \ {q}, CamePast(k, r)' PROVE CamePast(k, r)
  BY <1>2, <1>3, PlanRows DEF CamePast, PlanRow
<1>4. ASSUME NEW r \in Moves \ {q}, Settled(k, r) PROVE Settled(k, r)'
  BY <1>4 DEF Settled, ToApprove, GoneStays, Present
<1>5. BusyWith(k, q)' <=> run'[k].n = run[k].n
  BY DEF BusyWith, Row, Looking, PlanRow
<1>6. ASSUME run[k].mode = "apply" PROVE SettledSoFar(k)'
  <2> SUFFICES ASSUME NEW r \in Moves
               PROVE  /\ CamePast(k, r)' => Excused(k, r)' \/ Settled(k, r)'
                      /\ Sourceless(k, r)' => Excused(k, r)' \/ ~Present(From(r))'
    BY DEF SettledSoFar
  <2>1. CASE r = q
    BY <2>1, <1>5, <1>6 DEF CamePast, Sourceless
  <2>2. CASE r # q
    <3>1. SettledSoFar(k)
      BY <1>6 DEF MovesKnown
    <3> QED BY <2>2, <3>1, <1>1, <1>2, <1>3, <1>4 DEF SettledSoFar, Sourceless
  <2> QED BY <2>1, <2>2
<1> QED BY <1>6 DEF MovesKnown, Looking, Fresh

LEMMA NothingKnown ==
  ASSUME NEW k \in Runs, run'[k].pc \notin Looking \cup {"rmbuild", "passed"},
         run'[k].n = 1, run'[k].mode \in {"apply", "audit"}
  PROVE  MovesKnown(k)'
BY PlanRows DEF MovesKnown, SettledSoFar, CamePast, Sourceless, BusyWith, Looking, PlanRow

\* A step of a run that is at a move.
LEMMA MovingKnown ==
  ASSUME StorageIInv, task = 4, disk = [p \in Places |-> disk[p]], NEW k \in Runs, MovesKnown(k),
         LookAtSource(k) \/ LookAtTarget(k) \/ Identify(k) \/ Rename(k) \/ Verify(k),
         MoveStep(k)
  PROVE  MovesKnown(k)' /\ \A j \in Runs \ {k} : run'[j] = run[j]
<1>q. PICK q \in Moves : q = Row(k)
  BY DEF LookAtSource, LookAtTarget, Identify, Rename, Verify, Moving
<1>1. /\ q \in Moves /\ run[k].n \in PlanRow /\ Plan[run[k].n] = q /\ run[k].n \in Nat
      /\ run[k].n + 1 # run[k].n
  BY <1>q, ShapeRecord DEF LookAtSource, LookAtTarget, Identify, Rename, Verify, Moving, AtRow,
     PlanRow, Row, StorageIInv, Shape
<1>2. UNCHANGED task /\ read'[k] = read[k]
  BY DEF MoveStep, approval, reading, LookAtSource, LookAtTarget, Identify, Rename, Verify, Moving, AtRow,
     Admit, Audit, ReadRows
<1>3. \A r \in Moves : GoneStays(r)
  BY <1>2, MoveDisk
<1>4. ASSUME run[k].mode = "apply", Sourceless(k, q) PROVE Excused(k, q) \/ ~Present(From(q))
  BY <1>1, <1>4 DEF MovesKnown, SettledSoFar
<1>f. ASSUME Fail(k) PROVE MovesKnown(k)' /\ \A j \in Runs \ {k} : run'[j] = run[j]
  BY <1>f, FailTakes, NothingKnown DEF Looking
<1>c. ASSUME run'[k].late = run[k].late, Excused(k, q) PROVE Excused(k, q)'
  BY <1>c DEF Excused, Lately
<1>a. CASE LookAtSource(k)
  <2> DEFINE saw == Present(From(q))
             late == run[k].late \ Lately(k, Ends(q))
             to == Looked(run[k], "target", saw, late)
  <2>1. Step(k, to)
    BY <1>a, <1>q, Zenon DEF LookAtSource, Looked
  <2>2. RunShape(run[k]) /\ UNCHANGED disk
    BY <1>a DEF StorageIInv, Shape, LookAtSource
  <2> HIDE DEF saw, late
  <2>3. to = RunRecord("target", run[k].mode, run[k].n, saw, run[k].list, late)
    BY <2>2, PcSawAndLate
  <2> HIDE DEF to
  <2>4. /\ run'[k].pc = "target" /\ run'[k].mode = run[k].mode /\ run'[k].n = run[k].n
        /\ run'[k].saw = saw /\ run'[k].late = late /\ \A j \in Runs \ {k} : run'[j] = run[j]
    BY <1>1, <2>1, <2>3, Takes
  <2>5. ~run'[k].saw => ~Present(From(q))'
    BY <2>2, <2>4 DEF saw, Present
  <2> QED BY <1>1, <1>2, <1>3, <2>4, <2>5, RowKnown DEF Looking, late
<1>b. CASE LookAtTarget(k)
  <2>1. CASE Goto(k, "identify")
    <3>1. SameExcept(k, "identify", run[k].n, run[k].late) /\ run[k].pc = "target"
      BY <1>b, <2>1, GotoTakes DEF LookAtTarget, Moving, AtRow
    <3>2. ~run'[k].saw => Sourceless(k, q)
      BY <1>1, <3>1 DEF SameExcept, Sourceless, BusyWith, Looking, Row, PlanRow
    <3>3. run[k].mode = "apply" /\ ~run'[k].saw => Excused(k, q)' \/ ~Present(From(q))'
      BY <1>1, <1>3, <1>4, <1>c, <3>1, <3>2 DEF SameExcept, GoneStays
    <3> QED BY <1>1, <1>2, <1>3, <3>1, <3>3, RowKnown DEF Looking, SameExcept
  <2> QED BY <1>b, <1>f, <2>1 DEF LookAtTarget
<1>d. CASE Identify(k)
  <2>0. run[k].pc = "identify" /\ UNCHANGED disk
    BY <1>d DEF Identify, Moving, AtRow
  <2>s. ~run[k].saw => Sourceless(k, q)
    BY <1>1, <2>0 DEF Sourceless, BusyWith, Looking, Row, PlanRow
  <2>1. CASE Goto(k, "rename") /\ run[k].saw
    <3>1. SameExcept(k, "rename", run[k].n, run[k].late)
      BY <2>1, GotoTakes
    <3>2. run'[k].saw
      BY <2>1, <3>1 DEF SameExcept
    <3> QED BY <1>1, <1>2, <1>3, <3>1, <3>2, RowKnown DEF Looking, SameExcept
  <2>2. CASE Step(k, NextRow(k)) /\ ~run[k].saw /\ Identity(To(q)) = ToApprove(k, q)
    <3>1. SameExcept(k, "row", run[k].n + 1, run[k].late)
      BY <2>2, NextRowTakes
    <3>2. run[k].mode = "apply" => Excused(k, q)' \/ Settled(k, q)'
      BY <1>2, <1>4, <1>c, <2>0, <2>2, <2>s, <3>1
      DEF SameExcept, Settled, Identity, ToApprove, Present
    <3> QED BY <1>1, <1>2, <1>3, <3>1, <3>2, RowKnown DEF Looking, SameExcept
  <2>3. CASE Step(k, NextRow(k)) /\ run[k].mode = "audit"
    <3>1. SameExcept(k, "row", run[k].n + 1, run[k].late)
      BY <2>3, NextRowTakes
    <3> QED BY <1>1, <1>2, <1>3, <2>3, <3>1, RowKnown DEF Looking, SameExcept
  <2> QED BY <1>d, <1>f, <1>q, <2>1, <2>2, <2>3 DEF Identify
<1>e. CASE Rename(k)
  <2>1. CASE Goto(k, "verify") /\ ~Present(From(q))'
    <3>1. SameExcept(k, "verify", run[k].n, run[k].late)
      BY <2>1, GotoTakes
    <3> QED BY <1>1, <1>2, <1>3, <2>1, <3>1, RowKnown DEF Looking, SameExcept
  <2>2. ASSUME ~Fail(k) PROVE Goto(k, "verify") /\ ~Present(From(q))'
    <3>1. Goto(k, "verify") /\ disk' = [disk EXCEPT ![To(q)] = disk[From(q)], ![From(q)] = Absent]
      BY <1>e, <1>q, <2>2, Zenon DEF Rename
    <3> QED BY <1>1, <3>1, MovePlaces DEF Present
  <2> QED BY <1>f, <2>1, <2>2
<1>g. CASE Verify(k)
  <2>0. run[k].pc = "verify" /\ UNCHANGED disk
    BY <1>g DEF Verify, Moving, AtRow
  <2>s. Sourceless(k, q)
    BY <1>1, <2>0 DEF Sourceless, BusyWith, Looking, Row, PlanRow
  <2>1. CASE Step(k, Checked(k, q)) /\ Identity(To(q)) = ToApprove(k, q)
    <3>1. SameExcept(k, "row", run[k].n + 1,
            IF Present(From(q)) THEN run[k].late ELSE run[k].late \ Lately(k, Ends(q)))
      BY <1>q, <2>1, NextRowTakes
    <3>2. run[k].mode = "apply" => Excused(k, q)' \/ Settled(k, q)'
      <4>1. CASE Present(From(q))
        BY <1>4, <1>c, <2>s, <3>1, <4>1 DEF SameExcept
      <4>2. CASE ~Present(From(q))
        BY <1>2, <2>0, <2>1, <4>2 DEF Settled, Identity, ToApprove, Present
      <4> QED BY <4>1, <4>2
    <3>3. run[k].late \ Lately(k, Ends(q)) \subseteq run'[k].late
      BY <3>1 DEF SameExcept
    <3> QED BY <1>1, <1>2, <1>3, <3>1, <3>2, <3>3, RowKnown DEF Looking, SameExcept
  <2> QED BY <1>f, <1>g, <1>q, <2>1 DEF Verify
<1> QED BY <1>a, <1>b, <1>d, <1>e, <1>g

\* A step of a run that is between the moves.
LEMMA BetweenKnown ==
  ASSUME StorageIInv, task = 4, disk = [p \in Places |-> disk[p]], NEW k \in Runs, MovesKnown(k),
         \/ Ask(k) \/ Admit(k) \/ Audit(k) \/ ReadRows(k) \/ LookAtEmpty(k) \/ RemoveEmpty(k) \/ LookAtBuild(k)
         \/ RemoveBuild(k),
         MoveStep(k)
  PROVE  MovesKnown(k)' /\ \A j \in Runs \ {k} : run'[j] = run[j]
<1>1. UNCHANGED task /\ RunShape(run[k]) /\ run[k].n \in Nat
  BY ShapeRecord DEF MoveStep, approval, StorageIInv, Shape
<1>2. \A r \in Moves : GoneStays(r)
  BY <1>1, MoveDisk
<1>3. run[k].pc \notin Looking
  BY DEF Ask, Admit, Audit, ReadRows, LookAtEmpty, RemoveEmpty, LookAtBuild, RemoveBuild, Removing, AtRow, Looking
<1>f. ASSUME Fail(k) PROVE MovesKnown(k)' /\ \A j \in Runs \ {k} : run'[j] = run[j]
  BY <1>f, FailTakes, NothingKnown DEF Looking
<1>b. ASSUME NEW pc \in {"asked", "open", "row"}, Goto(k, pc), run[k].pc \in Fresh
      PROVE  MovesKnown(k)' /\ \A j \in Runs \ {k} : run'[j] = run[j]
  <2>1. SameExcept(k, pc, run[k].n, run[k].late)
    BY <1>b, GotoTakes
  <2> QED BY <1>b, <2>1, NothingKnown DEF SameExcept, Looking, MovesKnown
<1>r. read'[k] = read[k] \/ Admit(k) \/ Audit(k) \/ ReadRows(k)
  BY DEF MoveStep, reading
<1>g. ASSUME Goto(k, "rmdir"), read'[k] = read[k]
      PROVE  MovesKnown(k)' /\ \A j \in Runs \ {k} : run'[j] = run[j]
  <2>1. SameExcept(k, "rmdir", run[k].n, run[k].late)
    BY <1>g, GotoTakes
  <2> QED BY <1>1, <1>2, <1>3, <1>g, <2>1, StillKnown DEF SameExcept, Looking, Fresh
<1>h. ASSUME NEW pc \in {"rmbuild", "passed"}, Goto(k, pc), run[k].mode = "apply", run[k].n > Len(Plan),
             read'[k] = read[k]
      PROVE  MovesKnown(k)' /\ \A j \in Runs \ {k} : run'[j] = run[j]
  <2>1. SameExcept(k, pc, run[k].n, run[k].late)
    BY <1>h, GotoTakes
  <2> QED BY <1>1, <1>2, <1>3, <1>h, <2>1, StillKnown DEF SameExcept, Looking, Fresh
<1>n. ASSUME Step(k, NextRow(k)), Removing(k, run[k].pc), read'[k] = read[k]
      PROVE  MovesKnown(k)' /\ \A j \in Runs \ {k} : run'[j] = run[j]
  <2>1. SameExcept(k, "row", run[k].n + 1, run[k].late)
    BY <1>n, NextRowTakes
  <2>2. run[k].n \in PlanRow /\ Plan[run[k].n] \in Empties
    BY <1>n DEF Removing, AtRow, Row, PlanRow
  <2> QED BY <1>1, <1>2, <1>3, <1>n, <2>1, <2>2, StillKnown DEF SameExcept, Looking, Fresh
<1>a. CASE Ask(k) \/ Admit(k) \/ ReadRows(k)
  BY <1>a, <1>f, <1>b DEF Ask, Admit, ReadRows, Fresh
<1>k. CASE Audit(k)
  <2> DEFINE to == [run[k] EXCEPT !.pc = "open", !.mode = "audit"]
  <2>1. to = RunRecord("open", "audit", run[k].n, run[k].saw, run[k].list, run[k].late)
    BY <1>1, PcAndMode, Zenon
  <2>2. Step(k, to)
    BY <1>k, Zenon DEF Audit
  <2> HIDE DEF to
  <2>3. /\ run'[k].pc = "open" /\ run'[k].mode = "audit" /\ run'[k].n = run[k].n
        /\ \A j \in Runs \ {k} : run'[j] = run[j]
    <3>1. run'[k] = to /\ \A j \in Runs \ {k} : run'[j] = run[j]
      BY <2>2 DEF StorageIInv, Shape, Step
    <3>2. to.pc = "open" /\ to.mode = "audit" /\ to.n = run[k].n
      BY <1>1, <2>1, RecordShape
    <3> QED BY <3>1, <3>2
  <2>4. run[k].n = 1
    BY <1>k DEF Audit, MovesKnown, Fresh
  <2> QED BY <2>3, <2>4, NothingKnown DEF Looking
<1>c. CASE LookAtEmpty(k)
  <2>1. Removing(k, run[k].pc) /\ ~Admit(k) /\ ~Audit(k) /\ ~ReadRows(k)
    BY <1>c DEF LookAtEmpty, Removing, AtRow, Admit, Audit, ReadRows
  <2> QED BY <1>c, <1>f, <1>g, <1>n, <1>r, <2>1 DEF LookAtEmpty
<1>d. CASE RemoveEmpty(k)
  <2>0. ~Admit(k) /\ ~Audit(k) /\ ~ReadRows(k)
    BY <1>d DEF RemoveEmpty, Removing, AtRow, Admit, Audit, ReadRows
  <2>1. Removing(k, run[k].pc) /\ (Fail(k) \/ Step(k, NextRow(k)))
    BY <1>d, Zenon DEF RemoveEmpty, Removing, AtRow
  <2> QED BY <1>f, <1>n, <1>r, <2>0, <2>1
<1>e. CASE LookAtBuild(k)
  <2>0. ~Admit(k) /\ ~Audit(k) /\ ~ReadRows(k)
    BY <1>e DEF LookAtBuild, Admit, Audit, ReadRows
  <2>1. run[k].n > Len(Plan)
    BY <1>e DEF LookAtBuild, AllRows
  <2>2. Fail(k) \/ (run[k].mode = "apply" /\ (Goto(k, "rmbuild") \/ Goto(k, "passed")))
    BY <1>e DEF LookAtBuild, MovesKnown
  <2> QED BY <1>f, <1>h, <1>r, <2>0, <2>1, <2>2
<1>i. CASE RemoveBuild(k)
  <2>0. ~Admit(k) /\ ~Audit(k) /\ ~ReadRows(k)
    BY <1>i DEF RemoveBuild, Admit, Audit, ReadRows
  <2>1. run[k].n > Len(Plan) /\ run[k].mode = "apply"
    BY <1>i DEF RemoveBuild, AllRows, MovesKnown
  <2>2. Fail(k) \/ Goto(k, "passed")
    BY <1>i, Zenon DEF RemoveBuild
  <2> QED BY <1>f, <1>h, <1>r, <2>0, <2>1, <2>2
<1> QED BY <1>a, <1>k, <1>c, <1>d, <1>e, <1>i

LEMMA MoveStepKnown ==
  ASSUME StorageIInv, Readings, MoveIInv, task = 4, NEW k \in Runs, MoveStep(k)
  PROVE  MoveIInv'
<1>1. UNCHANGED task /\ disk = [p \in Places |-> disk[p]] /\ \A j \in Runs : MovesKnown(j)
  BY DEF MoveStep, approval, MoveIInv
<1>2. disk' = [p \in Places' |-> disk'[p]] /\ \A r \in Moves : GoneStays(r)
  BY <1>1, MoveDisk
<1>3. MovesKnown(k)' /\ \A j \in Runs \ {k} : run'[j] = run[j]
  BY <1>1, MovingKnown, BetweenKnown DEF MoveStep
<1>r. \A j \in Runs \ {k} : read'[j] = read[j]
  <2>1. CASE UNCHANGED reading
    BY <2>1 DEF reading
  <2>2. CASE CheckDigest(k) \/ ReadManifest(k)
    BY <2>2, ReadingOf
  <2> QED BY <2>1, <2>2 DEF MoveStep, Admit, Audit, ReadRows
<1>4. ASSUME NEW j \in Runs \ {k} PROVE MovesKnown(j)'
  <2>1. run[j].n \in Nat /\ read'[j] = read[j]
    BY <1>r, ShapeRecord DEF StorageIInv, Shape
  <2> QED BY <1>1, <1>2, <1>3, <2>1, StillKnown
<1> QED BY <1>2, <1>3, <1>4 DEF MoveIInv

\* What others put at an end of a move excuses every run.
LEMMA ChangeKnown ==
  ASSUME StorageIInv, MoveIInv, task = 4, Change
  PROVE  MoveIInv'
<1>1. PICK p \in Places \ {Build}, content \in (SUBSET Items) \cup {Absent} :
        /\ disk' = [q \in Places |->
             IF q = p THEN content
             ELSE IF q = Build /\ content # Absent /\ \E r \in Moves \cup Empties : p = From(r)
             THEN {}
             ELSE disk[q]]
        /\ run' = Overtaken(p, content)
  BY DEF Change
<1>2. UNCHANGED <<task, read>> /\ Places' = Places
  BY DEF Change, Places, reading
<1> DEFINE put == {Absent} \cup (IF content = Absent THEN {} ELSE content)
           late(k) == run[k].late \cup {<<p, x>> : x \in put}
<1>r. run' = [k \in Runs |-> [run[k] EXCEPT !.late = run[k].late \cup {<<p, x>> : x \in put}]]
  BY <1>1 DEF Overtaken
<1>p. <<p, Absent>> \in {<<p, x>> : x \in put}
  OBVIOUS
<1>l. \A k : run[k].late \subseteq late(k) /\ <<p, Absent>> \in late(k)
  BY <1>p
<1>3. ASSUME NEW k \in Runs
      PROVE  /\ run'[k].pc = run[k].pc /\ run'[k].mode = run[k].mode /\ run'[k].n = run[k].n
             /\ run'[k].saw = run[k].saw /\ run'[k].late = late(k) /\ run[k].n \in Nat
  <2>1. RunShape(run[k]) /\ run[k].n \in Nat
    BY ShapeRecord DEF StorageIInv, Shape
  <2>2. run'[k] = [run[k] EXCEPT !.late = late(k)]
    BY <1>r
  <2> HIDE DEF late
  <2>3. run'[k] = RunRecord(run[k].pc, run[k].mode, run[k].n, run[k].saw, run[k].list, late(k))
    BY <2>1, <2>2, Written
  <2> QED BY <2>1, <2>3, RecordShape
<1> HIDE DEF late, put
<1>4. ASSUME NEW k \in Runs, NEW r \in Moves PROVE Excused(k, r)' \/ GoneStays(r)
  <2>1. CASE p \in Ends(r)
    <3>1. <<p, Absent>> \in run'[k].late /\ <<p, Absent>>[1] = p
      BY <1>3, <1>l
    <3> QED BY <2>1, <3>1 DEF Excused, Lately
  <2>2. CASE p \notin Ends(r)
    <3>1. disk'[From(r)] = disk[From(r)] /\ disk'[To(r)] = disk[To(r)]
      BY <1>1, <2>2, MovePlaces, EndsApart DEF Ends
    <3> QED BY <3>1 DEF GoneStays, Present
  <2> QED BY <2>1, <2>2
<1>5. ASSUME NEW k \in Runs PROVE MovesKnown(k)'
  <2>1. MovesKnown(k) /\ run[k].late \subseteq run'[k].late
    BY <1>3, <1>l DEF MoveIInv
  <2> QED BY <1>2, <1>3, <1>4, <2>1, StillKnown
<1>6. disk' = [q \in Places' |-> disk'[q]]
  BY <1>1, <1>2
<1> QED BY <1>5, <1>6 DEF MoveIInv

\* The steps that leave the runs alone, and the ends of the moves with them.
LEMMA AsideKnown ==
  ASSUME StorageIInv, MoveIInv, task = 4,
         BeginInventory \/ Survey \/ Confirm \/ Upset \/ Rewrite \/ UNCHANGED vars
  PROVE  MoveIInv'
<1>1. UNCHANGED <<task, run, read>>
  BY DEF BeginInventory, Survey, Confirm, Upset, Rewrite, vars, reading
<1>2. disk = [p \in Places |-> disk[p]] /\ \A k \in Runs : MovesKnown(k)
  BY DEF MoveIInv
<1>3. UNCHANGED disk \/ disk' = [disk EXCEPT ![Build] = {}]
  BY DEF BeginInventory, Survey, Confirm, Upset, Rewrite, vars
<1>4. disk' = [p \in Places' |-> disk'[p]]
  BY <1>1, <1>2, <1>3 DEF Places
<1>5. \A r \in Moves : disk'[From(r)] = disk[From(r)] /\ disk'[To(r)] = disk[To(r)]
  <2> TAKE r \in Moves
  <2>1. From(r) \in Places /\ To(r) \in Places /\ From(r) # Build /\ To(r) # Build
    BY MovePlaces, EndsApart
  <2> QED BY <1>2, <1>3, <2>1
<1>6. \A r \in Moves : GoneStays(r)
  BY <1>5 DEF GoneStays, Present
<1>7. ASSUME NEW k \in Runs PROVE MovesKnown(k)'
  <2>1. run[k].n \in Nat
    BY ShapeRecord DEF StorageIInv, Shape
  <2> QED BY <1>1, <1>2, <1>6, <2>1, StillKnown
<1> QED BY <1>4, <1>7 DEF MoveIInv

LEMMA MoveNextKnown == StorageIInv /\ Readings /\ MoveIInv /\ [StorageNext]_vars => MoveIInv'
<1> SUFFICES ASSUME StorageIInv, Readings, MoveIInv, [StorageNext]_vars PROVE MoveIInv'
  OBVIOUS
<1>1. UNCHANGED task
  BY DEF StorageNext, Approval, Others, BeginInventory, Survey, Confirm, Change, Upset, Rewrite,
     MoveStep, CleanupStep, Again, Kill, approval, vars
<1>2. CASE task # 4
  BY <1>1, <1>2 DEF MoveIInv
<1>3. CASE task = 4
  <2>1. ASSUME NEW k \in Runs, Again(k) \/ Kill(k) PROVE MoveIInv'
    <3>1. UNCHANGED <<task, read, disk>>
      BY <2>1 DEF Again, Kill, approval, reading
    <3>2. /\ run'[k].pc \in {"idle", "failed"} /\ run'[k].n = 1 /\ run'[k].mode = "apply"
          /\ \A j \in Runs \ {k} : run'[j] = run[j]
      <4>1. CASE Kill(k)
        BY <4>1, FailTakes DEF Kill
      <4>2. CASE Again(k)
        BY <4>2 DEF Again, Step, Idle, StorageIInv, Shape
      <4> QED BY <2>1, <4>1, <4>2
    <3>3. ASSUME NEW j \in Runs \ {k} PROVE MovesKnown(j)'
      <4>1. run[j].n \in Nat /\ MovesKnown(j)
        BY <1>3, ShapeRecord DEF StorageIInv, Shape, MoveIInv
      <4>2. \A r \in Moves : GoneStays(r)
        BY <3>1 DEF GoneStays, Present
      <4> QED BY <3>1, <3>2, <4>1, <4>2, StillKnown
    <3>4. MovesKnown(k)'
      BY <3>2, NothingKnown DEF Looking
    <3>5. disk' = [p \in Places' |-> disk'[p]]
      BY <1>3, <3>1 DEF MoveIInv, Places
    <3> QED BY <3>3, <3>4, <3>5 DEF MoveIInv
  <2>2. ASSUME NEW k \in Runs PROVE ~CleanupStep(k)
    BY <1>3 DEF CleanupStep, AskCleanup, AdmitCleanup, ReadCleanupRows, Collect, CompareRetained, Hash,
       BeginDeletion, List, Unlink, RemoveDirectory, Conclude, AtNth, Through
  <2> QED
    BY <1>3, <2>1, <2>2, MoveStepKnown, ChangeKnown, AsideKnown
    DEF StorageNext, Approval, Others
<1> QED BY <1>2, <1>3

LEMMA StorageInitKnown == StorageInit => MoveIInv
<1> SUFFICES ASSUME StorageInit, task = 4
             PROVE  disk = [p \in Places |-> disk[p]] /\ \A k \in Runs : MovesKnown(k)
  BY DEF MoveIInv
<1>1. disk = [p \in Places |-> disk[p]]
  BY DEF StorageInit
<1>2. ASSUME NEW k \in Runs PROVE run[k].pc = "idle" /\ run[k].n = 1 /\ run[k].mode = "apply"
  BY DEF StorageInit, Idle
<1>3. ASSUME NEW k \in Runs PROVE MovesKnown(k)
  BY <1>2, PlanRows
  DEF MovesKnown, SettledSoFar, CamePast, Sourceless, BusyWith, Looking, PlanRow
<1> QED BY <1>1, <1>3

(***************************************************************************)
(* A run that reports R50_TASK4_MIGRATION_PASS has every move of the plan  *)
(* at its target with the identity that the run has read, whoever moved it *)
(* and however often runs were killed, but for what others changed at the  *)
(* row after the run had looked at it; and what the run has read are the   *)
(* approved rows, but for a rewrite of the manifest between its digest and *)
(* its reading (r50-storage-task4.py, approved_rows, move_one, apply_root).*)
(***************************************************************************)
THEOREM PassedRunsMovedAll == StorageSpec => []PassMeansApproved
<1>1. StorageIInv /\ BoundIInv /\ MoveIInv => PassMeansApproved
  <2> SUFFICES ASSUME StorageIInv, BoundIInv, MoveIInv, NEW k \in Runs, task = 4, run[k].pc = "passed"
               PROVE  Bound(k) /\ \A r \in Moves : Excused(k, r) \/ Settled(k, r)
    BY DEF PassMeansApproved, Excused, Settled, InPlace
  <2>1. MovesKnown(k) /\ run[k].n > Len(Plan) /\ SettledSoFar(k)
    BY DEF MoveIInv, MovesKnown
  <2>2. Bound(k)
    BY DEF BoundIInv, Bounded, Fresh
  <2>3. ASSUME NEW r \in Moves PROVE Excused(k, r) \/ Settled(k, r)
    <3>1. run[k].n \in Nat
      BY ShapeRecord DEF StorageIInv, Shape
    <3>2. PICK j \in PlanRow : Plan[j] = r
      BY PlanRows
    <3>3. CamePast(k, r)
      BY <2>1, <3>1, <3>2, PlanRows DEF CamePast, BusyWith, Looking, PlanRow
    <3> QED BY <2>1, <3>3 DEF SettledSoFar
  <2> QED BY <2>2, <2>3
<1>2. StorageIInv /\ BoundIInv /\ MoveIInv /\ [StorageNext]_vars => (StorageIInv /\ BoundIInv /\ MoveIInv)'
  BY StorageNextKeeps, BoundNextKeeps, MoveNextKnown DEF BoundIInv
<1> QED BY <1>1, <1>2, StorageInitIInv, StorageInitBound, StorageInitKnown, PTL DEF StorageSpec
=============================================================================
