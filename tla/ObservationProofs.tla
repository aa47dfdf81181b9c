-------------------------- MODULE ObservationProofs --------------------------
(***************************************************************************)
(* For any sizes of ring, batch, queue and file and any number of events   *)
(* of the allocation meter: a verdict is only given on durable bytes, and  *)
(* a journal that replays has every event between its marks.  For any      *)
(* programs and any changes of the topology under the semantic emitter: a  *)
(* census that is ready is current, and a capture that is called paired    *)
(* omits nothing and takes no wait for one of another generation.          *)
(***************************************************************************)
EXTENDS MeterSession, SemanticFlow, TLAPS, FiniteSetTheorems, SequenceTheorems

(***************************************************************************)
(* The inductive invariant behind ReplayedIsComplete.  The END record      *)
(* carries the counters of the journal as they stay, wherever it is on its *)
(* way to the file; while nothing is lost, seq counts the events and marks.*)
(***************************************************************************)
Observed ==
  {r \in Record : r.mark = EndMark =>
                    finished /\ kphase = EndMark /\ r.seq = seq /\ r.lost = lost}

Ring ==
  /\ tail + Len(batch) <= head
  /\ active => ~finished /\ kphase # Unset
  /\ lost = 0 => seq = events + Following(kphase)
  /\ log \in [0..(Slots - 1) -> Observed]

OnTheWay ==
  /\ {batch, parts, pending, file} \subseteq Seq(Observed)
  /\ blocks \in Seq(Seq(Observed))

JournalInv ==
  /\ TypeOK /\ Ring /\ OnTheWay
  /\ pc \in {"read", "copied"} => reads < Burst
  /\ pc = "closed" => wpc = "none"
  /\ verdict \in Verdicts => pc = "closed" /\ verdict = MeterCheck(file)

\* The writer thread ends with everything on the disk or with an error.
Settled ==
  /\ pc = "closed" => wpc = "none"
  /\ wpc = "none" /\ pc # "closed" => errors \/ synced = Len(file)
  /\ verdict \in Verdicts => pc = "closed" /\ synced = Len(file) /\ ~errors

LEMMA SettledInit == Init => Settled
BY DEF Init, Settled, Verdicts

LEMMA NoVerdict == "failed" \notin Verdicts /\ "killed" \notin Verdicts /\ "none" \notin Verdicts
                   /\ "rejected" \notin Verdicts
BY DEF Verdicts

LEMMA SettledNext == Settled /\ [Next]_vars => Settled'
<1> SUFFICES ASSUME Settled, [Next]_vars PROVE Settled'
  OBVIOUS
<1> USE NoVerdict DEF Settled, kernel, reader, shared, writer, output, history
<1>1. CASE Start
  BY <1>1 DEF Start
<1>2. CASE MarkFirst
  BY <1>2 DEF MarkFirst, Goto, Raise
<1>3. CASE Loop
  BY <1>3 DEF Loop, Raise
<1>4. CASE Copy
  <2>1. pc = "read" /\ pc' \in {"copied", "put"} /\ UNCHANGED <<shared, writer, output, verdict>>
    BY <1>4 DEF Copy
  <2> QED BY <2>1
<1>5. CASE Advance
  <2>1. pc = "copied" /\ pc' \in {"read", "put"} /\ UNCHANGED <<shared, writer, output, verdict>>
    BY <1>5 DEF Advance
  <2> QED BY <2>1
<1>6. CASE Put
  <2>1. pc = "put" /\ pc' \in {"join", "control"} /\ UNCHANGED <<writer, output, verdict>>
    BY <1>6 DEF Put
  <2> QED BY <2>1
<1>7. CASE Control
  <2>1. pc = "control" /\ pc' \in {"loop", "join"} /\ UNCHANGED <<writer, output, verdict>>
    BY <1>7 DEF Control, Goto, Raise
  <2> QED BY <2>1
<1>8. CASE Join
  <2>1. PICK v : Exit(v) /\ (v \in Verdicts => wpc = "none" /\ ~errors)
    BY <1>8 DEF Join
  <2> QED BY <2>1, <1>8 DEF Join, Exit
<1>9. CASE Deadline
  BY <1>9 DEF Deadline, Raise
<1>10. CASE Kill
  BY <1>10 DEF Kill, Exit
<1>11. CASE Get
  <2>1. wpc = "run" /\ wpc' \in {"write", "sync"} /\ UNCHANGED <<pc, output, verdict, errors>>
    BY <1>11 DEF Get
  <2> QED BY <2>1
<1>12. CASE Write
  <2>1. wpc = "write" /\ wpc' \in {"write", "sync"} /\ UNCHANGED <<pc, verdict, errors>>
    BY <1>12 DEF Write
  <2> QED BY <2>1
<1>13. CASE Sync
  BY <1>13 DEF Sync
<1>14. CASE WriteFails
  BY <1>14 DEF WriteFails
<1>15. CASE LastBlock
  BY <1>15 DEF LastBlock
<1>16. CASE Final
  BY <1>16 DEF Final
<1>17. CASE Enter
  BY <1>17 DEF Enter
<1>18. CASE Emit
  BY <1>18 DEF Emit
<1>19. CASE EmitInNmi
  BY <1>19 DEF EmitInNmi
<1>20. CASE UNCHANGED vars
  BY <1>20 DEF vars
<1> QED
  BY <1>1, <1>2, <1>3, <1>4, <1>5, <1>6, <1>7, <1>8, <1>9, <1>10, <1>11, <1>12, <1>13, <1>14, <1>15,
     <1>16, <1>17, <1>18, <1>19, <1>20 DEF Next, Read, WriteOut

\* meter_session signs nothing that is not on the disk, and nothing after an
\* error of the writer thread, however the two threads are scheduled.
THEOREM VerdictsAreDurable == Spec => []VerdictIsDurable
<1>1. Settled => VerdictIsDurable
  BY DEF Settled, VerdictIsDurable
<1> QED BY <1>1, SettledInit, SettledNext, PTL DEF Spec

(***************************************************************************)
(* What JOURNAL_REPLAYED says of a file: its last record is the END mark,  *)
(* for the marks are in order and there are EndMark + 1 of them.              *)
(***************************************************************************)
LEMMA Sizes ==
  /\ Slots \in Nat \ {0} /\ Batch \in Nat \ {0} /\ Burst \in Nat \ {0} /\ EndMark \in Nat \ {0}
  /\ MaxEvents \in Nat /\ MaxSessions \in Nat
BY SizeAssumption

LEMMA MarksCount ==
  ASSUME NEW f \in Seq(Record), NEW a \in 1..Len(f), NEW b \in 1..Len(f), a < b, IsMark(f[b])
  PROVE  MarksUpTo(f, a) # MarksUpTo(f, b)
<1> DEFINE M(k) == {j \in 1..k : IsMark(f[j])}
<1>1. IsFiniteSet(M(b))
  <2>1. IsFiniteSet(1..b)
    BY FS_Interval
  <2>2. M(b) \in SUBSET (1..b)
    OBVIOUS
  <2>3. QED BY <2>1, <2>2, FS_Subset
<1>2. M(a) \in SUBSET M(b) /\ b \in M(b) /\ b \notin M(a)
  OBVIOUS
<1>3. Cardinality(M(a)) # Cardinality(M(b))
  <2> HIDE DEF M
  <2> QED BY <1>1, <1>2, FS_Subset
<1> QED BY <1>3 DEF MarksUpTo

LEMMA ReplayedEnds ==
  ASSUME NEW f \in Seq(Record), MeterCheck(f) = "JOURNAL_REPLAYED"
  PROVE  /\ Len(f) \in 1..Len(f) /\ f[Len(f)].mark = EndMark /\ f[Len(f)].lost = 0
         /\ \A k \in DOMAIN f : f[k].seq = k
<1>1. Accepted(f) /\ ~HasGap(f) /\ ~Loss(f) /\ MarksUpTo(f, Len(f)) = EndMark + 1
  BY DEF MeterCheck
<1>0. DOMAIN f = 1..Len(f) /\ Len(f) \in Nat /\ \A k \in 1..Len(f) : f[k] \in Record
  BY LenProperties, ElementOfSeq
<1>2. /\ DOMAIN f = 1..Len(f) /\ Len(f) \in Nat
      /\ \A k \in 1..Len(f) : /\ f[k].mark \in 0..NoMark /\ f[k].lost \in Nat
                              /\ IsMark(f[k]) => f[k].mark + 1 = MarksUpTo(f, k)
                              /\ k > 1 => f[k - 1].mark # EndMark
  <2>1. \A k \in 1..Len(f) : f[k].mark \in 0..NoMark /\ f[k].lost \in Nat
    BY <1>0 DEF Record
  <2>2. QED BY <1>0, <1>1, <2>1 DEF Accepted
<1>3. \E k \in 1..Len(f) : f[k].mark = EndMark
  <2> SUFFICES ASSUME \A k \in 1..Len(f) : f[k].mark # EndMark PROVE FALSE
    OBVIOUS
  <2> DEFINE S == {j \in 1..Len(f) : IsMark(f[j])}
             T == 0..(EndMark - 1)
             m == [j \in S |-> f[j].mark]
  <2>1. IsFiniteSet(S) /\ Cardinality(S) = EndMark + 1
    <3>1. IsFiniteSet(1..Len(f))
      BY <1>2, FS_Interval
    <3>2. S \in SUBSET (1..Len(f))
      OBVIOUS
    <3>3. QED BY <1>1, <3>1, <3>2, FS_Subset DEF MarksUpTo
  <2>2. IsFiniteSet(T) /\ Cardinality(T) = EndMark
    <3>1. 0 \in Int /\ EndMark - 1 \in Int /\ ~(0 > EndMark - 1) /\ EndMark - 1 - 0 + 1 = EndMark
      BY Sizes
    <3>2. QED BY <3>1, FS_Interval
  <2>3. m \in [S -> T]
    <3>1. ASSUME NEW j \in S PROVE f[j].mark \in T
      <4>1. f[j].mark \in 0..(EndMark + 1) /\ f[j].mark # EndMark + 1 /\ f[j].mark # EndMark
        BY <1>2 DEF IsMark, NoMark
      <4>2. QED BY <4>1, Sizes
    <3>2. QED BY <3>1
  <2>4. Cardinality(T) < Cardinality(S)
    BY <2>1, <2>2, Sizes
  <2>5. \E x, y \in S : x # y /\ m[x] = m[y]
    <3> HIDE DEF S, T, m
    <3> QED BY <2>1, <2>2, <2>3, <2>4, FS_PigeonHole
  <2>6. PICK x \in S, y \in S : x # y /\ f[x].mark = f[y].mark
    BY <2>5
  <2>7. MarksUpTo(f, x) = MarksUpTo(f, y)
    BY <1>2, <2>6
  <2>8. CASE x < y
    BY <2>6, <2>7, <2>8, MarksCount
  <2>9. CASE y < x
    BY <2>6, <2>7, <2>9, MarksCount
  <2> QED BY <1>2, <2>6, <2>8, <2>9
<1>4. PICK k \in 1..Len(f) : f[k].mark = EndMark
  BY <1>3
<1>5. k = Len(f)
  <2> SUFFICES ASSUME k # Len(f) PROVE FALSE
    OBVIOUS
  <2>1. k + 1 \in 1..Len(f) /\ k + 1 > 1 /\ (k + 1) - 1 = k
    <3>1. Len(f) \in Nat
      BY <1>0
    <3>2. k \in Int /\ 1 <= k /\ k <= Len(f) /\ k # Len(f)
      BY <1>4
    <3>3. QED BY <3>1, <3>2
  <2>2. QED BY <1>2, <1>4, <2>1
<1>6. f[Len(f)].lost = 0
  <2>1. ~(f[k].lost > 0) /\ f[k].lost \in Nat
    BY <1>1, <1>2, <1>4 DEF Loss
  <2>2. QED BY <1>5, <2>1
<1>7. \A n \in DOMAIN f : f[n].seq = n
  BY <1>1 DEF HasGap
<1> QED BY <1>2, <1>4, <1>5, <1>6, <1>7

(***************************************************************************)
(* The journal in the kernel.                                              *)
(***************************************************************************)
KernelTypes ==
  /\ log \in [0..(Slots - 1) -> Record]
  /\ head \in Nat /\ tail \in Nat /\ seq \in Nat /\ lost \in Nat
  /\ kphase \in 0..EndMark \cup {Unset}
  /\ active \in BOOLEAN /\ finished \in BOOLEAN /\ opened \in BOOLEAN

Counted == /\ active => ~finished /\ kphase # Unset
           /\ lost = 0 => seq = events + Following(kphase)
           /\ log \in [0..(Slots - 1) -> Observed]

\* Records keep what is said of them: END comes once, and the counters stay.
LEMMA ObservedGrows ==
  ASSUME ~finished \/ UNCHANGED <<finished, kphase, seq, lost>>
  PROVE  Observed \subseteq Observed'
BY DEF Observed

LEMMA ObservedRecords == Observed \subseteq Record
BY DEF Observed

LEMMA Appended ==
  ASSUME KernelTypes, Counted, ~finished, NEW m \in 0..NoMark, Append1(m), kphase' \in 0..EndMark,
         m = EndMark => finished' /\ kphase' = EndMark /\ ~Full
  PROVE  /\ log' \in [0..(Slots - 1) -> Record] /\ log' \in [0..(Slots - 1) -> Observed']
         /\ head' \in Nat /\ head <= head' /\ lost' \in Nat /\ seq' = seq + 1
         /\ Full => lost' = lost + 1
         /\ ~Full => lost' = lost
         /\ Observed \subseteq Observed'
<1>1. Observed \subseteq Observed'
  BY ObservedGrows
<1>2. CASE Full
  BY <1>1, <1>2 DEF Append1, KernelTypes, Counted
<1>3. CASE ~Full
  <2> DEFINE r == [seq |-> seq + 1, phase |-> kphase', mark |-> m,
                   lost |-> IF m = NoMark THEN 0 ELSE lost]
  <2>1. r \in Record
    BY DEF KernelTypes, Record
  <2>2. r \in Observed'
    BY <1>3, <2>1, Sizes DEF Append1, Observed, NoMark
  <2>3. log' = [log EXCEPT ![head % Slots] = r] /\ head' = head + 1 /\ lost' = lost /\ seq' = seq + 1
    BY <1>3 DEF Append1
  <2> HIDE DEF r
  <2>4. log' \in [0..(Slots - 1) -> Record] /\ log' \in [0..(Slots - 1) -> Observed']
    BY <1>1, <2>1, <2>2, <2>3 DEF KernelTypes, Counted
  <2> QED BY <1>1, <1>3, <2>3, <2>4 DEF KernelTypes
<1> QED BY <1>2, <1>3

LEMMA EmitKernel ==
  ASSUME KernelTypes, Counted, events \in Nat, Emit
  PROVE  KernelTypes' /\ Counted' /\ Observed \subseteq Observed' /\ head <= head'
<1>1. kphase \in 0..EndMark /\ ~finished /\ NoMark \in 0..NoMark /\ NoMark # EndMark /\ kphase # Unset
  BY Sizes DEF Emit, KernelTypes, Counted, NoMark, Unset
<1>2. /\ Append1(NoMark) /\ kphase' = kphase /\ events' = events + 1
      /\ UNCHANGED <<tail, active, finished, opened>>
  BY DEF Emit
<1>3. /\ log' \in [0..(Slots - 1) -> Record] /\ log' \in [0..(Slots - 1) -> Observed']
      /\ head' \in Nat /\ head <= head' /\ lost' \in Nat /\ seq' = seq + 1
      /\ Full => lost' = lost + 1
      /\ ~Full => lost' = lost
      /\ Observed \subseteq Observed'
  BY <1>1, <1>2, Appended
<1>4. lost' = 0 => seq' = events' + Following(kphase)'
  <2>1. lost' = 0 => lost = 0
    BY <1>3 DEF KernelTypes
  <2>2. Following(kphase)' = Following(kphase) /\ Following(kphase) \in Nat /\ seq \in Nat
    BY <1>1, <1>2 DEF Following, KernelTypes
  <2> QED BY <1>2, <1>3, <2>1, <2>2 DEF Counted
<1> QED BY <1>1, <1>2, <1>3, <1>4 DEF KernelTypes, Counted

LEMMA NmiKernel ==
  ASSUME KernelTypes, Counted, EmitInNmi
  PROVE  KernelTypes' /\ Counted' /\ Observed \subseteq Observed' /\ head' = head
<1>1. ~finished
  BY DEF EmitInNmi, Counted
<1>2. Observed \subseteq Observed'
  BY <1>1, ObservedGrows
<1>3. lost' \in Nat /\ lost' # 0
  BY DEF EmitInNmi, KernelTypes
<1> QED BY <1>2, <1>3 DEF EmitInNmi, KernelTypes, Counted

LEMMA MarkKernel ==
  ASSUME KernelTypes, Counted, events \in Nat, events' = events, NEW p \in 0..EndMark, MayMark(p), Mark(p)
  PROVE  KernelTypes' /\ Counted' /\ Observed \subseteq Observed' /\ head <= head' /\ tail' = tail
<1>1. /\ ~finished /\ p = Following(kphase) /\ ~Full /\ p \in 0..NoMark
  BY Sizes DEF MayMark, NoMark
<1>2. /\ Append1(p) /\ kphase' = p /\ active' = (p < EndMark) /\ finished' = (p = EndMark)
      /\ UNCHANGED <<tail, opened>>
  BY DEF Mark
<1>3. /\ log' \in [0..(Slots - 1) -> Record] /\ log' \in [0..(Slots - 1) -> Observed']
      /\ head' \in Nat /\ head <= head' /\ lost' \in Nat /\ seq' = seq + 1 /\ lost' = lost
      /\ Observed \subseteq Observed'
  BY <1>1, <1>2, Appended
<1>4. lost' = 0 => seq' = events' + Following(kphase)'
  <2>1. Following(kphase)' = p + 1
    BY <1>2, Sizes DEF Following, Unset
  <2> QED BY <1>1, <1>3, <2>1 DEF Counted, KernelTypes
<1>5. active' => ~finished' /\ kphase' # Unset
  <2>1. (active' => p < EndMark) /\ (finished' => p = EndMark) /\ kphase' = p
    BY <1>2, Zenon
  <2>2. (p < EndMark => p # EndMark) /\ p # Unset
    BY Sizes DEF Unset
  <2> QED BY <2>1, <2>2
<1> QED BY <1>2, <1>3, <1>4, <1>5 DEF KernelTypes, Counted

LEMMA ReleaseKernel ==
  ASSUME KernelTypes, Counted, events' = events, Release
  PROVE  KernelTypes' /\ Counted' /\ Observed \subseteq Observed' /\ head' = head /\ tail' = tail
<1>1. Observed \subseteq Observed'
  <2>1. ~finished \/ UNCHANGED <<finished, kphase, seq, lost>>
    BY DEF Release, Counted, KernelTypes
  <2> QED BY <2>1, ObservedGrows
<1>2. lost' \in Nat /\ (lost' = 0 => lost = 0)
  BY DEF Release, KernelTypes
<1> QED BY <1>1, <1>2 DEF Release, KernelTypes, Counted, Following

LEMMA KernelStays ==
  ASSUME KernelTypes, Counted,
         UNCHANGED <<log, head, seq, lost, kphase, active, finished, opened, events>>, tail' \in Nat
  PROVE  KernelTypes' /\ Counted' /\ Observed \subseteq Observed'
<1>1. Observed' = Observed
  BY DEF Observed
<1> QED BY <1>1 DEF KernelTypes, Counted, Following

(***************************************************************************)
(* The reader, the writer and what is on its way between them.             *)
(***************************************************************************)
ThreadTypes ==
  /\ written \in Nat /\ synced \in Nat /\ phase \in 0..EndMark \cup {Unset}
  /\ eof \in BOOLEAN /\ failing \in BOOLEAN /\ done \in BOOLEAN /\ errors \in BOOLEAN
  /\ pc \in {"closed", "m0", "loop", "read", "copied", "put", "control", "join"}
  /\ wpc \in {"none", "run", "write", "sync", "final"}
  /\ reads \in 0..Burst /\ stdin \in {"none", "next", "wrong", "eof"}
  /\ verdict \in Verdicts \cup {"none", "failed", "rejected", "killed"}
  /\ events \in 0..MaxEvents /\ sessions \in 0..MaxSessions

Carried ==
  /\ batch \in Seq(Observed) /\ parts \in Seq(Observed) /\ pending \in Seq(Observed)
  /\ file \in Seq(Observed) /\ blocks \in Seq(Seq(Observed))

Places ==
  /\ tail + Len(batch) <= head
  /\ pc \in {"read", "copied"} => reads < Burst
  /\ pc = "closed" => wpc = "none"
  /\ verdict \in Verdicts => pc = "closed" /\ verdict = MeterCheck(file)

LEMMA SeqGrows ==
  ASSUME NEW S, NEW T, S \subseteq T
  PROVE  Seq(S) \subseteq Seq(T) /\ Seq(Seq(S)) \subseteq Seq(Seq(T))
<1>1. Seq(S) \subseteq Seq(T)
  BY SeqMonotonic
<1> QED BY <1>1, SeqMonotonic

Steady == KernelTypes /\ Counted /\ ThreadTypes /\ Carried /\ Places

LEMMA JournalInvIs == JournalInv <=> Steady
<1>1. Seq(Observed) \subseteq Seq(Record) /\ Seq(Seq(Observed)) \subseteq Seq(Seq(Record))
  BY ObservedRecords, SeqGrows
<1>2. TypeOK /\ Carried <=> KernelTypes /\ ThreadTypes /\ Carried
  BY <1>1 DEF TypeOK, KernelTypes, ThreadTypes, Carried
<1>3. Ring /\ OnTheWay <=> Counted /\ Carried /\ tail + Len(batch) <= head
  BY DEF Ring, OnTheWay, Counted, Carried
<1> QED BY <1>2, <1>3 DEF JournalInv, Places, Steady

LEMMA CarriedOn ==
  ASSUME Observed \subseteq Observed', batch' \in Seq(Observed), parts' \in Seq(Observed),
         pending' \in Seq(Observed), file' \in Seq(Observed), blocks' \in Seq(Seq(Observed))
  PROVE  Carried'
<1>1. Seq(Observed) \subseteq Seq(Observed') /\ Seq(Seq(Observed)) \subseteq Seq(Seq(Observed'))
  BY SeqGrows
<1> QED BY <1>1 DEF Carried

LEMMA Nothing == <<>> \in Seq(Observed) /\ <<>> \in Seq(Seq(Observed)) /\ Len(<<>>) = 0
BY EmptySeq

\* What all steps of the writer thread, and of the reader away from the device, share.
LEMMA ThreadStep ==
  ASSUME Steady, UNCHANGED <<kernel, history>>,
         batch' \in Seq(Observed), parts' \in Seq(Observed),
         pending' \in Seq(Observed), file' \in Seq(Observed), blocks' \in Seq(Seq(Observed)),
         ThreadTypes', Places'
  PROVE  Steady'
<1>1. KernelTypes /\ Counted /\ tail \in Nat
  BY DEF Steady, KernelTypes
<1>2. KernelTypes' /\ Counted' /\ Observed \subseteq Observed'
  BY <1>1, KernelStays DEF kernel, history
<1>3. Carried'
  BY <1>2, CarriedOn
<1> QED BY <1>2, <1>3 DEF Steady

\* ... and those that change the journal.
LEMMA KernelStep ==
  ASSUME Steady, KernelTypes', Counted', Observed \subseteq Observed',
         batch' \in Seq(Observed), parts' \in Seq(Observed),
         pending' \in Seq(Observed), file' \in Seq(Observed), blocks' \in Seq(Seq(Observed)),
         ThreadTypes', Places'
  PROVE  Steady'
BY CarriedOn DEF Steady

LEMMA ExitStep ==
  ASSUME Steady, NEW v \in Verdicts \cup {"failed", "rejected", "killed"}, Exit(v),
         v \in Verdicts => v = MeterCheck(file)
  PROVE  Steady'
<1>1. KernelTypes /\ Counted /\ ThreadTypes /\ Carried /\ Places
  BY DEF Steady
<1>2. KernelTypes' /\ Counted' /\ Observed \subseteq Observed' /\ head' = head /\ tail' = tail
  BY <1>1, ReleaseKernel DEF Exit, history
<1>3. ThreadTypes'
  <2>1. /\ pc' = "closed" /\ wpc' = "none" /\ verdict' = v /\ reads' = 0 /\ eof' = FALSE
        /\ phase' = Unset /\ written' = 0 /\ failing' = FALSE /\ done' = FALSE /\ stdin' = "none"
        /\ UNCHANGED <<errors, synced, events, sessions>>
    BY DEF Exit, output, history
  <2>2. 0 \in 0..Burst
    BY Sizes
  <2> QED BY <1>1, <2>1, <2>2 DEF ThreadTypes
<1>4. Places'
  <2>1. tail' + Len(batch') <= head'
    <3>1. batch' = <<>> /\ Len(batch) \in Nat
      BY <1>1, LenProperties DEF Exit, Carried
    <3>2. QED BY <1>1, <1>2, <3>1, Nothing DEF Places, KernelTypes
  <2>2. file' = file /\ pc' = "closed" /\ wpc' = "none" /\ verdict' = v
    BY DEF Exit, output
  <2> QED BY <2>1, <2>2 DEF Places
<1>5. /\ batch' \in Seq(Observed) /\ parts' \in Seq(Observed)
      /\ pending' \in Seq(Observed) /\ file' \in Seq(Observed) /\ blocks' \in Seq(Seq(Observed))
  BY <1>1, Nothing DEF Exit, output, Carried
<1> QED BY <1>2, <1>3, <1>4, <1>5, KernelStep

LEMMA ReaderSteady ==
  ASSUME Steady, Start \/ MarkFirst \/ Loop \/ Deadline \/ Copy \/ Advance \/ Put \/ Control
  PROVE  Steady'
<1>0. KernelTypes /\ Counted /\ ThreadTypes /\ Carried /\ Places
  BY DEF Steady
<1>l. Len(batch) \in Nat /\ Len(parts) \in Nat /\ events \in Nat
  BY <1>0, LenProperties, Sizes DEF Carried, ThreadTypes
<1>v. "failed" \notin Verdicts /\ "none" \notin Verdicts
  BY NoVerdict
<1> USE DEF kernel, reader, shared, writer, output, history
<1>1. CASE Start
  <2>1. /\ batch' = <<>> /\ parts' = <<>> /\ pending' = <<>> /\ file' = <<>> /\ blocks' = <<>>
        /\ UNCHANGED <<log, head, tail, seq, lost, kphase, active, finished, events>> /\ opened' = TRUE
        /\ verdict' = "none" /\ wpc' = "run" /\ pc' = "m0"
    BY <1>1 DEF Start
  <2>2. KernelTypes' /\ Counted' /\ Observed \subseteq Observed'
    <3>1. Observed' = Observed
      BY <2>1 DEF Observed
    <3>2. QED BY <1>0, <2>1, <3>1 DEF KernelTypes, Counted, Following
  <2>3. Places'
    <3>1. tail' + Len(batch') <= head'
      BY <1>0, <1>l, <2>1, Nothing DEF Places, KernelTypes
    <3>2. QED BY <1>v, <2>1, <3>1 DEF Places
  <2>4. ThreadTypes'
    <3>1. /\ sessions < MaxSessions /\ sessions' = sessions + 1 /\ reads' = 0 /\ eof' = FALSE
          /\ phase' = 0 /\ written' = 0 /\ failing' = FALSE /\ done' = FALSE /\ errors' = FALSE
          /\ synced' = 0 /\ stdin' = "none" /\ events' = events
      BY <1>1 DEF Start
    <3>2. 0 \in 0..Burst /\ 0 \in 0..EndMark /\ sessions' \in 0..MaxSessions
      BY <1>0, <3>1, Sizes DEF ThreadTypes
    <3>3. QED BY <1>0, <2>1, <3>1, <3>2 DEF ThreadTypes
  <2>5. QED BY <2>1, <2>2, <2>3, <2>4, Nothing, KernelStep
<1>2. CASE MarkFirst
  <2>1. /\ UNCHANGED <<batch, parts, reads, eof, phase, written, blocks, writer, output, stdin, verdict, history>>
        /\ pc = "m0" /\ pc' \in {"loop", "join"}
        /\ failing' \in BOOLEAN /\ done' \in BOOLEAN
    BY <1>0, <1>2 DEF MarkFirst, Goto, Raise, ThreadTypes
  <2>2. KernelTypes' /\ Counted' /\ Observed \subseteq Observed' /\ head <= head' /\ tail' = tail
    <3>1. CASE MayMark(0) /\ Mark(0)
      <4>1. 0 \in 0..EndMark /\ events' = events
        BY <2>1, Sizes
      <4>2. QED BY <1>0, <1>l, <3>1, <4>1, MarkKernel
    <3>2. CASE UNCHANGED kernel
      BY <1>0, <2>1, <3>2, KernelStays DEF KernelTypes
    <3> QED BY <1>2, <3>1, <3>2 DEF MarkFirst
  <2>3. Places'
    <3>1. tail' + Len(batch') <= head'
      BY <1>0, <1>l, <2>1, <2>2 DEF Places, KernelTypes
    <3>2. QED BY <1>0, <2>1, <3>1 DEF Places
  <2>4. ThreadTypes'
    BY <1>0, <2>1 DEF ThreadTypes
  <2>5. QED BY <1>0, <2>1, <2>2, <2>3, <2>4, KernelStep DEF Carried
<1>3. CASE Loop \/ Deadline
  <2>1. /\ UNCHANGED <<batch, phase, written, blocks, kernel, writer, output, stdin, verdict, history>>
        /\ pc = "loop" /\ pc' \in {"read", "join"} /\ (pc' = "read" => reads' = 0)
        /\ parts' \in {parts, <<>>} /\ reads' \in {reads, 0}
        /\ eof' \in BOOLEAN /\ failing' \in BOOLEAN /\ done' \in BOOLEAN
    BY <1>0, <1>3 DEF Loop, Deadline, Raise, ThreadTypes
  <2>2. Places'
    BY <1>0, <2>1, Sizes DEF Places
  <2>3. ThreadTypes'
    BY <1>0, <2>1, Sizes DEF ThreadTypes
  <2>4. QED BY <1>0, <2>1, <2>2, <2>3, Nothing, ThreadStep DEF Carried
<1>4. CASE Copy
  <2> DEFINE n == IF head - tail < Batch THEN head - tail ELSE Batch
  <2>1. n \in Nat /\ tail + n <= head
    BY <1>0, <1>l, Sizes DEF Places, KernelTypes
  <2>2. /\ pc = "read" /\ batch' = [k \in 1..n |-> log[(tail + k - 1) % Slots]]
        /\ pc' = IF n > 0 THEN "copied" ELSE "put"
        /\ eof' = (n = 0 /\ finished)
        /\ UNCHANGED <<parts, reads, phase, written, failing, kernel, shared, writer, output, stdin, verdict, history>>
    BY <1>4 DEF Copy
  <2> HIDE DEF n
  <2>3. batch' \in Seq(Observed) /\ Len(batch') = n
    <3>1. \A k \in 1..n : log[(tail + k - 1) % Slots] \in Observed
      <4> SUFFICES ASSUME NEW k \in 1..n PROVE log[(tail + k - 1) % Slots] \in Observed
        OBVIOUS
      <4>1. (tail + k - 1) % Slots \in 0..(Slots - 1)
        BY <1>0, <2>1, Sizes DEF KernelTypes
      <4>2. QED BY <1>0, <4>1 DEF Counted
    <3>2. batch' \in [1..n -> Observed]
      BY <2>2, <3>1
    <3>3. QED BY <2>1, <3>2, IsASeq
  <2>4. Places'
    <3>1. tail' + Len(batch') <= head'
      BY <2>1, <2>2, <2>3
    <3>2. QED BY <1>0, <2>2, <3>1 DEF Places
  <2>5. ThreadTypes'
    <3>1. eof' \in BOOLEAN
      BY <2>2, Zenon
    <3>2. pc' \in {"copied", "put"}
      BY <2>2
    <3>3. QED BY <1>0, <2>2, <3>1, <3>2 DEF ThreadTypes
  <2>6. QED BY <1>0, <2>2, <2>3, <2>4, <2>5, ThreadStep DEF Carried
<1>5. CASE Advance
  <2>1. /\ pc = "copied" /\ tail' = tail + Len(batch) /\ parts' = parts \o batch /\ batch' = <<>>
        /\ reads' = reads + 1 /\ pc' = IF reads' < Burst THEN "read" ELSE "put"
        /\ UNCHANGED <<log, head, seq, lost, kphase, active, finished, opened>>
        /\ UNCHANGED <<eof, phase, written, failing, shared, writer, output, stdin, verdict, history>>
    BY <1>5 DEF Advance
  <2>2. KernelTypes' /\ Counted' /\ Observed \subseteq Observed'
    <3>1. tail' \in Nat
      BY <1>0, <1>l, <2>1 DEF KernelTypes
    <3>2. QED BY <1>0, <2>1, <3>1, KernelStays
  <2>3. parts' \in Seq(Observed)
    BY <1>0, <2>1, ConcatProperties DEF Carried
  <2>4. reads < Burst /\ reads' \in 0..Burst
    BY <1>0, <2>1, Sizes DEF Places, ThreadTypes
  <2>5. Places'
    <3>1. tail' + Len(batch') <= head'
      BY <1>0, <1>l, <2>1, Nothing DEF Places, KernelTypes
    <3>2. pc' \in {"read", "put"} /\ (pc' = "read" => reads' < Burst)
      BY <2>1
    <3>3. QED BY <1>0, <2>1, <3>1, <3>2 DEF Places
  <2>6. ThreadTypes'
    BY <1>0, <2>1, <2>4 DEF ThreadTypes
  <2>7. QED BY <1>0, <2>1, <2>2, <2>3, <2>5, <2>6, Nothing, KernelStep DEF Carried
<1>6. CASE Put
  <2>1. /\ pc = "put" /\ pc' \in {"join", "control"} /\ written' = written + Len(parts) /\ parts' = <<>>
        /\ failing' \in BOOLEAN /\ done' \in BOOLEAN
        /\ blocks' = blocks \/ blocks' = Append(blocks, parts)
        /\ UNCHANGED <<batch, reads, eof, phase, kernel, writer, output, stdin, verdict, history>>
    BY <1>0, <1>6 DEF Put, ThreadTypes
  <2>2. blocks' \in Seq(Seq(Observed))
    <3>1. blocks \in Seq(Seq(Observed)) /\ parts \in Seq(Observed)
      BY <1>0 DEF Carried
    <3>2. Append(blocks, parts) \in Seq(Seq(Observed))
      BY <3>1, AppendProperties
    <3>3. QED BY <2>1, <3>1, <3>2
  <2>3. Places'
    BY <1>0, <2>1 DEF Places
  <2>4. ThreadTypes'
    BY <1>0, <1>l, <2>1 DEF ThreadTypes
  <2>5. QED BY <1>0, <2>1, <2>2, <2>3, <2>4, Nothing, ThreadStep DEF Carried
<1>7. CASE Control
  <2>1. /\ UNCHANGED <<batch, parts, reads, eof, written, blocks, writer, output, verdict, history>>
        /\ pc = "control" /\ pc' \in {"loop", "join"} /\ stdin' \in {stdin, "none"}
        /\ failing' \in BOOLEAN /\ done' \in BOOLEAN
        /\ phase' = phase \/ (phase < EndMark /\ phase' = phase + 1)
    BY <1>0, <1>7 DEF Control, Goto, Raise, ThreadTypes
  <2>2. phase < EndMark => phase + 1 \in 0..EndMark
    BY <1>0, Sizes DEF ThreadTypes, Unset
  <2>3. KernelTypes' /\ Counted' /\ Observed \subseteq Observed' /\ head <= head' /\ tail' = tail
    <3>1. CASE phase < EndMark /\ MayMark(phase + 1) /\ Mark(phase + 1)
      <4>1. PICK p \in 0..EndMark : MayMark(p) /\ Mark(p)
        BY <2>2, <3>1
      <4>2. QED BY <1>0, <1>l, <2>1, <4>1, MarkKernel
    <3>2. CASE UNCHANGED kernel
      BY <1>0, <2>1, <3>2, KernelStays DEF KernelTypes
    <3> QED BY <1>7, <3>1, <3>2 DEF Control
  <2>4. Places'
    <3>1. tail' + Len(batch') <= head'
      BY <1>0, <1>l, <2>1, <2>3 DEF Places, KernelTypes
    <3>2. QED BY <1>0, <2>1, <3>1 DEF Places
  <2>5. ThreadTypes'
    BY <1>0, <2>1, <2>2 DEF ThreadTypes
  <2>6. QED BY <1>0, <2>1, <2>3, <2>4, <2>5, KernelStep DEF Carried
<1> QED BY <1>1, <1>2, <1>3, <1>4, <1>5, <1>6, <1>7

LEMMA WriterSteady ==
  ASSUME Steady, WriteOut \/ Enter
  PROVE  Steady'
<1>0. KernelTypes /\ Counted /\ ThreadTypes /\ Carried /\ Places
  BY DEF Steady
<1> USE DEF kernel, reader, shared, writer, output, history
<1>1. CASE Get
  <2>1. /\ wpc = "run" /\ wpc' \in {"write", "sync"} 
        /\ \/ blocks # <<>> /\ pending' = Head(blocks) /\ blocks' = Tail(blocks)
           \/ UNCHANGED <<pending, blocks>>
        /\ UNCHANGED <<done, errors, kernel, reader, output, stdin, verdict, history>>
    BY <1>1 DEF Get
  <2>2. pending' \in Seq(Observed) /\ blocks' \in Seq(Seq(Observed))
    BY <1>0, <2>1, HeadTailProperties DEF Carried
  <2>4. Places'
    BY <1>0, <2>1 DEF Places
  <2>5. ThreadTypes'
    BY <1>0, <2>1 DEF ThreadTypes
  <2>6. QED BY <1>0, <2>1, <2>2, <2>4, <2>5, ThreadStep DEF Carried
<1>2. CASE Write
  <2>1. PICK n \in 1..Len(pending) : /\ file' = file \o SubSeq(pending, 1, n)
                                     /\ pending' = SubSeq(pending, n + 1, Len(pending))
    BY <1>2 DEF Write
  <2>2. /\ wpc = "write" /\ wpc' = IF pending' = <<>> THEN "sync" ELSE "write"
        /\ UNCHANGED <<errors, synced, kernel, reader, shared, stdin, verdict, history>>
    BY <1>2 DEF Write
  <2>3. pending' \in Seq(Observed) /\ file' \in Seq(Observed)
    <3>1. Len(pending) \in Nat /\ n \in Nat /\ 1 <= n /\ n <= Len(pending)
      BY <1>0, <2>1, LenProperties DEF Carried
    <3>2. SubSeq(pending, 1, n) \in Seq(Observed) /\ SubSeq(pending, n + 1, Len(pending)) \in Seq(Observed)
      <4>1. \A k \in 1..n : k \in 1..Len(pending)
        BY <3>1
      <4>2. \A k \in (n + 1)..Len(pending) : k \in 1..Len(pending)
        BY <3>1
      <4>3. QED BY <1>0, <3>1, <4>1, <4>2, SubSeqProperties DEF Carried
    <3>3. QED BY <1>0, <2>1, <3>2, ConcatProperties DEF Carried
  <2>4. Places'
    BY <1>0, <2>2 DEF Places
  <2>5. ThreadTypes'
    BY <1>0, <2>2 DEF ThreadTypes
  <2>6. QED BY <1>0, <2>2, <2>3, <2>4, <2>5, ThreadStep DEF Carried
<1>3. CASE Sync \/ WriteFails \/ LastBlock \/ Final \/ Enter
  <2>1. /\ UNCHANGED <<pending, file, kernel, reader, shared, verdict, history>>
        /\ wpc' \in {"run", "final", "none"} \/ wpc' = wpc
        /\ wpc # "none" \/ wpc' = wpc
        /\ synced' \in {synced, Len(file)} /\ errors' \in BOOLEAN
        /\ stdin' \in {stdin, "next", "wrong", "eof"}
    BY <1>0, <1>3 DEF Sync, WriteFails, LastBlock, Final, Enter, ThreadTypes
  <2>2. Len(file) \in Nat
    BY <1>0, LenProperties DEF Carried
  <2>3. Places'
    BY <1>0, <2>1 DEF Places
  <2>4. ThreadTypes'
    BY <1>0, <2>1, <2>2 DEF ThreadTypes
  <2>5. QED BY <1>0, <2>1, <2>3, <2>4, ThreadStep DEF Carried
<1> QED BY <1>1, <1>2, <1>3 DEF WriteOut

LEMMA EmitSteady ==
  ASSUME Steady, Emit \/ EmitInNmi
  PROVE  Steady'
<1>0. KernelTypes /\ Counted /\ ThreadTypes /\ Carried /\ Places
  BY DEF Steady
<1>1. /\ events < MaxEvents /\ events' = events + 1
      /\ UNCHANGED <<tail, sessions, reader, shared, writer, output, stdin, verdict>>
  BY DEF Emit, EmitInNmi
<1>2. events \in Nat /\ events' \in 0..MaxEvents /\ Len(batch) \in Nat
  BY <1>0, <1>1, LenProperties, Sizes DEF ThreadTypes, Carried
<1>3. KernelTypes' /\ Counted' /\ Observed \subseteq Observed' /\ head <= head'
  BY <1>0, <1>2, EmitKernel, NmiKernel DEF KernelTypes
<1>4. Places'
  <2>1. tail' + Len(batch') <= head'
    BY <1>0, <1>1, <1>2, <1>3 DEF Places, KernelTypes, reader
  <2> QED BY <1>0, <1>1, <2>1 DEF Places, reader, writer, output
<1>5. ThreadTypes'
  BY <1>0, <1>1, <1>2 DEF ThreadTypes, reader, shared, writer, output
<1> QED BY <1>0, <1>1, <1>3, <1>4, <1>5, KernelStep DEF Carried, reader, shared, writer, output

LEMMA SteadyNext == Steady /\ [Next]_vars => Steady'
<1> SUFFICES ASSUME Steady, [Next]_vars PROVE Steady'
  OBVIOUS
<1>1. CASE Join
  <2>1. PICK v \in Verdicts \cup {"failed", "rejected", "killed"} :
          Exit(v) /\ (v \in Verdicts => v = MeterCheck(file))
    BY <1>1 DEF Join, MeterCheck, Verdicts
  <2> QED BY <2>1, ExitStep
<1>2. CASE Kill
  <2>1. "killed" \notin Verdicts /\ Exit("killed")
    BY <1>2, NoVerdict DEF Kill
  <2> QED BY <2>1, ExitStep
<1>3. CASE UNCHANGED vars
  <2>1. /\ UNCHANGED <<kernel, history>> /\ ThreadTypes' /\ Places' /\ Carried
    BY <1>3 DEF vars, Steady, ThreadTypes, Places, kernel, reader, shared, writer, output, history
  <2> QED BY <1>3, <2>1, ThreadStep DEF vars, Carried, reader, shared, writer, output
<1> QED BY <1>1, <1>2, <1>3, ReaderSteady, WriterSteady, EmitSteady DEF Next, Read

LEMMA SteadyInit == Init => Steady
<1> SUFFICES ASSUME Init PROVE Steady
  OBVIOUS
<1>1. /\ log = [s \in 0..(Slots - 1) |-> Blank] /\ head = 0 /\ tail = 0 /\ seq = 0 /\ lost = 0
      /\ kphase = Unset /\ active = FALSE /\ finished = FALSE /\ opened = FALSE /\ events = 0
  BY DEF Init
<1>2. Blank \in Observed
  BY Sizes DEF Blank, Observed, Record, NoMark
<1>3. KernelTypes /\ Counted
  <2>1. log \in [0..(Slots - 1) -> Record] /\ log \in [0..(Slots - 1) -> Observed]
    BY <1>1, <1>2, ObservedRecords
  <2>2. KernelTypes
    BY <1>1, <2>1 DEF KernelTypes
  <2>3. Counted
    BY <1>1, <2>1 DEF Counted, Following
  <2> QED BY <2>2, <2>3
<1>4. ThreadTypes
  <2>1. 0 \in 0..Burst /\ 0 \in 0..MaxEvents /\ 0 \in 0..MaxSessions /\ 0 \in Nat
    BY Sizes
  <2> QED BY <2>1 DEF Init, ThreadTypes
<1>5. Carried /\ Places
  BY <1>1, Nothing, NoVerdict DEF Init, Carried, Places
<1> QED BY <1>3, <1>4, <1>5 DEF Steady

\* The ring, the reader, the queue and the writer keep every record in its type;
\* what is on its way to the file is what the kernel has appended.
THEOREM JournalIsSteady == Spec => []JournalInv
<1>1. Steady => JournalInv
  BY JournalInvIs
<1> QED BY <1>1, SteadyInit, SteadyNext, PTL DEF Spec

\* A journal reported as JOURNAL_REPLAYED has every event between M0 and END, for
\* any sizes of the ring, the batches, the queue and the file, any number of events
\* and sessions, and whatever is lost in the ring or in an NMI.
THEOREM ReplayedJournalsAreComplete == Spec => []ReplayedIsComplete
<1>1. Steady => ReplayedIsComplete
  <2> SUFFICES ASSUME Steady, verdict = "JOURNAL_REPLAYED"
               PROVE  Len(file) = events + EndMark + 1 /\ \A k \in DOMAIN file : file[k].seq = k
    BY DEF ReplayedIsComplete
  <2>1. MeterCheck(file) = "JOURNAL_REPLAYED" /\ file \in Seq(Observed) /\ file \in Seq(Record)
    <3>1. "JOURNAL_REPLAYED" \in Verdicts
      BY DEF Verdicts
    <3>2. Seq(Observed) \subseteq Seq(Record)
      BY ObservedRecords, SeqGrows
    <3>3. QED BY <3>1, <3>2 DEF Steady, Places, Carried
  <2>2. /\ Len(file) \in 1..Len(file) /\ file[Len(file)].mark = EndMark /\ file[Len(file)].lost = 0
        /\ \A k \in DOMAIN file : file[k].seq = k
    BY <2>1, ReplayedEnds
  <2>3. file[Len(file)] \in Observed /\ Len(file) \in DOMAIN file
    BY <2>1, <2>2, ElementOfSeq, LenProperties
  <2>4. kphase = EndMark /\ seq = Len(file) /\ lost = 0
    BY <2>2, <2>3 DEF Observed
  <2>5. seq = events + EndMark + 1
    <3>1. Following(kphase) = EndMark + 1
      BY <2>4, Sizes DEF Following, Unset
    <3>2. QED BY <2>4, <3>1, Sizes DEF Steady, Counted, ThreadTypes
  <2> QED BY <2>2, <2>4, <2>5
<1> QED BY <1>1, SteadyInit, SteadyNext, PTL DEF Spec

(***************************************************************************)
(* What makes CensusIsCurrent inductive.  A census that no hook has called *)
(* off is current in what it has read so far: a change of what it read     *)
(* would have passed a hook since, but for a rename or a registration that *)
(* is between its two hooks.                                               *)
(***************************************************************************)
CensusInv ==
  /\ state \in {"off", "census", "ready", "invalid"} /\ stale \subseteq Aspects
  /\ state = "off" <=> cpc = "idle"
  /\ state = "census" => cpc # "done"
  /\ state = "ready" => cpc = "done"
  /\ state \in {"census", "ready"} =>
       /\ cpc # "walk" => "list" \notin stale
       /\ cpc \in {"notifiers", "ready", "done"} =>
            /\ mutator # "bind" /\ "driver" \notin stale
            /\ "name" \in stale => mutator = "renamed"
       /\ cpc \in {"ready", "done"} /\ "notifier" \in stale => mutator = "renamed"

(***************************************************************************)
(* And PairedOmitsNothing: a boundary that is left out leaves an invalid   *)
(* census behind, for good, which END reports.                             *)
(***************************************************************************)
OmissionInv ==
  /\ exported => cpc = "done"
  /\ omitted => exported /\ state = "invalid"
  /\ ended /\ ~endError => ~omitted

(***************************************************************************)
(* The semantic emitter.  What a hook of the cycle or the dictionary does  *)
(* to the census: nothing, or it calls it off, which it does whenever a    *)
(* boundary goes by without a record.                                      *)
(***************************************************************************)
Hooked ==
  /\ UNCHANGED <<cpc, mutator, stale, exported, tracing, ended, endError>>
  /\ state' = state \/ state' = Invalidated
  /\ omitted' = omitted \/ (Miss /\ (state' = Invalidated \/ Off))

LEMMA SlotDoes ==
  ASSUME NEW ok, Slot(ok)
  PROVE  /\ state' = state \/ state' = Invalidated
         /\ ~ok => state' = Invalidated
BY DEF Slot

LEMMA BeginHooked ==
  ASSUME NEW t, NEW op, NEW d, NEW p, NEW c, Begin(t, op, d, p, c)
  PROVE  Hooked
<1>1. UNCHANGED <<cpc, mutator, stale, exported, tracing, ended, endError>>
  BY DEF Begin, census, recording
<1>2. CASE Off \/ Filtered(op, p)
  BY <1>1, <1>2 DEF Begin, NoSlotUsed, Hooked
<1>3. CASE ~(Off \/ Filtered(op, p))
  <2>1. CASE state' = Invalidated /\ Miss
    BY <1>1, <2>1 DEF Hooked
  <2>2. CASE NoSlotUsed /\ UNCHANGED omitted
    BY <1>1, <2>2 DEF Hooked, NoSlotUsed
  <2>3. CASE \E ok \in BOOLEAN : Slot(ok) /\ IF ok THEN UNCHANGED omitted ELSE Miss
    BY <1>1, <2>3, SlotDoes DEF Hooked
  <2> QED BY <1>3, <2>1, <2>2, <2>3 DEF Begin
<1> QED BY <1>2, <1>3

LEMMA TokensHooked ==
  ASSUME NEW t, NEW d, NEW c,
         StageBegin(t, c) \/ Own(t, d) \/ Renew(t, c) \/ Disown(t)
  PROVE  Hooked
<1>1. UNCHANGED <<cpc, mutator, stale, exported, tracing, ended, endError>>
  BY DEF StageBegin, Own, Renew, Disown, census, recording
<1>2. CASE StageBegin(t, c)
  <2>1. CASE Off
    BY <1>1, <1>2, <2>1 DEF StageBegin, NoSlotUsed, Hooked
  <2>2. CASE ~Off
    BY <1>1, <1>2, <2>2, SlotDoes DEF StageBegin, Hooked
  <2> QED BY <2>1, <2>2
<1>3. CASE Own(t, d)
  BY <1>1, <1>3 DEF Own, hindsight, Hooked
<1>4. CASE Renew(t, c)
  <2>1. CASE NoSlotUsed /\ UNCHANGED omitted
    BY <1>1, <2>1 DEF Hooked, NoSlotUsed
  <2>2. CASE state' = Invalidated /\ Miss
    BY <1>1, <2>2 DEF Hooked
  <2>3. CASE Off /\ Miss /\ NoSlotUsed
    BY <1>1, <2>3 DEF Hooked, NoSlotUsed
  <2>4. CASE \E ok \in BOOLEAN : Slot(ok) /\ IF ok THEN UNCHANGED omitted ELSE Miss
    BY <1>1, <2>4, SlotDoes DEF Hooked
  <2>5. CASE ~Top(t).owner
    BY <1>4, <2>1, <2>5 DEF Renew
  <2>6. CASE Top(t).owner
    BY <1>4, <2>2, <2>3, <2>4, <2>6 DEF Renew
  <2> QED BY <2>5, <2>6
<1>5. CASE Disown(t)
  BY <1>1, <1>5 DEF Disown, hindsight, Hooked
<1> QED BY <1>2, <1>3, <1>4, <1>5

LEMMA RecordsHooked ==
  ASSUME NEW t, NEW x,
         \/ Entered(t) \/ EnterMidReset(t) \/ End(t) \/ EndKeep(t)
         \/ AuxProgress(t, x) \/ AuxDecision(t, x)
  PROVE  Hooked
<1>1. UNCHANGED <<cpc, mutator, stale, exported, tracing, ended, endError, omitted>>
  BY DEF Entered, EnterMidReset, End, EndKeep, AuxProgress, AuxDecision, census, recording
<1>2. state' = state \/ state' = Invalidated
  <2>1. CASE Exited(t)
    BY <2>1, SlotDoes DEF Exited, NoSlotUsed
  <2>2. CASE \E c : Aux(t, c)
    BY <2>2, SlotDoes DEF Aux, NoSlotUsed
  <2>3. CASE Entered(t)
    BY <2>3, SlotDoes DEF Entered, NoSlotUsed
  <2>4. CASE EnterMidReset(t)
    BY <2>4 DEF EnterMidReset
  <2>5. CASE End(t) \/ EndKeep(t)
    BY <2>1, <2>5 DEF End, EndKeep
  <2>6. CASE AuxProgress(t, x) \/ AuxDecision(t, x)
    BY <2>2, <2>6 DEF AuxProgress, AuxDecision
  <2> QED BY <2>3, <2>4, <2>5, <2>6
<1> QED BY <1>1, <1>2 DEF Hooked

LEMMA KernelHooked ==
  ASSUME NEW t, NEW d, NEW on,
         Reinit(t) \/ Await(t, d) \/ Complete(t) \/ Queue(t) \/ SetOrdinary(on) \/ Quiet
  PROVE  Hooked
BY DEF Reinit, Await, Complete, Queue, SetOrdinary, Quiet, emitter, census, recording, hindsight,
       Hooked

LEMMA TaskHooked ==
  ASSUME NEW t \in Tasks, Task(t)
  PROVE  Hooked
<1>1. CASE Started(t) \/ Schedule(t) \/ Jumps(t)
  <2>1. Quiet
    BY <1>1 DEF Started, Schedule, Jumps
  <2> QED BY <2>1, KernelHooked
<1>2. CASE Answer(t)
  BY <1>2, RecordsHooked DEF Answer
<1>3. CASE Proceed(t)
  BY <1>3, RecordsHooked DEF Proceed
<1>4. CASE Hooks(t)
  <2>1. CASE Begin(t, Op(t), Dev(t), PhaseOf(t), Call(t))
    BY <2>1, BeginHooked
  <2>2. CASE Entered(t) \/ EnterMidReset(t) \/ End(t) \/ EndKeep(t)
             \/ AuxDecision(t, Dev(t) \in Async)
    BY <2>2, RecordsHooked
  <2>3. CASE StageBegin(t, Call(t)) \/ Own(t, Dev(t)) \/ Renew(t, Call(t)) \/ Disown(t)
    BY <2>3, TokensHooked
  <2>4. CASE \/ Reinit(t) \/ Await(t, Dev(t)) \/ Complete(t) \/ Queue(t)
             \/ SetOrdinary(Op(t) = "resume") \/ SetOrdinary(FALSE) \/ Quiet
    BY <2>4, KernelHooked
  <2> QED BY <1>4, <2>1, <2>2, <2>3, <2>4 DEF Hooks
<1> QED BY <1>1, <1>2, <1>3, <1>4 DEF Task

LEMMA DictionaryHooked ==
  ASSUME Dictionary
  PROVE  /\ UNCHANGED <<cpc, mutator, stale, tracing, ended, endError, omitted>>
         /\ state' = state \/ state' = Invalidated
         /\ exported' = exported \/ cpc = "done"
<1>1. UNCHANGED <<cpc, mutator, stale, tracing, ended, endError, omitted>>
  BY DEF Dictionary, census
<1>2. CASE StartDictionary
  BY <1>1, <1>2 DEF StartDictionary, NoSlotUsed
<1>3. CASE EmitRows
  BY <1>1, <1>3, SlotDoes DEF EmitRows
<1>4. CASE SendDictionary
  BY <1>1, <1>4 DEF SendDictionary, NoSlotUsed
<1> QED BY <1>2, <1>3, <1>4 DEF Dictionary

LEMMA OperatorDoes ==
  ASSUME Operator
  PROVE  /\ UNCHANGED <<cpc, mutator, stale, exported, omitted>>
         /\ \/ UNCHANGED <<state, ended, endError>>
            \/ /\ cpc = "done" /\ state' = "invalid" /\ (state # "ready" => endError')
<1>1. CASE \E on \in BOOLEAN : Switch(on)
  BY <1>1 DEF Switch, emitter, census
<1>2. CASE Stop
  <2>1. endError' = (tracing \/ state # "ready")
    BY <1>2 DEF Stop
  <2>2. state # "ready" => endError'
    BY <2>1, Zenon
  <2> QED BY <1>2, <2>2 DEF Stop, census, hindsight
<1> QED BY <1>1, <1>2 DEF Operator, Switch, emitter, census

(***************************************************************************)
(* The census.                                                             *)
(***************************************************************************)
LEMMA CensusInit == FlowInit => CensusInv /\ OmissionInv
BY DEF FlowInit, EmitterInit, CensusInv, OmissionInv

LEMMA CensusCalledOff ==
  ASSUME CensusInv, UNCHANGED <<cpc, mutator, stale>>,
         state' = state \/ state' = Invalidated \/ (cpc = "done" /\ state' = "invalid")
  PROVE  CensusInv'
BY DEF CensusInv, Invalidated

LEMMA CensusReads ==
  ASSUME CensusInv, Census
  PROVE  CensusInv'
<1>1. UNCHANGED mutator
  BY DEF Census
<1>2. CASE EnterCensus \/ RejectCensus
  BY <1>1, <1>2 DEF EnterCensus, RejectCensus, CensusInv
<1>3. CASE WalkLists
  BY <1>1, <1>3 DEF WalkLists, Surveyed, CensusInv
<1>4. CASE CopyLabels
  BY <1>1, <1>4 DEF CopyLabels, Surveyed, CensusInv
<1>5. CASE CopyNotifiers
  BY <1>1, <1>5 DEF CopyNotifiers, Surveyed, CensusInv
<1>6. CASE AcceptCensus
  BY <1>1, <1>6 DEF AcceptCensus, CensusInv
<1> QED BY <1>2, <1>3, <1>4, <1>5, <1>6 DEF Census

LEMMA CensusMeetsChanges ==
  ASSUME CensusInv, Mutate
  PROVE  CensusInv'
<1>1. UNCHANGED cpc
  BY DEF Mutate
<1>2. CASE \E from, to : Hook(from, to)
  <2>1. state' = Invalidated /\ UNCHANGED stale
    BY <1>2 DEF Hook
  <2> QED BY <1>1, <2>1 DEF CensusInv, Invalidated
<1>3. CASE LockedChange
  BY <1>1, <1>3 DEF LockedChange, CensusInv, Invalidated, Aspects
<1>4. CASE Alter("bind", "changed", "driver")
  BY <1>1, <1>4 DEF Alter, CensusInv, Aspects
<1>5. CASE Alter("rename", "renamed", "name")
  BY <1>1, <1>5 DEF Alter, CensusInv, Aspects
<1>6. CASE Alter("register", "renamed", "notifier")
  BY <1>1, <1>6 DEF Alter, CensusInv, Aspects
<1> QED BY <1>2, <1>3, <1>4, <1>5, <1>6 DEF Mutate

LEMMA CensusStep == CensusInv /\ [FlowNext]_flowVars => CensusInv'
<1> SUFFICES ASSUME CensusInv, [FlowNext]_flowVars PROVE CensusInv'
  OBVIOUS
<1>1. CASE Census
  BY <1>1, CensusReads
<1>2. CASE Mutate
  BY <1>2, CensusMeetsChanges
<1>3. CASE Dictionary
  BY <1>3, DictionaryHooked, CensusCalledOff
<1>4. CASE Operator
  BY <1>4, OperatorDoes, CensusCalledOff
<1>5. CASE \E t \in Tasks : Task(t)
  BY <1>5, TaskHooked, CensusCalledOff DEF Hooked
<1>6. CASE UNCHANGED flowVars
  <2>1. UNCHANGED <<cpc, mutator, stale, state>>
    BY <1>6 DEF flowVars, census, emitter
  <2> QED BY <2>1, CensusCalledOff
<1> QED BY <1>1, <1>2, <1>3, <1>4, <1>5, <1>6 DEF FlowNext, Kernel

(***************************************************************************)
(* The census stays current: for any devices, tasks, programs of the PM    *)
(* core and bounds, what a census that is ready says of lists and links,   *)
(* drivers, names and notifiers is what the hooks meet, but for a change   *)
(* that is between its two hooks (r5obs2_census, r5obs2_topology_changed). *)
(***************************************************************************)
THEOREM ReadyCensusIsCurrent == FlowSpec => []CensusIsCurrent
<1>1. FlowInit => CensusInv
  BY CensusInit
<1>2. CensusInv /\ [FlowNext]_flowVars => CensusInv'
  BY CensusStep
<1>3. CensusInv => CensusIsCurrent
  BY DEF CensusInv, CensusIsCurrent, Aspects
<1> QED BY <1>1, <1>2, <1>3, PTL DEF FlowSpec

(***************************************************************************)
(* Boundaries that are left out.                                           *)
(***************************************************************************)
LEMMA OmissionStep == CensusInv /\ OmissionInv /\ [FlowNext]_flowVars => OmissionInv'
<1> SUFFICES ASSUME CensusInv, OmissionInv, [FlowNext]_flowVars PROVE OmissionInv'
  OBVIOUS
<1>1. /\ cpc = "done" => state \in {"ready", "invalid"}
      /\ exported => state \in {"ready", "invalid"}
  BY DEF CensusInv, OmissionInv
<1>2. CASE Census
  <2>1. /\ UNCHANGED <<exported, omitted, ended, endError>> /\ cpc # "done"
    BY <1>2 DEF Census, recording, EnterCensus, WalkLists, CopyLabels, CopyNotifiers, Surveyed,
                RejectCensus, AcceptCensus
  <2> QED BY <2>1 DEF OmissionInv
<1>3. CASE Mutate
  <2>1. UNCHANGED <<cpc, exported, omitted, ended, endError>>
    BY <1>3 DEF Mutate, recording
  <2>2. state' = state \/ state' = Invalidated
    BY <1>3 DEF Mutate, Hook, Alter, LockedChange
  <2> QED BY <1>1, <2>1, <2>2 DEF OmissionInv, Invalidated
<1>4. CASE Dictionary
  <2>1. /\ UNCHANGED <<cpc, omitted, ended, endError>>
        /\ state' = state \/ state' = Invalidated
        /\ exported' = exported \/ cpc = "done"
    BY <1>4, DictionaryHooked
  <2>2. exported => exported'
    BY <1>4 DEF Dictionary, StartDictionary, EmitRows, SendDictionary
  <2> QED BY <1>1, <2>1, <2>2 DEF OmissionInv, Invalidated
<1>5. CASE Operator
  <2>1. /\ UNCHANGED <<cpc, exported, omitted>>
        /\ \/ UNCHANGED <<state, ended, endError>>
           \/ /\ cpc = "done" /\ state' = "invalid" /\ (state # "ready" => endError')
    BY <1>5, OperatorDoes
  <2> QED BY <1>1, <2>1 DEF OmissionInv
<1>6. CASE \E t \in Tasks : Task(t)
  <2>1. Hooked
    BY <1>6, TaskHooked
  <2>2. CASE omitted' = omitted
    BY <1>1, <2>1, <2>2 DEF Hooked, OmissionInv, Invalidated
  <2>3. CASE Miss /\ (state' = Invalidated \/ Off)
    <3>1. exported => state' = "invalid"
      BY <1>1, <2>1, <2>3 DEF Hooked, Off, Invalidated
    <3> QED BY <2>1, <2>3, <3>1 DEF Hooked, OmissionInv, Miss
  <2> QED BY <2>1, <2>2, <2>3 DEF Hooked
<1>7. CASE UNCHANGED flowVars
  BY <1>7 DEF flowVars, census, emitter, recording, hindsight, OmissionInv
<1> QED BY <1>2, <1>3, <1>4, <1>5, <1>6, <1>7 DEF FlowNext, Kernel

(***************************************************************************)
(* A capture that is called paired left nothing out: a boundary that is    *)
(* not recorded for want of a slot, of an object, of a generation or of a  *)
(* current census leaves a census that END reports as an error (r5_slot,   *)
(* r5_begin, r5_reinit, r5obs2_stop), in any cycle of any devices.         *)
(***************************************************************************)
THEOREM PairedCapturesOmitNothing == FlowSpec => []PairedOmitsNothing
<1>1. FlowInit => CensusInv /\ OmissionInv
  BY CensusInit
<1>2. CensusInv /\ OmissionInv /\ [FlowNext]_flowVars => (CensusInv /\ OmissionInv)'
  BY CensusStep, OmissionStep
<1>3. OmissionInv => PairedOmitsNothing
  BY DEF OmissionInv, PairedOmitsNothing, Verdict
<1> QED BY <1>1, <1>2, <1>3, PTL DEF FlowSpec

(***************************************************************************)
(* What makes PairedIsReal inductive.  Tokens of waits and completions are *)
(* open in their own piece only; and as long as the census holds, one task *)
(* resets a device at a time, generation and completion count the same     *)
(* resets, but for one that has moved the generation and not yet reset the *)
(* completion, and what a token noted after a begin outside every reset is *)
(* of its generation, unless the generation has moved on.                  *)
(***************************************************************************)
Calls == {NoCall} \cup (Tasks \X Nat)
Tokens ==
  [op : Ops, dev : Nat, call : Calls, gen : Nat, live : BOOLEAN, open : BOOLEAN,
   flag : BOOLEAN, owner : BOOLEAN, at : Nat]

\* The tokens s of a task that is at place n of its program.
Fits(t, n, s) ==
  /\ n \in 1..(Len(Program[t]) + 1) /\ Len(s) = Open(t, n)
  /\ \A i \in 1..Len(s) :
       /\ s[i].op \in Timed => i = Len(s) /\ \E k \in 1..3 : InTimed(t, n, k)
       /\ s[i].live /\ s[i].op # "stage" => s[i].dev \in Devices
  /\ \A k \in 1..3 : InTimed(t, n, k) =>
       s[Len(s)].op # "stage" /\ s[Len(s)].dev = Program[t][n - k].dev

Stacked ==
  /\ stack \in [Tasks -> Seq(Tokens)] /\ place \in [Tasks -> Nat]
  /\ \A t \in Tasks : Fits(t, place[t], stack[t])

Unstarted ==
  cpc # "done" =>
    /\ work = {} /\ \A t \in Tasks : place[t] = 1
    /\ \A d \in Devices : gen[d] = epoch[d] /\ ~resetting[d]

Resets(t, k, d) == InReset(t, place[t], k) /\ Program[t][place[t] - k].dev = d

ResetsApart ==
  \A t \in Tasks : \A d \in Devices : \A k \in 1..4 : Resets(t, k, d) =>
    /\ Top(t).owner /\ Top(t).dev = d /\ resetting[d]
    /\ \A u \in Tasks : \A l \in 1..4 : Resets(u, l, d) => u = t

InStep ==
  \A d \in Devices :
    IF \E t \in Tasks : Resets(t, 2, d) THEN gen[d] = epoch[d] + 1 ELSE gen[d] = epoch[d]

NotedIsOwn(token, k) ==
  token.live =>
    /\ token.gen <= gen[token.dev]
    /\ token.gen = gen[token.dev] =>
         (k >= 2 => token.gen = epoch[token.dev]) /\ (k = 3 => token.at = token.gen)
WaitsAreOwn ==
  \A t \in Tasks : \A k \in 1..3 : InTimed(t, place[t], k) => NotedIsOwn(Top(t), k)

RealInv ==
  /\ gen \in [Devices -> Nat] /\ epoch \in [Devices -> Nat]
  /\ resetting \in [Devices -> BOOLEAN]
  /\ Stacked /\ Unstarted
  /\ state = "ready" => ResetsApart /\ InStep /\ WaitsAreOwn
  /\ unreal = FALSE

(***************************************************************************)
(* Waits and completions of their own generation.  First what the shape of *)
(* the programs says of one step.                                          *)
(***************************************************************************)
InPieces(t, n) ==
  /\ InTimed(t, n, 1) => Program[t][n].do = "enter"
  /\ InTimed(t, n, 2) => Program[t][n].do \in {"await", "complete"}
                         /\ Program[t][n].dev = Program[t][n - 2].dev
                         /\ Program[t][n].dev \in Devices
  /\ InTimed(t, n, 3) => Program[t][n].do = "end"
  /\ InReset(t, n, 1) => Program[t][n].do = "renew"
  /\ InReset(t, n, 2) => Program[t][n].do = "reinit"
  /\ InReset(t, n, 3) => Program[t][n].do = "endkeep"
  /\ InReset(t, n, 4) => Program[t][n].do = "release"

LEMMA PieceFollows ==
  ASSUME NEW t \in Tasks, NEW n \in 1..(Len(Program[t]) + 1)
  PROVE  /\ InPieces(t, n)
         /\ \A k \in 1..4 : (InTimed(t, n, k) /\ k < 4) \/ InReset(t, n, k) => n \in DOMAIN Program[t]
<1>1. /\ Program[t] \in Seq([do : STRING, op : STRING, dev : Nat])
      /\ \A m \in DOMAIN Program[t] : Pieces(Program[t], m)
  BY ProgramAssumption DEF ProgramsShaped
<1> DEFINE p == Program[t]
<1>2. DOMAIN p = 1..Len(p) /\ Len(p) \in Nat
  BY <1>1
<1> HIDE DEF p
<1>3. \A m \in 1..Len(p) : Pieces(p, m)
  BY <1>1, <1>2 DEF p
<1>4. ASSUME NEW k \in 1..4, InTimed(t, n, k), k < 4
      PROVE  /\ n \in 1..Len(p)
             /\ k = 1 => p[n].do = "enter"
             /\ k = 2 => /\ p[n].do \in {"await", "complete"} /\ p[n].dev = p[n - 2].dev
                         /\ p[n].dev \in Devices
             /\ k = 3 => p[n].do = "end"
  <2>1. n - k \in 1..Len(p) /\ p[n - k].do = "begin" /\ p[n - k].op \in Timed
    BY <1>2, <1>4 DEF InTimed, Before, p
  <2>2. Pieces(p, n - k)
    BY <2>1, <1>3
  <2>3. /\ p[n - k].dev \in Devices
        /\ (n - k) + 3 <= Len(p) /\ p[(n - k) + 1].do = "enter" /\ p[(n - k) + 3].do = "end"
        /\ p[(n - k) + 2].do \in {"await", "complete"} /\ p[(n - k) + 2].dev = p[n - k].dev
    BY <2>1, <2>2 DEF Pieces
  <2>4. k \in 1..3 /\ (n - k) + k = n /\ n \in 1..Len(p)
    BY <1>2, <1>4, <2>1, <2>3
  <2>5. CASE k = 1
    BY <2>3, <2>4, <2>5
  <2>6. CASE k = 2
    BY <2>3, <2>4, <2>6
  <2>7. CASE k = 3
    BY <2>3, <2>4, <2>7
  <2> QED BY <2>4, <2>5, <2>6, <2>7
<1>5. ASSUME NEW k \in 1..4, InReset(t, n, k)
      PROVE  /\ n \in 1..Len(p)
             /\ k = 1 => p[n].do = "renew"
             /\ k = 2 => p[n].do = "reinit"
             /\ k = 3 => p[n].do = "endkeep"
             /\ k = 4 => p[n].do = "release"
  <2>1. n - k \in 1..Len(p) /\ p[n - k].do = "own"
    BY <1>2, <1>5 DEF InReset, Before, p
  <2>2. Pieces(p, n - k)
    BY <2>1, <1>3
  <2>3. /\ (n - k) + 4 <= Len(p)
        /\ p[(n - k) + 1].do = "renew" /\ p[(n - k) + 2].do = "reinit"
        /\ p[(n - k) + 3].do = "endkeep" /\ p[(n - k) + 4].do = "release"
    BY <2>1, <2>2 DEF Pieces
  <2>4. (n - k) + k = n /\ n \in 1..Len(p)
    BY <1>2, <2>1, <2>3
  <2> QED BY <2>3, <2>4
<1> QED BY <1>2, <1>4, <1>5 DEF p, InPieces

LEMMA NextPlace ==
  ASSUME NEW t \in Tasks, NEW n \in DOMAIN Program[t]
  PROVE  /\ n \in 1..Len(Program[t]) /\ n + 1 \in 1..(Len(Program[t]) + 1)
         /\ InTimed(t, n + 1, 1) <=> Program[t][n].do = "begin" /\ Program[t][n].op \in Timed
         /\ InReset(t, n + 1, 1) <=> Program[t][n].do = "own"
         /\ \A k \in 1..3 : /\ InTimed(t, n + 1, k + 1) <=> InTimed(t, n, k)
                            /\ InReset(t, n + 1, k + 1) <=> InReset(t, n, k)
         /\ \A k \in 1..4 : Program[t][(n + 1) - (k + 1)] = Program[t][n - k]
         /\ Program[t][(n + 1) - 1] = Program[t][n]
<1>1. Program[t] \in Seq([do : STRING, op : STRING, dev : Nat])
  BY ProgramAssumption DEF ProgramsShaped
<1>2. DOMAIN Program[t] = 1..Len(Program[t]) /\ Len(Program[t]) \in Nat
  BY <1>1
<1>3. \A k \in 1..4 : (n + 1) - (k + 1) = n - k
  BY <1>2
<1>4. (n + 1) - 1 = n
  BY <1>2
<1>5. \A k \in 1..3 : Before(t, n + 1, k + 1) <=> Before(t, n, k)
  BY <1>2, <1>3 DEF Before
<1>6. Before(t, n + 1, 1)
  BY <1>2 DEF Before
<1> QED BY <1>2, <1>3, <1>4, <1>5, <1>6 DEF InTimed, InReset

LEMMA OnePlaceOn ==
  ASSUME NEW t \in Tasks, NEW n \in DOMAIN Program[t]
  PROVE  /\ n \in 1..Len(Program[t]) /\ n \in 1..(Len(Program[t]) + 1)
         /\ n + 1 \in 1..(Len(Program[t]) + 1)
         /\ InTimed(t, n + 1, 1) <=> Program[t][n].do = "begin" /\ Program[t][n].op \in Timed
         /\ InTimed(t, n + 1, 2) <=> InTimed(t, n, 1)
         /\ InTimed(t, n + 1, 3) <=> InTimed(t, n, 2)
         /\ InReset(t, n + 1, 1) <=> Program[t][n].do = "own"
         /\ InReset(t, n + 1, 2) <=> InReset(t, n, 1)
         /\ InReset(t, n + 1, 3) <=> InReset(t, n, 2)
         /\ InReset(t, n + 1, 4) <=> InReset(t, n, 3)
         /\ Program[t][(n + 1) - 1] = Program[t][n] /\ Program[t][(n + 1) - 2] = Program[t][n - 1]
         /\ Program[t][(n + 1) - 3] = Program[t][n - 2] /\ Program[t][(n + 1) - 4] = Program[t][n - 3]
         /\ InPieces(t, n)
<1>1. n \in 1..Len(Program[t]) /\ n + 1 \in 1..(Len(Program[t]) + 1)
  BY NextPlace
<1>2. Len(Program[t]) \in Nat
  BY ProgramAssumption DEF ProgramsShaped
<1>3. n \in 1..(Len(Program[t]) + 1)
  BY <1>1, <1>2
<1>4. /\ InTimed(t, n + 1, 1 + 1) <=> InTimed(t, n, 1)
      /\ InTimed(t, n + 1, 2 + 1) <=> InTimed(t, n, 2)
      /\ InReset(t, n + 1, 1 + 1) <=> InReset(t, n, 1)
      /\ InReset(t, n + 1, 2 + 1) <=> InReset(t, n, 2)
      /\ InReset(t, n + 1, 3 + 1) <=> InReset(t, n, 3)
  BY NextPlace
<1>5. /\ InTimed(t, n + 1, 1) <=> Program[t][n].do = "begin" /\ Program[t][n].op \in Timed
      /\ InReset(t, n + 1, 1) <=> Program[t][n].do = "own"
  BY NextPlace
<1>6. /\ (n + 1) - 1 = n /\ (n + 1) - 2 = n - 1 /\ (n + 1) - 3 = n - 2 /\ (n + 1) - 4 = n - 3
      /\ 1 + 1 = 2 /\ 2 + 1 = 3 /\ 3 + 1 = 4
  BY <1>1, <1>2
<1>7. InPieces(t, n)
  BY <1>3, PieceFollows
<1>8. /\ InTimed(t, n + 1, 2) <=> InTimed(t, n, 1)
      /\ InTimed(t, n + 1, 3) <=> InTimed(t, n, 2)
      /\ InReset(t, n + 1, 2) <=> InReset(t, n, 1)
      /\ InReset(t, n + 1, 3) <=> InReset(t, n, 2)
      /\ InReset(t, n + 1, 4) <=> InReset(t, n, 3)
  BY <1>4, <1>6
<1> QED BY <1>1, <1>3, <1>5, <1>6, <1>7, <1>8

LEMMA PassedGrows ==
  ASSUME NEW t, NEW n \in Nat \ {0}, NEW kinds
  PROVE  /\ IsFiniteSet(Passed(t, n, kinds)) /\ Cardinality(Passed(t, n, kinds)) \in Nat
         /\ Cardinality(Passed(t, n + 1, kinds)) =
              Cardinality(Passed(t, n, kinds)) + (IF Program[t][n].do \in kinds THEN 1 ELSE 0)
<1>1. 1..(n - 1) \subseteq 1..n /\ 1..((n + 1) - 1) = 1..(n - 1) \cup {n} /\ n \notin 1..(n - 1)
  OBVIOUS
<1>2. IsFiniteSet(1..(n - 1))
  BY FS_Interval
<1> DEFINE P == Passed(t, n, kinds)
<1>3. P \subseteq 1..(n - 1) /\ n \notin P
  BY <1>1 DEF Passed
<1>4. IsFiniteSet(P) /\ Cardinality(P) \in Nat
  BY <1>2, <1>3, FS_Subset, FS_CardinalityType
<1>5. Passed(t, n + 1, kinds) = IF Program[t][n].do \in kinds THEN P \cup {n} ELSE P
  BY <1>1 DEF Passed
<1>6. Cardinality(P \cup {n}) = Cardinality(P) + 1
  BY <1>3, <1>4, FS_AddElement
<1> QED BY <1>4, <1>5, <1>6

LEMMA OpenGrows ==
  ASSUME NEW t \in Tasks, NEW n \in DOMAIN Program[t]
  PROVE  /\ Open(t, n) \in Int /\ Open(t, n + 1) \in Int
         /\ Open(t, n + 1) = IF Program[t][n].do \in Pushing THEN Open(t, n) + 1
                             ELSE IF Program[t][n].do \in Popping THEN Open(t, n) - 1
                             ELSE Open(t, n)
<1>1. n \in Nat \ {0}
  BY NextPlace
<1>2. \A x : ~(x \in Pushing /\ x \in Popping)
  BY DEF Pushing, Popping
<1> QED BY <1>1, <1>2, PassedGrows DEF Open

LEMMA OpenFirst == ASSUME NEW t PROVE Open(t, 1) = 0
<1>1. \A kinds : Passed(t, 1, kinds) = {}
  BY DEF Passed
<1> QED BY <1>1, FS_EmptySet DEF Open

(***************************************************************************)
(* The tokens of a task fit its place again after it has pushed, replaced  *)
(* or popped one and gone on, or leapt to another place.                   *)
(***************************************************************************)
LEMMA FitsSame ==
  ASSUME NEW t \in Tasks, NEW n \in DOMAIN Program[t], NEW s \in Seq(Tokens), Fits(t, n, s),
         Program[t][n].do \notin Pushing \cup Popping
  PROVE  Fits(t, n + 1, s)
<1>a. /\ InTimed(t, n, 3) => Program[t][n].do = "end"
      /\ InTimed(t, n + 1, 1) => Program[t][n].do = "begin"
  <2>1. InPieces(t, n)
    BY OnePlaceOn
  <2>2. InTimed(t, n + 1, 1) => Program[t][n].do = "begin"
    BY OnePlaceOn
  <2> QED BY <2>1, <2>2 DEF InPieces
<1>b. /\ InTimed(t, n + 1, 2) => InTimed(t, n, 1)
      /\ InTimed(t, n + 1, 3) => InTimed(t, n, 2)
  BY OnePlaceOn
<1>c. Program[t][(n + 1) - 2] = Program[t][n - 1]
  BY OnePlaceOn
<1>d. Program[t][(n + 1) - 3] = Program[t][n - 2]
  BY OnePlaceOn
<1>1. /\ ~InTimed(t, n, 3) /\ ~InTimed(t, n + 1, 1)
  BY <1>a DEF Pushing, Popping
<1>2. Open(t, n + 1) = Open(t, n)
  BY OpenGrows
<1>3. \A i \in 1..Len(s) : s[i].op \in Timed => i = Len(s) /\ (InTimed(t, n + 1, 2) \/ InTimed(t, n + 1, 3))
  <2> TAKE i \in 1..Len(s)
  <2> HAVE s[i].op \in Timed
  <2>1. i = Len(s)
    BY DEF Fits
  <2>2. PICK k \in 1..3 : InTimed(t, n, k)
    BY DEF Fits
  <2>3. k = 1 \/ k = 2 \/ k = 3
    BY <2>2
  <2>4. InTimed(t, n, 1) \/ InTimed(t, n, 2)
    BY <1>1, <2>2, <2>3
  <2> QED BY <2>1, <2>4, OnePlaceOn
<1>4. \A i \in 1..Len(s) : s[i].op \in Timed => i = Len(s) /\ \E k \in 1..3 : InTimed(t, n + 1, k)
  <2>1. 2 \in 1..3 /\ 3 \in 1..3
    OBVIOUS
  <2> QED BY <1>3, <2>1
<1>5. \A k \in 1..3 : InTimed(t, n + 1, k) =>
        s[Len(s)].op # "stage" /\ s[Len(s)].dev = Program[t][(n + 1) - k].dev
  <2>1. 1 \in 1..3 /\ 2 \in 1..3
    OBVIOUS
  <2>2. InTimed(t, n, 1) => s[Len(s)].op # "stage" /\ s[Len(s)].dev = Program[t][n - 1].dev
    BY <2>1 DEF Fits
  <2>3. InTimed(t, n, 2) => s[Len(s)].op # "stage" /\ s[Len(s)].dev = Program[t][n - 2].dev
    BY <2>1 DEF Fits
  <2>4. InTimed(t, n + 1, 2) => s[Len(s)].op # "stage" /\ s[Len(s)].dev = Program[t][(n + 1) - 2].dev
    BY <2>2, <1>b, <1>c
  <2>5. InTimed(t, n + 1, 3) => s[Len(s)].op # "stage" /\ s[Len(s)].dev = Program[t][(n + 1) - 3].dev
    BY <2>3, <1>b, <1>d
  <2>6. \A k \in 1..3 : k = 1 \/ k = 2 \/ k = 3
    OBVIOUS
  <2> QED BY <1>1, <2>4, <2>5, <2>6
<1>6. n + 1 \in 1..(Len(Program[t]) + 1)
  BY OnePlaceOn
<1>7. \A i \in 1..Len(s) : s[i].live /\ s[i].op # "stage" => s[i].dev \in Devices
  BY DEF Fits
<1>8. Len(s) = Open(t, n + 1)
  BY <1>2 DEF Fits
<1> QED BY <1>4, <1>5, <1>6, <1>7, <1>8 DEF Fits

LEMMA FitsTop ==
  ASSUME NEW t \in Tasks, NEW n \in 1..(Len(Program[t]) + 1), NEW s \in Seq(Tokens), Fits(t, n, s),
         Len(s) > 0, NEW x \in Tokens, x.dev = s[Len(s)].dev,
         x.op = s[Len(s)].op \/ x.op = "reinit",
         x.live /\ x.op # "stage" => x.dev \in Devices
  PROVE  /\ [s EXCEPT ![Len(s)] = x] \in Seq(Tokens)
         /\ Len([s EXCEPT ![Len(s)] = x]) = Len(s)
         /\ [s EXCEPT ![Len(s)] = x][Len(s)] = x
         /\ Fits(t, n, [s EXCEPT ![Len(s)] = x])
<1> DEFINE z == [s EXCEPT ![Len(s)] = x]
<1>1. /\ z \in Seq(Tokens) /\ Len(z) = Len(s) /\ z[Len(s)] = x
      /\ \A i \in 1..Len(s) : i # Len(s) => z[i] = s[i]
  OBVIOUS
<1> HIDE DEF z
<1>2. Fits(t, n, z)
  <2>1. "reinit" # "stage" /\ "reinit" \notin Timed
    BY DEF Timed
  <2> QED BY <1>1, <2>1 DEF Fits
<1> QED BY <1>1, <1>2 DEF z

LEMMA FitsPush ==
  ASSUME NEW t \in Tasks, NEW n \in DOMAIN Program[t], NEW s \in Seq(Tokens), Fits(t, n, s),
         Program[t][n].do \in Pushing,
         NEW x \in Tokens, x.live /\ x.op # "stage" => x.dev \in Devices,
         Program[t][n].do = "begin" => x.op = Program[t][n].op /\ x.dev = Program[t][n].dev,
         Program[t][n].do # "begin" => x.op \notin Timed
  PROVE  /\ Append(s, x) \in Seq(Tokens) /\ Len(Append(s, x)) = Len(s) + 1
         /\ Append(s, x)[Len(s) + 1] = x
         /\ Fits(t, n + 1, Append(s, x))
<1>1. /\ n \in 1..Len(Program[t]) /\ n + 1 \in 1..(Len(Program[t]) + 1)
      /\ ~InTimed(t, n, 1) /\ ~InTimed(t, n, 2) /\ ~InTimed(t, n, 3)
      /\ InTimed(t, n + 1, 1) <=> Program[t][n].do = "begin" /\ Program[t][n].op \in Timed
      /\ Program[t][(n + 1) - 1] = Program[t][n]
  BY OnePlaceOn DEF InPieces, Pushing
<1>2. ~InTimed(t, n + 1, 2) /\ ~InTimed(t, n + 1, 3)
  BY <1>1, OnePlaceOn
<1>3. Open(t, n + 1) = Open(t, n) + 1
  BY OpenGrows
<1> DEFINE z == Append(s, x)
<1>4. /\ z \in Seq(Tokens) /\ Len(z) = Len(s) + 1 /\ z[Len(s) + 1] = x
      /\ Len(s) \in Nat /\ \A i \in 1..Len(s) : z[i] = s[i]
  OBVIOUS
<1> HIDE DEF z
<1>5. \A i \in 1..Len(s) : z[i].op \notin Timed /\ (z[i].live /\ z[i].op # "stage" => z[i].dev \in Devices)
  <2>1. \A k \in 1..3 : k = 1 \/ k = 2 \/ k = 3
    OBVIOUS
  <2> QED BY <1>1, <1>4, <2>1 DEF Fits
<1>6. x.op \in Timed => InTimed(t, n + 1, 1)
  BY <1>1
<1>7. "stage" \notin Timed
  BY DEF Timed
<1>8. Fits(t, n + 1, z)
  BY <1>1, <1>2, <1>3, <1>4, <1>5, <1>6, <1>7 DEF Fits
<1> QED BY <1>4, <1>8 DEF z

LEMMA FrontOf ==
  ASSUME NEW s \in Seq(Tokens), Len(s) > 0
  PROVE  /\ Front(s) \in Seq(Tokens) /\ Len(Front(s)) = Len(s) - 1
         /\ \A i \in 1..(Len(s) - 1) : Front(s)[i] = s[i]
<1>1. Front(s) = SubSeq(s, 1, Len(s) - 1) /\ Len(s) \in Nat
  BY DEF Front
<1> DEFINE m == Len(s) - 1
<1>2. m \in Int /\ 1 \in Int /\ m \in Nat
  BY <1>1
<1>3. \A i \in 1..m : s[i] \in Tokens
  BY <1>1, ElementOfSeq
<1> HIDE DEF m
<1>4. /\ SubSeq(s, 1, m) \in Seq(Tokens) /\ Len(SubSeq(s, 1, m)) = IF 1 <= m THEN m - 1 + 1 ELSE 0
      /\ \A i \in 1..(m - 1 + 1) : SubSeq(s, 1, m)[i] = s[1 + i - 1]
  BY <1>2, <1>3, SubSeqProperties
<1>5. m - 1 + 1 = m /\ \A i \in 1..m : 1 + i - 1 = i
  BY <1>2
<1>6. Len(SubSeq(s, 1, m)) = m /\ \A i \in 1..m : SubSeq(s, 1, m)[i] = s[i]
  BY <1>2, <1>4, <1>5
<1> QED BY <1>1, <1>4, <1>6 DEF m

LEMMA FitsPop ==
  ASSUME NEW t \in Tasks, NEW n \in DOMAIN Program[t], NEW s \in Seq(Tokens), Fits(t, n, s),
         Program[t][n].do \in Popping, Len(s) > 0
  PROVE  /\ Front(s) \in Seq(Tokens) /\ Fits(t, n + 1, Front(s))
         /\ \A i \in 1..Len(Front(s)) : Front(s)[i].op \notin Timed
<1>1. /\ n \in 1..Len(Program[t]) /\ n + 1 \in 1..(Len(Program[t]) + 1)
      /\ ~InTimed(t, n, 1) /\ ~InTimed(t, n, 2) /\ ~InTimed(t, n + 1, 1)
  BY OnePlaceOn DEF InPieces, Popping
<1>2. ~InTimed(t, n + 1, 2) /\ ~InTimed(t, n + 1, 3)
  BY <1>1, OnePlaceOn
<1>3. Open(t, n + 1) = Open(t, n) - 1
  BY OpenGrows DEF Popping, Pushing
<1> DEFINE z == Front(s)
<1>4. z \in Seq(Tokens) /\ Len(z) = Len(s) - 1 /\ \A i \in 1..(Len(s) - 1) : z[i] = s[i]
  BY FrontOf
<1> HIDE DEF z
<1>5. \A i \in 1..Len(z) : z[i].op \notin Timed /\ (z[i].live /\ z[i].op # "stage" => z[i].dev \in Devices)
  BY <1>4 DEF Fits
<1>6. Fits(t, n + 1, z)
  BY <1>1, <1>2, <1>3, <1>4, <1>5 DEF Fits
<1> QED BY <1>4, <1>5, <1>6 DEF z

LEMMA FitsLeap ==
  ASSUME NEW t \in Tasks, NEW n \in DOMAIN Program[t], NEW j \in Leaps(Program[t][n]),
         NEW s, Fits(t, n + 1, s), \A i \in 1..Len(s) : s[i].op \notin Timed
  PROVE  /\ n + j \in 1..(Len(Program[t]) + 1) /\ Fits(t, n + j, s) /\ ~Inner(t, n + j)
<1>1. n + j \in 1..(Len(Program[t]) + 1) /\ Open(t, n + j) = Open(t, n + 1) /\ ~Inner(t, n + j)
  BY ProgramAssumption DEF ProgramsShaped
<1> QED BY <1>1 DEF Fits, Inner

(***************************************************************************)
(* What one step of a task does to its tokens.                             *)
(***************************************************************************)
Typed ==
  /\ gen \in [Devices -> Nat] /\ epoch \in [Devices -> Nat]
  /\ resetting \in [Devices -> BOOLEAN]

Moved(t) ==
  /\ place' = [place EXCEPT ![t] = place'[t]] /\ place'[t] \in Nat
  /\ stack' = [stack EXCEPT ![t] = stack'[t]]
  /\ stack'[t] \in Seq(Tokens) /\ Fits(t, place'[t], stack'[t])

LEMMA MovedStays ==
  ASSUME Stacked, NEW t \in Tasks, Moved(t)
  PROVE  /\ Stacked'
         /\ \A u \in Tasks : u # t => place'[u] = place[u] /\ stack'[u] = stack[u]
<1>1. stack' \in [Tasks -> Seq(Tokens)] /\ place' \in [Tasks -> Nat]
  BY DEF Stacked, Moved
<1>2. \A u \in Tasks : u # t => place'[u] = place[u] /\ stack'[u] = stack[u]
  BY DEF Stacked, Moved
<1>3. \A u \in Tasks : Fits(u, place'[u], stack'[u])
  BY <1>2 DEF Stacked, Moved
<1> QED BY <1>1, <1>2, <1>3 DEF Stacked

LEMMA Here ==
  ASSUME Stacked, NEW t \in Tasks, NEW do, At(t, do)
  PROVE  /\ place[t] \in DOMAIN Program[t] /\ Program[t][place[t]].do = do
         /\ Op(t) = Program[t][place[t]].op /\ Dev(t) = Program[t][place[t]].dev
         /\ do = "begin" => Op(t) \in Ops
         /\ Dev(t) \in Nat /\ Call(t) \in Calls
         /\ stack[t] \in Seq(Tokens) /\ Fits(t, place[t], stack[t])
         /\ Top(t) = stack[t][Len(stack[t])]
         /\ do \in UsesToken => Len(stack[t]) > 0 /\ Top(t) \in Tokens
<1>1. /\ Program[t] \in Seq([do : STRING, op : STRING, dev : Nat])
      /\ \A n \in DOMAIN Program[t] :
           /\ Program[t][n].do \in UsesToken => Open(t, n) > 0
           /\ Program[t][n].do = "begin" => Program[t][n].op \in Ops
  BY ProgramAssumption DEF ProgramsShaped, Pieces
<1>2. Len(Program[t]) \in Nat /\ DOMAIN Program[t] = 1..Len(Program[t])
  BY <1>1
<1>3. Fits(t, place[t], stack[t]) /\ stack[t] \in Seq(Tokens) /\ place[t] \in Nat
  BY DEF Stacked
<1>4. place[t] \in DOMAIN Program[t] /\ Program[t][place[t]].do = do
  BY <1>2, <1>3 DEF Fits, At, AtEnd
<1>5. Program[t][place[t]] \in [do : STRING, op : STRING, dev : Nat]
  BY <1>1, <1>2, <1>4, ElementOfSeq
<1>6. Top(t) = stack[t][Len(stack[t])]
  BY DEF Top, Last
<1>7. do \in UsesToken => Len(stack[t]) > 0
  BY <1>1, <1>3, <1>4 DEF Fits
<1>8. Len(stack[t]) > 0 => Top(t) \in Tokens
  <2>1. Len(stack[t]) \in Nat
    BY <1>3
  <2> QED BY <1>3, <1>6, <2>1, ElementOfSeq
<1>9. Call(t) \in Calls
  BY <1>3 DEF Call, Calls
<1>10. do = "begin" => Program[t][place[t]].op \in Ops
  BY <1>1, <1>4
<1> QED BY <1>3, <1>4, <1>5, <1>6, <1>7, <1>8, <1>9, <1>10 DEF Op, Dev

LEMMA Goes ==
  ASSUME Stacked, NEW t \in Tasks, NEW n, Go(t, n), NEW m \in Nat, m = place[t] + n
  PROVE  place' = [place EXCEPT ![t] = place'[t]] /\ place'[t] = m /\ place'[t] \in Nat
BY DEF Go, Stacked

LEMMA MovedOn ==
  ASSUME Stacked, NEW t \in Tasks, NEW do, At(t, do), Go(t, 1)
  PROVE  /\ place' = [place EXCEPT ![t] = place'[t]] /\ place'[t] = place[t] + 1
         /\ place'[t] \in Nat
<1>1. place[t] + 1 \in Nat
  BY DEF Stacked
<1> QED BY <1>1, Goes

LEMMA MovedPush ==
  ASSUME Stacked, NEW t \in Tasks, NEW do \in Pushing, At(t, do), Go(t, 1),
         NEW x \in Tokens, Push(t, x), x.live /\ x.op # "stage" => x.dev \in Devices,
         do = "begin" => x.op = Op(t) /\ x.dev = Dev(t), do # "begin" => x.op \notin Timed
  PROVE  Moved(t) /\ stack'[t][Len(stack'[t])] = x
<1> DEFINE s == stack[t]
           n == place[t]
<1>1. /\ n \in DOMAIN Program[t] /\ Program[t][n].do = do /\ s \in Seq(Tokens) /\ Fits(t, n, s)
      /\ do = "begin" => x.op = Program[t][n].op /\ x.dev = Program[t][n].dev
  BY Here
<1>2. /\ Append(s, x) \in Seq(Tokens) /\ Len(Append(s, x)) = Len(s) + 1
      /\ Append(s, x)[Len(s) + 1] = x /\ Fits(t, n + 1, Append(s, x))
  <2> HIDE DEF s, n
  <2> QED BY <1>1, FitsPush
<1>3. stack' = [stack EXCEPT ![t] = stack'[t]] /\ stack'[t] = Append(s, x)
  BY DEF Push, Stacked
<1> QED BY <1>2, <1>3, MovedOn DEF Moved

LEMMA MovedPop ==
  ASSUME Stacked, NEW t \in Tasks, NEW do \in Popping, At(t, do), Go(t, 1), Pop(t)
  PROVE  Moved(t) /\ \A i \in 1..Len(stack'[t]) : stack'[t][i].op \notin Timed
<1> DEFINE s == stack[t]
           n == place[t]
<1>1. /\ n \in DOMAIN Program[t] /\ Program[t][n].do = do /\ s \in Seq(Tokens) /\ Fits(t, n, s)
      /\ Len(s) > 0
  BY Here DEF Popping, UsesToken
<1>2. /\ Front(s) \in Seq(Tokens) /\ Fits(t, n + 1, Front(s))
      /\ \A i \in 1..Len(Front(s)) : Front(s)[i].op \notin Timed
  <2> HIDE DEF s, n
  <2> QED BY <1>1, FitsPop
<1>3. stack' = [stack EXCEPT ![t] = stack'[t]] /\ stack'[t] = Front(s)
  BY DEF Pop, Stacked
<1> QED BY <1>2, <1>3, MovedOn DEF Moved

LEMMA MovedSame ==
  ASSUME Stacked, NEW t \in Tasks, NEW do, do \notin Pushing \cup Popping, At(t, do), Go(t, 1),
         UNCHANGED stack
  PROVE  Moved(t) /\ stack'[t] = stack[t]
<1> DEFINE s == stack[t]
           n == place[t]
<1>1. /\ n \in DOMAIN Program[t] /\ Program[t][n].do = do /\ s \in Seq(Tokens) /\ Fits(t, n, s)
  BY Here
<1>2. Fits(t, n + 1, s)
  <2> HIDE DEF s, n
  <2> QED BY <1>1, FitsSame
<1>3. stack' = [stack EXCEPT ![t] = stack'[t]] /\ stack'[t] = s
  BY DEF Stacked
<1> QED BY <1>1, <1>2, <1>3, MovedOn DEF Moved

LEMMA MovedTop ==
  ASSUME Stacked, NEW t \in Tasks, NEW do \in UsesToken, do \notin Pushing \cup Popping,
         At(t, do), Go(t, 1),
         NEW x \in Tokens, Replace(t, x), x.dev = Top(t).dev,
         x.op = Top(t).op \/ x.op = "reinit",
         x.live /\ x.op # "stage" => x.dev \in Devices
  PROVE  Moved(t) /\ stack'[t][Len(stack'[t])] = x
<1> DEFINE s == stack[t]
           n == place[t]
           z == [s EXCEPT ![Len(s)] = x]
<1>1. /\ n \in DOMAIN Program[t] /\ Program[t][n].do = do /\ s \in Seq(Tokens) /\ Fits(t, n, s)
      /\ Len(s) > 0 /\ x.dev = s[Len(s)].dev /\ (x.op = s[Len(s)].op \/ x.op = "reinit")
  BY Here
<1>2. n \in 1..(Len(Program[t]) + 1)
  BY <1>1 DEF Fits
<1>3. z \in Seq(Tokens) /\ Len(z) = Len(s) /\ z[Len(s)] = x /\ Fits(t, n, z)
  <2> HIDE DEF s, n
  <2> QED BY <1>1, <1>2, FitsTop
<1>4. stack' = [stack EXCEPT ![t] = stack'[t]] /\ stack'[t] = z
  BY DEF Replace, Stacked
<1> HIDE DEF z
<1>5. Fits(t, n + 1, z)
  <2> HIDE DEF n
  <2> QED BY <1>1, <1>3, FitsSame
<1> QED BY <1>3, <1>4, <1>5, MovedOn DEF Moved

(***************************************************************************)
(* What the hooks do to tokens, generations and completions.               *)
(***************************************************************************)
Counts == <<gen, epoch, resetting>>
NewTop(t) == stack'[t][Len(stack'[t])]

LEMMA TokenTyped ==
  ASSUME Typed, NEW op \in Ops, NEW d \in Nat, NEW c \in Calls
  PROVE  /\ Empty(op, d) \in Tokens /\ ~Empty(op, d).live
         /\ Empty(op, d).op = op /\ Empty(op, d).dev = d
         /\ d \in Devices \cup {NoDevice} => Token(op, d, c) \in Tokens
         /\ Token(op, d, c).op = op /\ Token(op, d, c).dev = d
         /\ d \in Devices => Token(op, d, c).gen = gen[d]
<1>1. NoCall \in Calls
  BY DEF Calls
<1>2. d \in Devices => d # NoDevice /\ gen[d] \in Nat
  BY EmitterAssumption DEF NoDevice, Typed
<1>3. (IF d = NoDevice THEN 0 ELSE gen[d]) \in Nat \/ d \notin Devices \cup {NoDevice}
  BY <1>2
<1> QED BY <1>1, <1>2, <1>3 DEF Empty, Token, Tokens

LEMMA BeginPushes ==
  ASSUME Typed, NEW t, NEW op \in Ops, NEW d \in Nat, NEW p, NEW c \in Calls,
         Begin(t, op, d, p, c)
  PROVE  \E x \in Tokens : /\ Push(t, x) /\ x.op = op /\ x.dev = d
                           /\ x.live => d \in Devices /\ x.gen = gen[d]
<1>1. CASE Push(t, Empty(op, d))
  BY <1>1, TokenTyped
<1>2. CASE Push(t, Token(op, d, c)) /\ d \in Devices
  BY <1>2, TokenTyped
<1>3. CASE Off \/ Filtered(op, p)
  BY <1>1, <1>3 DEF Begin
<1>4. CASE ~(Off \/ Filtered(op, p)) /\ d \notin Devices
  BY <1>1, <1>4 DEF Begin
<1>5. CASE ~(Off \/ Filtered(op, p)) /\ d \in Devices
  <2>1. Push(t, Empty(op, d)) \/ Push(t, Token(op, d, c))
    BY <1>5 DEF Begin
  <2> QED BY <1>1, <1>2, <1>5, <2>1
<1> QED BY <1>3, <1>4, <1>5

LEMMA BeginDoes ==
  ASSUME Stacked, Typed, NEW t \in Tasks, At(t, "begin"), Go(t, 1), NEW p,
         Begin(t, Op(t), Dev(t), p, Call(t))
  PROVE  /\ Moved(t) /\ UNCHANGED <<Counts, unreal>>
         /\ NewTop(t).live => NewTop(t).dev \in Devices /\ NewTop(t).gen = gen[NewTop(t).dev]
<1>1. UNCHANGED <<Counts, unreal>>
  BY DEF Begin, Counts, completions
<1>2. Op(t) \in Ops /\ Dev(t) \in Nat /\ Call(t) \in Calls /\ "begin" \in Pushing
  BY Here DEF Pushing
<1>3. PICK x \in Tokens : /\ Push(t, x) /\ x.op = Op(t) /\ x.dev = Dev(t)
                          /\ x.live => x.dev \in Devices /\ x.gen = gen[x.dev]
  <2>1. PICK o : o = Op(t)
    OBVIOUS
  <2>2. PICK d : d = Dev(t)
    OBVIOUS
  <2>3. PICK c : c = Call(t)
    OBVIOUS
  <2>4. o \in Ops /\ d \in Nat /\ c \in Calls /\ Begin(t, o, d, p, c)
    BY <1>2, <2>1, <2>2, <2>3
  <2>5. PICK x \in Tokens : /\ Push(t, x) /\ x.op = o /\ x.dev = d
                            /\ x.live => d \in Devices /\ x.gen = gen[d]
    BY <2>4, BeginPushes
  <2>6. x.op = Op(t) /\ x.dev = Dev(t) /\ (x.live => x.dev \in Devices /\ x.gen = gen[x.dev])
    BY <2>1, <2>2, <2>5
  <2> QED BY <2>5, <2>6
<1>4. Moved(t) /\ NewTop(t) = x
  BY <1>2, <1>3, MovedPush DEF NewTop
<1> QED BY <1>1, <1>3, <1>4

LEMMA StageDoes ==
  ASSUME Stacked, Typed, NEW t \in Tasks, At(t, "stage"), Go(t, 1), StageBegin(t, Call(t))
  PROVE  Moved(t) /\ UNCHANGED <<Counts, unreal>>
<1>1. UNCHANGED <<Counts, unreal>>
  BY DEF StageBegin, Counts, completions
<1>2. Call(t) \in Calls
  BY Here
<1>3. NoDevice \in Nat /\ "stage" \in Ops /\ "stage" \in Pushing /\ "stage" \notin Timed
  <2>1. NoDevice \in Nat
    BY DEF NoDevice
  <2>2. "stage" \in Pushing /\ "stage" \notin Timed
    BY DEF Pushing, Timed
  <2>3. "stage" \in Ops
    BY DEF Ops
  <2> QED BY <2>1, <2>2, <2>3
<1>4. PICK x : /\ Push(t, x)
               /\ \/ x = Empty("stage", NoDevice)
                  \/ x = [Token("stage", NoDevice, Call(t)) EXCEPT !.open = TRUE]
  BY DEF StageBegin
<1>5. x \in Tokens /\ x.op = "stage"
  <2>1. CASE x = Empty("stage", NoDevice)
    BY <1>2, <1>3, <2>1, TokenTyped
  <2>2. CASE x = [Token("stage", NoDevice, Call(t)) EXCEPT !.open = TRUE]
    BY <1>2, <1>3, <2>2 DEF Token, Tokens
  <2> QED BY <1>4, <2>1, <2>2
<1>6. Moved(t)
  BY <1>3, <1>4, <1>5, MovedPush
<1> QED BY <1>1, <1>6

LEMMA EnterDoes ==
  ASSUME Stacked, Typed, NEW t \in Tasks, At(t, "enter"), Go(t, 1),
         Entered(t) \/ EnterMidReset(t) \/ (~Top(t).live /\ Quiet)
  PROVE  /\ Moved(t) /\ UNCHANGED <<Counts, unreal>>
         /\ state' = "ready" /\ NewTop(t).live =>
              /\ Top(t).live /\ ~resetting[Top(t).dev]
              /\ NewTop(t).gen = Top(t).gen /\ NewTop(t).dev = Top(t).dev
<1>1. UNCHANGED <<Counts, unreal>>
  BY DEF Entered, EnterMidReset, Quiet, Counts, completions, emitter
<1>2. "enter" \notin Pushing \cup Popping /\ "enter" \in UsesToken
  BY DEF Pushing, Popping, UsesToken
<1>3. /\ Top(t) \in Tokens /\ stack[t] \in Seq(Tokens) /\ Len(stack[t]) > 0
      /\ Top(t) = stack[t][Len(stack[t])] /\ Fits(t, place[t], stack[t])
  BY <1>2, Here
<1>4. Top(t).live /\ Top(t).op # "stage" => Top(t).dev \in Devices
  <2>1. Len(stack[t]) \in 1..Len(stack[t])
    BY <1>3
  <2> QED BY <1>3, <2>1 DEF Fits
<1>5. CASE Entered(t) \/ EnterMidReset(t)
  <2>1. PICK f \in BOOLEAN : Replace(t, [Top(t) EXCEPT !.open = TRUE, !.flag = f])
    <3>1. CASE EnterMidReset(t)
      BY <3>1 DEF EnterMidReset
    <3>2. CASE Entered(t)
      <4> DEFINE f == MidReset(Top(t)) \/ (Top(t).op \in Fused /\ state # "ready")
      <4>1. Replace(t, [Top(t) EXCEPT !.open = TRUE, !.flag = f])
        BY <3>2 DEF Entered
      <4>2. f \in BOOLEAN
        OBVIOUS
      <4> QED BY <4>1, <4>2
    <3> QED BY <1>5, <3>1, <3>2
  <2> DEFINE x == [Top(t) EXCEPT !.open = TRUE, !.flag = f]
  <2>2. x \in Tokens /\ x.op = Top(t).op /\ x.dev = Top(t).dev /\ x.gen = Top(t).gen
        /\ x.live = Top(t).live
    BY <1>3, <2>1 DEF Tokens
  <2>3. Replace(t, x)
    BY <2>1
  <2> HIDE DEF x
  <2>4. Moved(t) /\ NewTop(t) = x
    BY <1>2, <1>4, <2>2, <2>3, MovedTop DEF NewTop
  <2>5. state' = "ready" => ~resetting[Top(t).dev]
    <3>1. CASE EnterMidReset(t)
      BY <3>1 DEF EnterMidReset, Invalidated
    <3>2. CASE Entered(t)
      BY <3>2 DEF Entered, MidReset
    <3> QED BY <1>5, <3>1, <3>2
  <2>6. Top(t).live
    BY <1>5 DEF Entered, EnterMidReset
  <2> QED BY <1>1, <2>2, <2>4, <2>5, <2>6
<1>6. CASE ~Top(t).live /\ Quiet
  <2>1. UNCHANGED stack
    BY <1>6 DEF Quiet
  <2>2. Moved(t) /\ stack'[t] = stack[t]
    BY <1>2, <2>1, MovedSame
  <2>3. NewTop(t) = Top(t)
    BY <1>3, <2>2 DEF NewTop
  <2> QED BY <1>1, <1>6, <2>2, <2>3
<1> QED BY <1>5, <1>6

LEMMA AwaitDoes ==
  ASSUME Stacked, Typed, NEW t \in Tasks, NEW do \in {"await", "complete"}, At(t, do), Go(t, 1),
         NEW d, Dev(t) = d, do = "await" => Await(t, d), do = "complete" => Complete(t)
  PROVE  /\ Moved(t) /\ UNCHANGED <<Counts, unreal>> /\ Top(t).dev = d
         /\ NewTop(t).live => Top(t).live /\ NewTop(t).at = epoch[d]
                              /\ NewTop(t).gen = Top(t).gen /\ NewTop(t).dev = Top(t).dev
<1>1. UNCHANGED <<Counts, unreal>>
  BY DEF Await, Complete, Counts, emitter, completions, hindsight
<1>2. do \notin Pushing \cup Popping /\ do \in UsesToken
  BY DEF Pushing, Popping, UsesToken
<1>3. /\ Top(t) \in Tokens /\ stack[t] \in Seq(Tokens) /\ Len(stack[t]) > 0
      /\ Top(t) = stack[t][Len(stack[t])] /\ Fits(t, place[t], stack[t])
      /\ place[t] \in DOMAIN Program[t] /\ Program[t][place[t]].do = do
      /\ Program[t][place[t]].dev = d
  BY <1>2, Here
<1>4. Top(t).live /\ Top(t).op # "stage" => Top(t).dev \in Devices
  <2>1. Len(stack[t]) \in 1..Len(stack[t])
    BY <1>3
  <2> QED BY <1>3, <2>1 DEF Fits
<1>5. InTimed(t, place[t], 2)
  BY <1>3, ProgramAssumption DEF ProgramsShaped
<1>6. Top(t).op # "stage" /\ Top(t).dev = d /\ d \in Devices
  <2>1. InPieces(t, place[t]) /\ 2 \in 1..3
    BY <1>3, OnePlaceOn
  <2>2. /\ Program[t][place[t]].dev = Program[t][place[t] - 2].dev
        /\ Program[t][place[t]].dev \in Devices
    BY <1>5, <2>1 DEF InPieces
  <2> QED BY <1>3, <1>5, <2>1, <2>2 DEF Fits
<1> DEFINE x == [Top(t) EXCEPT !.at = epoch[d]]
<1>7. /\ x.op = Top(t).op /\ x.dev = Top(t).dev /\ x.gen = Top(t).gen
      /\ x.live = Top(t).live /\ x.at = epoch[d]
      /\ x = [op |-> Top(t).op, dev |-> Top(t).dev, call |-> Top(t).call, gen |-> Top(t).gen,
              live |-> Top(t).live, open |-> Top(t).open, flag |-> Top(t).flag,
              owner |-> Top(t).owner, at |-> epoch[d]]
  BY <1>3 DEF Tokens
<1>8. Replace(t, x)
  BY <1>6 DEF Await, Complete
<1>9. x \in Tokens
  BY <1>3, <1>6, <1>7 DEF Typed, Tokens
<1> HIDE DEF x
<1>10. Moved(t) /\ NewTop(t) = x
  BY <1>2, <1>4, <1>7, <1>8, <1>9, MovedTop DEF NewTop
<1> QED BY <1>1, <1>6, <1>7, <1>10

LEMMA Elsewhere ==
  ASSUME NEW t \in Tasks, NEW n \in DOMAIN Program[t]
  PROVE  /\ Program[t][n].do \notin {"renew", "reinit", "endkeep", "release"} =>
              \A k \in 1..4 : ~InReset(t, n, k)
         /\ Program[t][n].do \notin {"own", "renew", "reinit", "endkeep"} =>
              \A k \in 1..4 : ~InReset(t, n + 1, k)
         /\ Program[t][n].do \notin {"enter", "await", "complete", "end"} =>
              \A k \in 1..3 : ~InTimed(t, n, k)
         /\ Program[t][n].do \notin {"begin", "enter", "await", "complete"} =>
              \A k \in 1..3 : ~InTimed(t, n + 1, k)
<1>1. InPieces(t, n)
  BY OnePlaceOn
<1>2. /\ InTimed(t, n + 1, 1) => Program[t][n].do = "begin"
      /\ InTimed(t, n + 1, 2) => InTimed(t, n, 1)
      /\ InTimed(t, n + 1, 3) => InTimed(t, n, 2)
  BY OnePlaceOn
<1>3. /\ InReset(t, n + 1, 1) => Program[t][n].do = "own"
      /\ InReset(t, n + 1, 2) => InReset(t, n, 1)
      /\ InReset(t, n + 1, 3) => InReset(t, n, 2)
      /\ InReset(t, n + 1, 4) => InReset(t, n, 3)
  BY OnePlaceOn
<1>4. /\ \A k \in 1..3 : k = 1 \/ k = 2 \/ k = 3
      /\ \A k \in 1..4 : k = 1 \/ k = 2 \/ k = 3 \/ k = 4
  OBVIOUS
<1>5. ASSUME Program[t][n].do \notin {"renew", "reinit", "endkeep", "release"}
      PROVE  \A k \in 1..4 : ~InReset(t, n, k)
  BY <1>1, <1>4, <1>5 DEF InPieces
<1>6. ASSUME Program[t][n].do \notin {"own", "renew", "reinit", "endkeep"}
      PROVE  \A k \in 1..4 : ~InReset(t, n + 1, k)
  BY <1>1, <1>3, <1>4, <1>6 DEF InPieces
<1>7. ASSUME Program[t][n].do \notin {"enter", "await", "complete", "end"}
      PROVE  \A k \in 1..3 : ~InTimed(t, n, k)
  BY <1>1, <1>4, <1>7 DEF InPieces
<1>8. ASSUME Program[t][n].do \notin {"begin", "enter", "await", "complete"}
      PROVE  \A k \in 1..3 : ~InTimed(t, n + 1, k)
  BY <1>1, <1>2, <1>4, <1>8 DEF InPieces
<1> QED BY <1>5, <1>6, <1>7, <1>8

(***************************************************************************)
(* A step outside the pieces of a reset leaves the counts alone, and its   *)
(* task with tokens that are their own.                                    *)
(***************************************************************************)
Plain(t) ==
  /\ Moved(t) /\ UNCHANGED <<Counts, unreal>>
  /\ \A k \in 1..4 : ~InReset(t, place[t], k) /\ ~InReset(t, place'[t], k)
  /\ state' = "ready" => \A k \in 1..3 : InTimed(t, place'[t], k) => NotedIsOwn(NewTop(t), k)

LEMMA PlainMeans ==
  ASSUME NEW t \in Tasks, Moved(t), UNCHANGED <<Counts, unreal>>, NEW n \in DOMAIN Program[t],
         n = place[t], place'[t] = n + 1,
         Program[t][n].do \notin {"own", "renew", "reinit", "endkeep", "release"},
         \/ Program[t][n].do \notin {"begin", "enter", "await", "complete"}
         \/ state' = "ready" => \A k \in 1..3 : InTimed(t, n + 1, k) => NotedIsOwn(NewTop(t), k)
  PROVE  Plain(t)
BY Elsewhere DEF Plain

LEMMA PlainHook ==
  ASSUME Stacked, NEW t \in Tasks, NEW do, At(t, do), Go(t, 1), Moved(t),
         UNCHANGED <<Counts, unreal>>,
         do \notin {"begin", "enter", "await", "complete", "own", "renew", "reinit", "endkeep",
                    "release"}
  PROVE  Plain(t)
<1>1. place[t] \in DOMAIN Program[t] /\ Program[t][place[t]].do = do
  BY Here
<1>2. place'[t] = place[t] + 1
  BY MovedOn
<1>3. PICK n : n = place[t]
  OBVIOUS
<1> QED BY <1>1, <1>2, <1>3, PlainMeans

LEMMA PlainLeap ==
  ASSUME Stacked, NEW t \in Tasks, NEW n \in DOMAIN Program[t], n = place[t],
         NEW j \in Leaps(Program[t][n]), Go(t, j), NEW s \in Seq(Tokens), Fits(t, n + 1, s),
         \A i \in 1..Len(s) : s[i].op \notin Timed, stack' = [stack EXCEPT ![t] = s],
         Program[t][n].do \notin {"renew", "reinit", "endkeep", "release"},
         UNCHANGED <<Counts, unreal>>
  PROVE  Plain(t)
<1>1. n + j \in 1..(Len(Program[t]) + 1) /\ Fits(t, n + j, s) /\ ~Inner(t, n + j)
  BY FitsLeap
<1>2. n + j \in Nat
  <2>1. Len(Program[t]) \in Nat
    BY ProgramAssumption DEF ProgramsShaped
  <2> QED BY <1>1, <2>1
<1>3. place' = [place EXCEPT ![t] = place'[t]] /\ place'[t] = n + j
  BY <1>2, Goes
<1>4. stack' = [stack EXCEPT ![t] = stack'[t]] /\ stack'[t] = s
  BY DEF Stacked
<1>5. Moved(t)
  BY <1>1, <1>2, <1>3, <1>4 DEF Moved
<1>6. \A k \in 1..4 : ~InReset(t, n, k)
  BY Elsewhere
<1>7. /\ \A k \in 1..4 : ~InReset(t, n + j, k)
      /\ \A k \in 1..3 : ~InTimed(t, n + j, k)
  BY <1>1 DEF Inner
<1> QED BY <1>3, <1>5, <1>6, <1>7 DEF Plain

Sound == ResetsApart /\ InStep /\ WaitsAreOwn

LEMMA ReadyBefore == ASSUME Hooked, state' = "ready" PROVE state = "ready"
BY DEF Hooked, Invalidated

LEMMA TimedTop ==
  ASSUME Stacked, NEW t \in Tasks, NEW k \in 1..3, InTimed(t, place[t], k)
  PROVE  Top(t).dev \in Devices /\ place[t] \in DOMAIN Program[t]
<1>1. PICK n : n = place[t]
  OBVIOUS
<1>2. /\ Program[t] \in Seq([do : STRING, op : STRING, dev : Nat])
      /\ \A m \in DOMAIN Program[t] : Pieces(Program[t], m)
  BY ProgramAssumption DEF ProgramsShaped
<1>3. DOMAIN Program[t] = 1..Len(Program[t]) /\ Len(Program[t]) \in Nat
  BY <1>2
<1>4. Fits(t, n, stack[t]) /\ n \in 1..(Len(Program[t]) + 1) /\ InTimed(t, n, k)
  BY <1>1 DEF Stacked, Fits
<1>5. n - k \in DOMAIN Program[t]
  BY <1>3, <1>4 DEF InTimed, Before
<1>6. Program[t][n - k].dev \in Devices
  BY <1>2, <1>4, <1>5 DEF InTimed, Pieces
<1>7. Top(t).dev = Program[t][n - k].dev
  BY <1>4 DEF Fits, Top, Last
<1>8. n \in DOMAIN Program[t]
  BY <1>4, PieceFollows
<1> QED BY <1>1, <1>6, <1>7, <1>8

LEMMA BeginPlain ==
  ASSUME Stacked, Typed, NEW t \in Tasks, At(t, "begin"), Go(t, 1), NEW p,
         Begin(t, Op(t), Dev(t), p, Call(t))
  PROVE  Plain(t)
<1>1. PICK n : n = place[t]
  OBVIOUS
<1>2. n \in DOMAIN Program[t] /\ Program[t][n].do = "begin" /\ place'[t] = n + 1
  BY <1>1, Here, MovedOn
<1>3. /\ Moved(t) /\ UNCHANGED <<Counts, unreal>>
      /\ NewTop(t).live => NewTop(t).dev \in Devices /\ NewTop(t).gen = gen[NewTop(t).dev]
  BY BeginDoes
<1>4. ~InTimed(t, n + 1, 2) /\ ~InTimed(t, n + 1, 3)
  BY <1>2, OnePlaceOn DEF InPieces
<1>5. NotedIsOwn(NewTop(t), 1)
  <2>1. NewTop(t).live => gen[NewTop(t).dev] \in Nat
    BY <1>3 DEF Typed
  <2> QED BY <1>3, <2>1 DEF NotedIsOwn
<1>6. \A k \in 1..3 : k = 1 \/ k = 2 \/ k = 3
  OBVIOUS
<1>7. \A k \in 1..3 : InTimed(t, n + 1, k) => NotedIsOwn(NewTop(t), k)
  BY <1>4, <1>5, <1>6
<1> QED BY <1>1, <1>2, <1>3, <1>7, PlainMeans

LEMMA EnterPlain ==
  ASSUME Stacked, Typed, state = "ready" => Sound, Hooked, NEW t \in Tasks, At(t, "enter"), Go(t, 1),
         Entered(t) \/ EnterMidReset(t) \/ (~Top(t).live /\ Quiet)
  PROVE  Plain(t)
<1>1. PICK n : n = place[t]
  OBVIOUS
<1>2. n \in DOMAIN Program[t] /\ Program[t][n].do = "enter" /\ place'[t] = n + 1
  BY <1>1, Here, MovedOn
<1>3. /\ Moved(t) /\ UNCHANGED <<Counts, unreal>>
      /\ state' = "ready" /\ NewTop(t).live =>
           /\ Top(t).live /\ ~resetting[Top(t).dev]
           /\ NewTop(t).gen = Top(t).gen /\ NewTop(t).dev = Top(t).dev
  BY EnterDoes
<1>4. /\ ~InTimed(t, n + 1, 1) /\ ~InTimed(t, n + 1, 3)
      /\ InTimed(t, n + 1, 2) => InTimed(t, n, 1)
  BY <1>2, OnePlaceOn DEF InPieces
<1>5. ASSUME state' = "ready", InTimed(t, n + 1, 2)
      PROVE  NotedIsOwn(NewTop(t), 2)
  <2>1. Sound
    BY <1>5, ReadyBefore
  <2>2. InTimed(t, place[t], 1) /\ 1 \in 1..3
    BY <1>1, <1>4, <1>5
  <2>3. NotedIsOwn(Top(t), 1) /\ Top(t).dev \in Devices
    BY <2>1, <2>2, TimedTop DEF Sound, WaitsAreOwn
  <2>4. ASSUME NewTop(t).live
        PROVE  gen[Top(t).dev] = epoch[Top(t).dev]
    <3>1. ~resetting[Top(t).dev]
      BY <1>3, <1>5, <2>4
    <3>2. 2 \in 1..4
      OBVIOUS
    <3>3. ~\E u \in Tasks : Resets(u, 2, Top(t).dev)
      BY <2>1, <2>3, <3>1, <3>2 DEF Sound, ResetsApart
    <3> QED BY <2>1, <2>3, <3>3 DEF Sound, InStep
  <2> QED BY <1>3, <1>5, <2>3, <2>4 DEF NotedIsOwn
<1>6. \A k \in 1..3 : k = 1 \/ k = 2 \/ k = 3
  OBVIOUS
<1>7. state' = "ready" => \A k \in 1..3 : InTimed(t, n + 1, k) => NotedIsOwn(NewTop(t), k)
  BY <1>4, <1>5, <1>6
<1> QED BY <1>1, <1>2, <1>3, <1>7, PlainMeans

LEMMA AwaitPlain ==
  ASSUME Stacked, Typed, state = "ready" => Sound, Hooked, NEW t \in Tasks,
         NEW do \in {"await", "complete"}, At(t, do), Go(t, 1),
         do = "await" => Await(t, Dev(t)), do = "complete" => Complete(t)
  PROVE  Plain(t)
<1>1. PICK n : n = place[t]
  OBVIOUS
<1>2. n \in DOMAIN Program[t] /\ Program[t][n].do = do /\ place'[t] = n + 1
  BY <1>1, Here, MovedOn
<1>d. PICK d : d = Dev(t)
  OBVIOUS
<1>3. /\ Moved(t) /\ UNCHANGED <<Counts, unreal>> /\ Top(t).dev = d
      /\ NewTop(t).live => Top(t).live /\ NewTop(t).at = epoch[d]
                           /\ NewTop(t).gen = Top(t).gen /\ NewTop(t).dev = Top(t).dev
  BY <1>d, AwaitDoes
<1>4. /\ ~InTimed(t, n + 1, 1) /\ ~InTimed(t, n + 1, 2)
      /\ InTimed(t, n + 1, 3) => InTimed(t, n, 2)
  BY <1>2, OnePlaceOn DEF InPieces
<1>5. ASSUME state' = "ready", InTimed(t, n + 1, 3)
      PROVE  NotedIsOwn(NewTop(t), 3)
  <2>1. Sound
    BY <1>5, ReadyBefore
  <2>2. InTimed(t, place[t], 2) /\ 2 \in 1..3
    BY <1>1, <1>4, <1>5
  <2>3. NotedIsOwn(Top(t), 2)
    BY <2>1, <2>2 DEF Sound, WaitsAreOwn
  <2> QED BY <1>3, <2>3 DEF NotedIsOwn
<1>6. \A k \in 1..3 : k = 1 \/ k = 2 \/ k = 3
  OBVIOUS
<1>7. state' = "ready" => \A k \in 1..3 : InTimed(t, n + 1, k) => NotedIsOwn(NewTop(t), k)
  BY <1>4, <1>5, <1>6
<1> QED BY <1>1, <1>2, <1>3, <1>7, PlainMeans

LEMMA TimedEnds ==
  ASSUME Stacked, NEW t \in Tasks, NEW do \in UsesToken, At(t, do), Top(t).op \in Timed,
         do \notin {"enter", "await", "complete"}
  PROVE  do = "end" /\ InTimed(t, place[t], 3)
<1>1. PICK n : n = place[t]
  OBVIOUS
<1>2. n \in DOMAIN Program[t] /\ Program[t][n].do = do
  BY <1>1, Here
<1>3. /\ Len(stack[t]) > 0 /\ Fits(t, n, stack[t]) /\ stack[t] \in Seq(Tokens)
      /\ Top(t) = stack[t][Len(stack[t])]
  BY <1>1, Here
<1>4. Len(stack[t]) \in 1..Len(stack[t])
  BY <1>3
<1>5. PICK k \in 1..3 : InTimed(t, n, k)
  BY <1>3, <1>4 DEF Fits
<1>6. InPieces(t, n)
  BY <1>2, OnePlaceOn
<1>7. k = 1 \/ k = 2 \/ k = 3
  OBVIOUS
<1> QED BY <1>1, <1>2, <1>5, <1>6, <1>7 DEF InPieces

LEMMA ExitedReal ==
  ASSUME Stacked, state = "ready" => Sound, NEW t \in Tasks, NEW do \in {"end", "endkeep", "answer"},
         At(t, do), Exited(t), unreal \in BOOLEAN
  PROVE  UNCHANGED unreal
<1>1. do \in UsesToken /\ do \notin {"enter", "await", "complete"}
  BY DEF UsesToken
<1>2. Top(t) \in Tokens
  BY <1>1, Here
<1> DEFINE f == Top(t).flag \/ ~Current(Top(t))
           r == [Top(t) EXCEPT !.flag = f]
<1>3. r.live = Top(t).live /\ r.op = Top(t).op /\ r.flag = f /\ r.at = Top(t).at /\ r.gen = Top(t).gen
  BY <1>2 DEF Tokens
<1>4. CASE ~Top(t).live
  BY <1>3, <1>4 DEF Exited
<1>5. CASE Top(t).live
  <2>1. unreal' = (unreal \/ (r.op \in Timed /\ ~r.flag /\ r.at # r.gen))
    BY <1>3, <1>5 DEF Exited, Timed
  <2>2. ~(r.op \in Timed /\ ~r.flag /\ r.at # r.gen)
    <3>1. SUFFICES ASSUME Top(t).op \in Timed, ~f PROVE Top(t).at = Top(t).gen
      BY <1>3
    <3>2. InTimed(t, place[t], 3) /\ 3 \in 1..3
      BY <1>1, <3>1, TimedEnds
    <3>3. state = "ready" /\ gen[Top(t).dev] = Top(t).gen
      BY <3>1, <3>2, TimedTop DEF Current
    <3>4. NotedIsOwn(Top(t), 3)
      BY <3>2, <3>3 DEF Sound, WaitsAreOwn
    <3> QED BY <1>5, <3>3, <3>4 DEF NotedIsOwn
  <2> QED BY <2>1, <2>2
<1> QED BY <1>4, <1>5

LEMMA EndPlain ==
  ASSUME Stacked, state = "ready" => Sound, unreal = FALSE, NEW t \in Tasks, Go(t, 1),
         (At(t, "end") /\ End(t)) \/ (At(t, "answer") /\ EndKeep(t))
  PROVE  Plain(t)
<1>1. CASE At(t, "end") /\ End(t)
  <2>1. UNCHANGED <<Counts, unreal>>
    <3>1. UNCHANGED unreal
      BY <1>1, ExitedReal DEF End
    <3> QED BY <1>1, <3>1 DEF End, Counts, completions
  <2>2. Moved(t)
    <3>1. "end" \in Popping
      BY DEF Popping
    <3> QED BY <1>1, <3>1, MovedPop DEF End
  <2> QED BY <1>1, <2>1, <2>2, PlainHook
<1>2. CASE At(t, "answer") /\ EndKeep(t)
  <2>1. UNCHANGED <<Counts, unreal>>
    <3>1. UNCHANGED unreal
      BY <1>2, ExitedReal DEF EndKeep
    <3> QED BY <1>2, <3>1 DEF EndKeep, Counts, completions
  <2>2. Moved(t)
    <3>1. "answer" \notin Pushing \cup Popping
      BY DEF Pushing, Popping
    <3> QED BY <1>2, <3>1, MovedSame DEF EndKeep
  <2> QED BY <1>2, <2>1, <2>2, PlainHook
<1> QED BY <1>1, <1>2

LEMMA QuietPlain ==
  ASSUME Stacked, NEW t \in Tasks, Go(t, 1),
         NEW do \in {"go", "start", "idle", "sync", "maybe", "schedule", "queue", "ordinary",
                     "plain", "decision"},
         At(t, do), NEW on, NEW q,
         Quiet \/ Queue(t) \/ SetOrdinary(on) \/ AuxDecision(t, q)
  PROVE  Plain(t)
<1>1. UNCHANGED <<Counts, unreal>> /\ UNCHANGED stack
  BY DEF Quiet, Queue, SetOrdinary, AuxDecision, Counts, emitter, completions, hindsight
<1>2. Moved(t)
  <2>1. do \notin Pushing \cup Popping
    BY DEF Pushing, Popping
  <2> QED BY <1>1, <2>1, MovedSame
<1> QED BY <1>1, <1>2, PlainHook

LEMMA LeapPlain ==
  ASSUME Stacked, NEW t \in Tasks, NEW do \in {"maybe", "goto"}, At(t, do), Go(t, 1 + Dev(t)), Quiet
  PROVE  Plain(t)
<1>1. PICK n : n = place[t]
  OBVIOUS
<1>2. PICK s : s = stack[t]
  OBVIOUS
<1>3. PICK d : d = Dev(t)
  OBVIOUS
<1>4. /\ n \in DOMAIN Program[t] /\ Program[t][n].do = do /\ d = Program[t][n].dev
      /\ s \in Seq(Tokens) /\ Fits(t, n, s)
  BY <1>1, <1>2, <1>3, Here
<1>5. 1 + d \in Leaps(Program[t][n])
  BY <1>4 DEF Leaps
<1>6. Fits(t, n + 1, s)
  <2>1. Program[t][n].do \notin Pushing \cup Popping
    BY <1>4 DEF Pushing, Popping
  <2> QED BY <1>4, <2>1, FitsSame
<1>7. \A i \in 1..Len(s) : s[i].op \notin Timed
  <2>1. \A k \in 1..3 : ~InTimed(t, n + 1, k)
    BY <1>4, Elsewhere
  <2> QED BY <1>6, <2>1 DEF Fits
<1>8. stack' = [stack EXCEPT ![t] = s] /\ UNCHANGED <<Counts, unreal>>
  BY <1>2 DEF Quiet, Stacked, Counts, emitter, completions
<1>9. Go(t, 1 + d)
  BY <1>3
<1> QED BY <1>1, <1>4, <1>5, <1>6, <1>7, <1>8, <1>9, PlainLeap

LEMMA ProceedPlain ==
  ASSUME Stacked, NEW t \in Tasks, Proceed(t)
  PROVE  Plain(t)
<1>1. PICK n : n = place[t]
  OBVIOUS
<1>2. PICK s : s = stack[t]
  OBVIOUS
<1>3. PICK d : d = Dev(t)
  OBVIOUS
<1>4. "progress" \in UsesToken /\ "progress" \in Popping
  BY DEF UsesToken, Popping
<1>5. /\ n \in DOMAIN Program[t] /\ Program[t][n].do = "progress" /\ d = Program[t][n].dev
      /\ s \in Seq(Tokens) /\ Fits(t, n, s) /\ Len(s) > 0
  BY <1>1, <1>2, <1>3, <1>4, Here DEF Proceed
<1>6. Pop(t) /\ UNCHANGED <<Counts, unreal>>
  BY DEF Proceed, AuxProgress, Counts, completions
<1>7. CASE Go(t, 1)
  <2>1. Moved(t)
    BY <1>4, <1>6, <1>7, MovedPop DEF Proceed
  <2> QED BY <1>6, <1>7, <2>1, PlainHook DEF Proceed
<1>8. CASE Go(t, 1 - Len(Prepared(Dev(t))))
  <2>1. 1 - Len(Prepared(d)) \in Leaps(Program[t][n])
    BY <1>5 DEF Leaps
  <2>2. /\ Front(s) \in Seq(Tokens) /\ Fits(t, n + 1, Front(s))
        /\ \A i \in 1..Len(Front(s)) : Front(s)[i].op \notin Timed
    BY <1>4, <1>5, FitsPop
  <2>3. stack' = [stack EXCEPT ![t] = Front(s)]
    BY <1>2, <1>6 DEF Pop
  <2>4. Go(t, 1 - Len(Prepared(d)))
    BY <1>3, <1>8
  <2> QED BY <1>1, <1>5, <1>6, <2>1, <2>2, <2>3, <2>4, PlainLeap
<1> QED BY <1>7, <1>8 DEF Proceed

LEMMA PlainStays ==
  ASSUME Stacked, Sound, NEW t \in Tasks, Plain(t), state' = "ready"
  PROVE  Sound'
<1>1. \A u \in Tasks : u # t => place'[u] = place[u] /\ stack'[u] = stack[u] /\ Top(u)' = Top(u)
  BY MovedStays DEF Plain, Top
<1>2. UNCHANGED <<gen, epoch, resetting>>
  BY DEF Plain, Counts
<1>3. \A u \in Tasks, k \in 1..4 : \A d : Resets(u, k, d)' <=> Resets(u, k, d)
  BY <1>1 DEF Resets, Plain
<1>4. \A k \in 1..4 : \A d : ~Resets(t, k, d)
  BY DEF Resets, Plain
<1>5. ResetsApart'
  BY <1>1, <1>2, <1>3, <1>4 DEF Sound, ResetsApart
<1>6. InStep'
  <2>1. 2 \in 1..4
    OBVIOUS
  <2> QED BY <1>2, <1>3, <2>1 DEF Sound, InStep
<1>7. WaitsAreOwn'
  <2>1. \A u \in Tasks, k \in 1..3 : u # t /\ InTimed(u, place'[u], k) => NotedIsOwn(Top(u), k)'
    BY <1>1, <1>2 DEF Sound, WaitsAreOwn, NotedIsOwn
  <2>2. Top(t)' = NewTop(t)
    BY DEF Top, NewTop, Last
  <2>3. \A k \in 1..3 : InTimed(t, place'[t], k) => NotedIsOwn(Top(t), k)'
    BY <1>2, <2>2 DEF Plain, NotedIsOwn
  <2> QED BY <2>1, <2>3 DEF WaitsAreOwn
<1> QED BY <1>5, <1>6, <1>7 DEF Sound

(***************************************************************************)
(* The pieces of a reset.                                                  *)
(***************************************************************************)
LEMMA ResetAt ==
  ASSUME NEW t \in Tasks, NEW n \in 1..(Len(Program[t]) + 1), NEW k \in 1..4, InReset(t, n, k)
  PROVE  /\ n \in DOMAIN Program[t] /\ Program[t][n - k].dev \in Devices
         /\ Program[t][(n + 1) - (k + 1)] = Program[t][n - k]
         /\ \A l \in 1..4 : InReset(t, n, l) <=> l = k
         /\ \A l \in 1..4 : InReset(t, n + 1, l) <=> l = k + 1
         /\ \A l \in 1..3 : ~InTimed(t, n + 1, l)
<1>1. n \in DOMAIN Program[t]
  BY PieceFollows
<1>2. /\ Program[t] \in Seq([do : STRING, op : STRING, dev : Nat])
      /\ \A m \in DOMAIN Program[t] : Pieces(Program[t], m)
  BY ProgramAssumption DEF ProgramsShaped
<1>3. DOMAIN Program[t] = 1..Len(Program[t]) /\ Len(Program[t]) \in Nat
  BY <1>2
<1>4. Program[t][n - k].dev \in Devices
  <2>1. n - k \in DOMAIN Program[t] /\ Program[t][n - k].do = "own"
    BY <1>3 DEF InReset, Before
  <2> QED BY <1>2, <2>1 DEF Pieces
<1>5. Program[t][(n + 1) - (k + 1)] = Program[t][n - k]
  <2>1. (n + 1) - (k + 1) = n - k
    BY <1>3
  <2> QED BY <2>1
<1>6. k = 1 \/ k = 2 \/ k = 3 \/ k = 4
  OBVIOUS
<1>7. InPieces(t, n)
  BY <1>1, OnePlaceOn
<1>8. \A l \in 1..4 : l = 1 \/ l = 2 \/ l = 3 \/ l = 4
  OBVIOUS
<1>9. \A l \in 1..4 : InReset(t, n, l) <=> l = k
  BY <1>6, <1>7, <1>8 DEF InPieces
<1>10. Program[t][n].do \in {"renew", "reinit", "endkeep", "release"}
  BY <1>6, <1>7 DEF InPieces
<1>11. \A l \in 1..3 : ~InTimed(t, n + 1, l)
  BY <1>1, <1>10, Elsewhere
<1>12. /\ ~InReset(t, n + 1, 1)
       /\ InReset(t, n + 1, 2) <=> InReset(t, n, 1)
       /\ InReset(t, n + 1, 3) <=> InReset(t, n, 2)
       /\ InReset(t, n + 1, 4) <=> InReset(t, n, 3)
  BY <1>1, <1>10, OnePlaceOn
<1>13. \A l \in 1..4 : InReset(t, n + 1, l) <=> l = k + 1
  <2>1. /\ InReset(t, n + 1, 2) <=> k = 1
        /\ InReset(t, n + 1, 3) <=> k = 2
        /\ InReset(t, n + 1, 4) <=> k = 3
    BY <1>9, <1>12
  <2> QED BY <1>6, <1>8, <1>12, <2>1
<1> QED BY <1>1, <1>4, <1>5, <1>9, <1>11, <1>13

LEMMA ResetGoesOn ==
  ASSUME Stacked, NEW t \in Tasks, NEW k \in 1..4, InReset(t, place[t], k), Go(t, 1)
  PROVE  \E d \in Devices :
           /\ \A l \in 1..4 : \A e : Resets(t, l, e) <=> l = k /\ e = d
           /\ \A l \in 1..4 : \A e : Resets(t, l, e)' <=> l = k + 1 /\ e = d
           /\ \A l \in 1..3 : ~InTimed(t, place'[t], l)
<1>1. PICK n : n = place[t]
  OBVIOUS
<1>2. n \in 1..(Len(Program[t]) + 1) /\ InReset(t, n, k)
  BY <1>1 DEF Stacked, Fits
<1>3. place'[t] = n + 1
  BY <1>1 DEF Go, Stacked
<1> DEFINE d == Program[t][n - k].dev
<1>4. d \in Devices /\ \A l \in 1..3 : ~InTimed(t, place'[t], l)
  BY <1>2, <1>3, ResetAt
<1>5. \A l \in 1..4 : \A e : Resets(t, l, e) <=> l = k /\ e = d
  <2>1. \A l \in 1..4 : InReset(t, n, l) <=> l = k
    BY <1>2, ResetAt
  <2> QED BY <1>1, <2>1 DEF Resets
<1>6. \A l \in 1..4 : \A e : Resets(t, l, e)' <=> l = k + 1 /\ e = d
  <2>1. \A l \in 1..4 : InReset(t, n + 1, l) <=> l = k + 1
    BY <1>2, ResetAt
  <2>2. Program[t][(n + 1) - (k + 1)].dev = d
    BY <1>2, ResetAt
  <2> QED BY <1>3, <2>1, <2>2 DEF Resets
<1> HIDE DEF d
<1> QED BY <1>4, <1>5, <1>6

\* What the step of a task leaves as it is.
LEMMA OthersStay ==
  ASSUME Stacked, NEW t \in Tasks, Moved(t)
  PROVE  \A u \in Tasks : u # t =>
           /\ place'[u] = place[u] /\ Top(u)' = Top(u)
           /\ \A k, d : Resets(u, k, d)' <=> Resets(u, k, d)
<1>1. \A u \in Tasks : u # t => place'[u] = place[u] /\ stack'[u] = stack[u]
  BY MovedStays
<1> QED BY <1>1 DEF Top, Resets

LEMMA WaitsStay ==
  ASSUME Stacked, Typed, WaitsAreOwn, NEW t \in Tasks, Moved(t),
         \A k \in 1..3 : ~InTimed(t, place'[t], k),
         \A e \in Devices :
           \/ gen'[e] = gen[e] /\ epoch'[e] = epoch[e]
           \/ gen'[e] = gen[e] + 1
           \/ gen'[e] = gen[e] /\ epoch[e] # gen[e]
  PROVE  WaitsAreOwn'
<1>1. SUFFICES ASSUME NEW u \in Tasks, NEW k \in 1..3, InTimed(u, place'[u], k)
               PROVE  NotedIsOwn(Top(u), k)'
  BY DEF WaitsAreOwn
<1>2. u # t
  BY <1>1
<1>3. InTimed(u, place[u], k) /\ Top(u)' = Top(u)
  BY <1>1, <1>2, OthersStay
<1>4. PICK x : x = Top(u)
  OBVIOUS
<1>5. x.dev \in Devices /\ NotedIsOwn(x, k)
  BY <1>3, <1>4, TimedTop DEF WaitsAreOwn
<1>6. PICK d \in Devices : d = x.dev
  BY <1>5
<1>7. gen[d] \in Nat
  BY DEF Typed
<1>8. x.live => /\ x.gen <= gen'[d]
                /\ x.gen = gen'[d] => (k >= 2 => x.gen = epoch'[d]) /\ (k = 3 => x.at = x.gen)
  <2> SUFFICES ASSUME x.live
               PROVE  /\ x.gen <= gen'[d]
                      /\ x.gen = gen'[d] =>
                           (k >= 2 => x.gen = epoch'[d]) /\ (k = 3 => x.at = x.gen)
    OBVIOUS
  <2>1. /\ x.gen <= gen[d]
        /\ x.gen = gen[d] => (k >= 2 => x.gen = epoch[d]) /\ (k = 3 => x.at = x.gen)
    BY <1>5, <1>6 DEF NotedIsOwn
  <2>2. CASE gen'[d] = gen[d] /\ epoch'[d] = epoch[d]
    BY <2>1, <2>2
  <2>3. CASE gen'[d] = gen[d] + 1
    <3>1. x.gen # gen'[d]
      BY <1>7, <2>1, <2>3
    <3>2. x.gen \in Int
      <4>1. /\ u \in Tasks /\ stack[u] \in Seq(Tokens) /\ Fits(u, place[u], stack[u])
        BY DEF Stacked
      <4>2. x \in Tokens
        <5>1. place[u] \in DOMAIN Program[u]
          BY <1>3, TimedTop
        <5>2. PICK n : n = place[u]
          OBVIOUS
        <5>3. InPieces(u, n)
          BY <5>1, <5>2, OnePlaceOn
        <5>4. k = 1 \/ k = 2 \/ k = 3
          OBVIOUS
        <5>5. PICK do : do = Program[u][n].do
          OBVIOUS
        <5>6. do \in UsesToken
          BY <1>3, <5>2, <5>3, <5>4, <5>5 DEF InPieces, UsesToken
        <5>7. Open(u, n) > 0
          BY <5>1, <5>2, <5>5, <5>6, ProgramAssumption DEF ProgramsShaped
        <5>8. Len(stack[u]) > 0
          BY <4>1, <5>2, <5>7 DEF Fits
        <5> QED BY <1>4, <4>1, <5>8, ElementOfSeq DEF Top, Last
      <4> QED BY <4>2 DEF Tokens
    <3> QED BY <1>7, <2>1, <2>3, <3>1, <3>2
  <2>4. CASE gen'[d] = gen[d] /\ epoch[d] # gen[d]
    <3>1. x.gen = gen[d] => k < 2
      BY <2>1, <2>4
    <3> QED BY <2>1, <2>4, <3>1
  <2> QED BY <2>2, <2>3, <2>4
<1> QED BY <1>3, <1>4, <1>6, <1>8 DEF NotedIsOwn

LEMMA OwnDoes ==
  ASSUME Stacked, Typed, state = "ready" => Sound, NEW t \in Tasks, At(t, "own"), Go(t, 1),
         Own(t, Dev(t))
  PROVE  /\ Moved(t) /\ Typed' /\ UNCHANGED unreal
         /\ state' = "ready" => Sound'
<1>1. PICK n : n = place[t]
  OBVIOUS
<1>2. PICK d : d = Dev(t)
  OBVIOUS
<1>3. /\ n \in DOMAIN Program[t] /\ Program[t][n].do = "own" /\ place'[t] = n + 1
      /\ d = Program[t][n].dev /\ d \in Nat
  BY <1>1, <1>2, Here, MovedOn
<1>4. d \in Devices
  BY <1>3, ProgramAssumption DEF ProgramsShaped, Pieces
<1> DEFINE owner == state = "ready" /\ ~resetting[d]
           x == [Empty("reinit", d) EXCEPT !.owner = owner]
<1>5. /\ Push(t, x) /\ UNCHANGED <<gen, epoch, unreal>>
      /\ resetting' = [resetting EXCEPT ![d] = @ \/ state = "ready"]
      /\ state' = IF state = "ready" /\ ~owner THEN Invalidated ELSE state
  BY <1>2 DEF Own, completions, hindsight
<1>6. x \in Tokens /\ x.owner = owner /\ x.dev = d /\ x.op = "reinit" /\ ~x.live
  <2>1. "reinit" \in Ops
    BY DEF Ops
  <2>2. Empty("reinit", d) \in Tokens
    <3>1. NoCall \in Calls
      BY DEF Calls
    <3> QED BY <1>3, <2>1, <3>1, TokenTyped
  <2> QED BY <2>2 DEF Empty, Tokens
<1> HIDE DEF x
<1>7. Moved(t) /\ NewTop(t) = x
  <2>1. "own" \in Pushing /\ "own" # "begin" /\ "reinit" \notin Timed
    BY DEF Pushing, Timed
  <2> QED BY <1>5, <1>6, <2>1, MovedPush DEF NewTop
<1>8. Typed'
  BY <1>4, <1>5 DEF Typed
<1>9. ASSUME state' = "ready"
      PROVE  Sound'
  <2>1. state = "ready" /\ owner
    BY <1>5, <1>9 DEF Invalidated
  <2>2. Sound /\ ~resetting[d]
    BY <2>1
  <2>3. resetting'[d] /\ \A e \in Devices : e # d => resetting'[e] = resetting[e]
    BY <1>4, <1>5, <2>1 DEF Typed
  <2>4. \A u \in Tasks, k \in 1..4 : ~Resets(u, k, d)
    BY <1>4, <2>2 DEF Sound, ResetsApart
  <2>5. /\ \A k \in 1..4 : ~InReset(t, n, k)
        /\ ~InReset(t, n + 1, 2) /\ ~InReset(t, n + 1, 3) /\ ~InReset(t, n + 1, 4)
        /\ InReset(t, n + 1, 1) /\ Program[t][(n + 1) - 1] = Program[t][n]
        /\ \A k \in 1..3 : ~InTimed(t, n + 1, k)
    BY <1>3, OnePlaceOn, Elsewhere DEF InPieces
  <2>6. \A k \in 1..4 : \A e : ~Resets(t, k, e)
    BY <1>1, <2>5 DEF Resets
  <2>7. \A k \in 1..4 : \A e : Resets(t, k, e)' <=> k = 1 /\ e = d
    <3>1. \A k \in 1..4 : k = 1 \/ k = 2 \/ k = 3 \/ k = 4
      OBVIOUS
    <3>2. \A k \in 1..4 : InReset(t, n + 1, k) <=> k = 1
      BY <2>5, <3>1
    <3> QED BY <1>3, <2>5, <3>2 DEF Resets
  <2>8. Top(t)' = x
    BY <1>7 DEF NewTop, Top, Last
  <2>9. \A u \in Tasks : u # t =>
           /\ Top(u)' = Top(u)
           /\ \A k, e : Resets(u, k, e)' <=> Resets(u, k, e)
    BY <1>7, OthersStay
  <2>10. ResetsApart'
    <3>1. ASSUME NEW u \in Tasks, NEW e \in Devices, NEW k \in 1..4, Resets(u, k, e)'
          PROVE  /\ Top(u)'.owner /\ Top(u)'.dev = e /\ resetting'[e]
                 /\ \A v \in Tasks : \A l \in 1..4 : Resets(v, l, e)' => v = u
      <4>1. CASE u = t
        <5>1. e = d
          BY <2>7, <3>1, <4>1
        <5> QED BY <1>6, <2>1, <2>3, <2>4, <2>8, <2>9, <4>1, <5>1
      <4>2. CASE u # t
        <5>1. Resets(u, k, e) /\ e # d
          BY <2>4, <2>9, <3>1, <4>2
        <5>2. /\ Top(u).owner /\ Top(u).dev = e /\ resetting[e]
              /\ \A v \in Tasks : \A l \in 1..4 : Resets(v, l, e) => v = u
          BY <2>2, <5>1 DEF Sound, ResetsApart
        <5> QED BY <2>3, <2>7, <2>9, <4>2, <5>1, <5>2
      <4> QED BY <4>1, <4>2
    <3> QED BY <3>1 DEF ResetsApart
  <2>11. InStep'
    <3>1. \A u \in Tasks : \A e : Resets(u, 2, e)' <=> Resets(u, 2, e)
      BY <2>6, <2>7, <2>9
    <3> QED BY <1>5, <2>2, <3>1 DEF Sound, InStep
  <2>12. WaitsAreOwn'
    BY <1>3, <1>5, <1>7, <2>2, <2>5, WaitsStay DEF Sound
  <2> QED BY <2>10, <2>11, <2>12 DEF Sound
<1> QED BY <1>5, <1>7, <1>8, <1>9

\* A reset whose next step is taken stays apart from the others.
LEMMA ResetStaysApart ==
  ASSUME Stacked, ResetsApart, NEW t \in Tasks, Moved(t), NEW k \in 1..3, NEW d \in Devices,
         \A l \in 1..4 : \A e : Resets(t, l, e) <=> l = k /\ e = d,
         \A l \in 1..4 : \A e : Resets(t, l, e)' <=> l = k + 1 /\ e = d,
         Top(t)'.owner, Top(t)'.dev = d, UNCHANGED resetting
  PROVE  ResetsApart'
<1>1. \A u \in Tasks : u # t =>
         /\ Top(u)' = Top(u)
         /\ \A l, e : Resets(u, l, e)' <=> Resets(u, l, e)
  BY OthersStay
<1>2. Resets(t, k, d) /\ k \in 1..4
  OBVIOUS
<1>3. resetting[d] /\ \A v \in Tasks : \A l \in 1..4 : Resets(v, l, d) => v = t
  BY <1>2 DEF ResetsApart
<1>4. ASSUME NEW u \in Tasks, NEW e \in Devices, NEW j \in 1..4, Resets(u, j, e)'
      PROVE  /\ Top(u)'.owner /\ Top(u)'.dev = e /\ resetting'[e]
             /\ \A v \in Tasks : \A l \in 1..4 : Resets(v, l, e)' => v = u
  <2>1. CASE u = t
    <3>1. e = d
      BY <1>4, <2>1
    <3> QED BY <1>1, <1>3, <2>1, <3>1
  <2>2. CASE u # t
    <3>1. Resets(u, j, e) /\ e # d
      BY <1>1, <1>3, <1>4, <2>2
    <3>2. /\ Top(u).owner /\ Top(u).dev = e /\ resetting[e]
          /\ \A v \in Tasks : \A l \in 1..4 : Resets(v, l, e) => v = u
      BY <3>1 DEF ResetsApart
    <3> QED BY <1>1, <2>2, <3>1, <3>2
  <2> QED BY <2>1, <2>2
<1> QED BY <1>4 DEF ResetsApart

LEMMA RenewedToken ==
  ASSUME Typed, NEW d \in Devices, NEW c \in Calls
  PROVE  LET r == [Token("reinit", d, c) EXCEPT !.owner = TRUE, !.open = TRUE, !.gen = gen[d] + 1]
         IN  r \in Tokens /\ r.owner /\ r.dev = d /\ r.op = "reinit"
<1>1. "reinit" \in Ops /\ d \in Nat
  BY EmitterAssumption DEF Ops
<1>2. Token("reinit", d, c) \in Tokens
  BY <1>1, TokenTyped
<1>3. gen[d] + 1 \in Nat
  BY DEF Typed
<1> QED BY <1>2, <1>3 DEF Token, Tokens

LEMMA RenewSteps ==
  ASSUME Typed, NEW t \in Tasks, NEW d, d = Top(t).dev, NEW c \in Calls, Renew(t, c),
         state = "ready" => Top(t).owner /\ d \in Devices
  PROVE  /\ UNCHANGED <<epoch, resetting, unreal>> /\ gen' \in [Devices -> Nat]
         /\ \/ UNCHANGED stack
            \/ \E r \in Tokens : /\ Replace(t, r) /\ r.owner /\ r.dev = d /\ r.op = "reinit"
                                 /\ d \in Devices
         /\ state' = "ready" => gen' = [gen EXCEPT ![d] = @ + 1]
<1>1. UNCHANGED <<epoch, resetting, unreal>>
  BY DEF Renew, completions
<1>2. CASE ~Top(t).owner
  <2>1. NoSlotUsed /\ UNCHANGED <<gen, stack>>
    BY <1>2 DEF Renew
  <2> QED BY <1>1, <1>2, <2>1 DEF NoSlotUsed, Typed
<1>3. CASE Top(t).owner
  <2>1. gen' = [gen EXCEPT ![d] = @ + 1]
    BY <1>3 DEF Renew
  <2>2. gen' \in [Devices -> Nat]
    <3>1. CASE d \in Devices
      BY <2>1, <3>1 DEF Typed
    <3>2. CASE d \notin Devices
      <4>1. gen' = gen
        BY <2>1, <3>2 DEF Typed
      <4> QED BY <4>1 DEF Typed
    <3> QED BY <3>1, <3>2
  <2>3. CASE Off \/ gen[d] + 1 > Generations
    <3>1. UNCHANGED stack
      BY <1>3, <2>3 DEF Renew
    <3> QED BY <1>1, <2>1, <2>2, <3>1
  <2>4. CASE ~(Off \/ gen[d] + 1 > Generations)
    <3>1. d \in Devices
      BY <2>4 DEF Off
    <3>2. \/ UNCHANGED stack
          \/ Replace(t, [Token("reinit", d, c) EXCEPT !.owner = TRUE, !.open = TRUE, !.gen = gen[d] + 1])
      BY <1>3, <2>4 DEF Renew
    <3>3. CASE UNCHANGED stack
      BY <1>1, <2>1, <2>2, <3>3
    <3>4. CASE Replace(t, [Token("reinit", d, c) EXCEPT !.owner = TRUE, !.open = TRUE, !.gen = gen[d] + 1])
      BY <1>1, <2>1, <2>2, <3>1, <3>4, RenewedToken
    <3> QED BY <3>2, <3>3, <3>4
  <2> QED BY <2>3, <2>4
<1> QED BY <1>2, <1>3

LEMMA RenewDoes ==
  ASSUME Stacked, Typed, state = "ready" => Sound, Hooked, NEW t \in Tasks, At(t, "renew"), Go(t, 1),
         Renew(t, Call(t))
  PROVE  /\ Moved(t) /\ Typed' /\ UNCHANGED unreal
         /\ state' = "ready" => Sound'
<1>1. "renew" \in UsesToken /\ "renew" \notin Pushing \cup Popping /\ 1 \in 1..4 /\ 1 \in 1..3
  BY DEF UsesToken, Pushing, Popping
<1>2. InReset(t, place[t], 1)
  BY Here, ProgramAssumption DEF ProgramsShaped
<1>3. PICK d \in Devices :
        /\ \A l \in 1..4 : \A e : Resets(t, l, e) <=> l = 1 /\ e = d
        /\ \A l \in 1..4 : \A e : Resets(t, l, e)' <=> l = 1 + 1 /\ e = d
        /\ \A l \in 1..3 : ~InTimed(t, place'[t], l)
  BY <1>1, <1>2, ResetGoesOn
<1>4. PICK D : D = Top(t).dev
  OBVIOUS
<1>5. PICK c \in Calls : c = Call(t)
  BY Here
<1>6. Renew(t, c)
  BY <1>5
<1>7. Resets(t, 1, d)
  BY <1>1, <1>3
<1>8. state = "ready" => Top(t).owner /\ D = d
  BY <1>1, <1>4, <1>7 DEF Sound, ResetsApart
<1>9. /\ UNCHANGED <<epoch, resetting, unreal>> /\ gen' \in [Devices -> Nat]
      /\ \/ UNCHANGED stack
         \/ \E r \in Tokens : /\ Replace(t, r) /\ r.owner /\ r.dev = D /\ r.op = "reinit"
                              /\ D \in Devices
      /\ state' = "ready" => gen' = [gen EXCEPT ![D] = @ + 1]
  <2>1. state = "ready" => Top(t).owner /\ D \in Devices
    BY <1>3, <1>8
  <2> QED BY <1>4, <1>6, <2>1, RenewSteps
<1>10. Typed'
  BY <1>9 DEF Typed
<1>11. Moved(t) /\ (state = "ready" => Top(t)'.owner /\ Top(t)'.dev = D)
  <2>1. CASE UNCHANGED stack
    <3>1. Moved(t) /\ Top(t)' = Top(t)
      BY <1>1, <2>1, MovedSame DEF Top
    <3> QED BY <1>4, <1>8, <3>1
  <2>2. ASSUME NEW r \in Tokens, Replace(t, r), r.owner, r.dev = D, r.op = "reinit", D \in Devices
        PROVE  Moved(t) /\ Top(t)'.owner /\ Top(t)'.dev = D
    <3>1. Moved(t) /\ stack'[t][Len(stack'[t])] = r
      BY <1>1, <1>4, <2>2, MovedTop
    <3>2. Top(t)' = r
      BY <3>1 DEF Top, Last
    <3> QED BY <2>2, <3>1, <3>2
  <2> QED BY <1>9, <2>1, <2>2
<1>12. ASSUME state' = "ready"
       PROVE  Sound'
  <2>1. state = "ready" /\ Sound /\ D = d
    BY <1>8, <1>12, ReadyBefore
  <2>2. gen' = [gen EXCEPT ![d] = @ + 1]
    BY <1>9, <1>12, <2>1
  <2>3. \A e \in Devices : gen'[e] = IF e = d THEN gen[e] + 1 ELSE gen[e]
    BY <2>2 DEF Typed
  <2>4. ResetsApart'
    BY <1>1, <1>3, <1>9, <1>11, <2>1, ResetStaysApart DEF Sound
  <2>5. \A u \in Tasks : u # t => \A k, e : Resets(u, k, e)' <=> Resets(u, k, e)
    BY <1>11, OthersStay
  <2>6. InStep'
    <3>1. 2 \in 1..4 /\ 1 # 2 /\ 2 = 1 + 1
      OBVIOUS
    <3>2. Resets(t, 2, d)' /\ gen'[d] = gen[d] + 1
      BY <1>3, <2>3, <3>1
    <3>3. ~\E u \in Tasks : Resets(u, 2, d)
      <4>1. \A u \in Tasks : Resets(u, 2, d) => u = t
        BY <1>1, <1>7, <2>1, <3>1 DEF Sound, ResetsApart
      <4> QED BY <1>3, <3>1, <4>1
    <3>4. gen[d] = epoch[d]
      BY <2>1, <3>3 DEF Sound, InStep
    <3>5. \A e \in Devices : e # d => /\ gen'[e] = gen[e]
                                      /\ \A u \in Tasks : Resets(u, 2, e)' <=> Resets(u, 2, e)
      <4>1. \A e \in Devices : e # d => ~Resets(t, 2, e)' /\ ~Resets(t, 2, e)
        BY <1>3, <3>1
      <4> QED BY <2>3, <2>5, <4>1
    <3> QED BY <1>9, <2>1, <3>2, <3>4, <3>5 DEF Sound, InStep
  <2>7. WaitsAreOwn'
    <3>1. \A e \in Devices : \/ gen'[e] = gen[e] /\ epoch'[e] = epoch[e]
                             \/ gen'[e] = gen[e] + 1
      BY <1>9, <2>3
    <3> QED BY <1>3, <1>11, <2>1, <3>1, WaitsStay DEF Sound
  <2> QED BY <2>4, <2>6, <2>7 DEF Sound
<1> QED BY <1>9, <1>10, <1>11, <1>12

LEMMA ReinitDoes ==
  ASSUME Stacked, Typed, state = "ready" => Sound, Hooked, NEW t \in Tasks, At(t, "reinit"), Go(t, 1),
         Reinit(t)
  PROVE  /\ Moved(t) /\ Typed' /\ UNCHANGED unreal
         /\ state' = "ready" => Sound'
<1>1. "reinit" \notin Pushing \cup Popping /\ 2 \in 1..4 /\ 2 \in 1..3
  BY DEF Pushing, Popping
<1>2. InReset(t, place[t], 2)
  BY Here, ProgramAssumption DEF ProgramsShaped
<1>3. PICK d \in Devices :
        /\ \A l \in 1..4 : \A e : Resets(t, l, e) <=> l = 2 /\ e = d
        /\ \A l \in 1..4 : \A e : Resets(t, l, e)' <=> l = 2 + 1 /\ e = d
        /\ \A l \in 1..3 : ~InTimed(t, place'[t], l)
  BY <1>1, <1>2, ResetGoesOn
<1>4. PICK D : D = Top(t).dev
  OBVIOUS
<1>5. /\ UNCHANGED <<gen, resetting, unreal>> /\ UNCHANGED stack
      /\ epoch' = [epoch EXCEPT ![D] = @ + 1]
  BY <1>4 DEF Reinit, emitter, hindsight
<1>6. epoch' \in [Devices -> Nat]
  <2>1. CASE D \in Devices
    BY <1>5, <2>1 DEF Typed
  <2>2. CASE D \notin Devices
    <3>1. epoch' = epoch
      BY <1>5, <2>2 DEF Typed
    <3> QED BY <3>1 DEF Typed
  <2> QED BY <2>1, <2>2
<1>7. Typed'
  BY <1>5, <1>6 DEF Typed
<1>8. Moved(t) /\ Top(t)' = Top(t)
  BY <1>1, <1>5, MovedSame DEF Top
<1>9. Resets(t, 2, d)
  BY <1>1, <1>3
<1>10. ASSUME state' = "ready"
       PROVE  Sound'
  <2>1. state = "ready" /\ Sound
    BY <1>10, ReadyBefore
  <2>2. Top(t).owner /\ D = d
    BY <1>1, <1>4, <1>9, <2>1 DEF Sound, ResetsApart
  <2>3. \A e \in Devices : epoch'[e] = IF e = d THEN epoch[e] + 1 ELSE epoch[e]
    BY <1>5, <2>2 DEF Typed
  <2>4. ResetsApart'
    <3>1. Top(t)'.owner /\ Top(t)'.dev = d
      BY <1>4, <1>8, <2>2
    <3>2. ResetsApart /\ UNCHANGED resetting
      BY <1>5, <2>1 DEF Sound
    <3> QED BY <1>1, <1>3, <1>8, <3>1, <3>2, ResetStaysApart
  <2>5. \A u \in Tasks : u # t => \A k, e : Resets(u, k, e)' <=> Resets(u, k, e)
    BY <1>8, OthersStay
  <2>6. gen[d] = epoch[d] + 1
    BY <1>9, <2>1 DEF Sound, InStep
  <2>7. InStep'
    <3>1. 2 # 2 + 1
      OBVIOUS
    <3>2. ~\E u \in Tasks : Resets(u, 2, d)'
      <4>1. \A u \in Tasks : Resets(u, 2, d) => u = t
        BY <1>1, <1>9, <2>1 DEF Sound, ResetsApart
      <4> QED BY <1>1, <1>3, <2>5, <3>1, <4>1
    <3>3. gen'[d] = epoch'[d]
      BY <1>5, <2>3, <2>6
    <3>4. \A e \in Devices : e # d => /\ epoch'[e] = epoch[e]
                                      /\ \A u \in Tasks : Resets(u, 2, e)' <=> Resets(u, 2, e)
      <4>1. \A e \in Devices : e # d => ~Resets(t, 2, e)' /\ ~Resets(t, 2, e)
        BY <1>1, <1>3
      <4> QED BY <2>3, <2>5, <4>1
    <3> QED BY <1>5, <2>1, <3>2, <3>3, <3>4 DEF Sound, InStep
  <2>8. WaitsAreOwn'
    <3>1. gen[d] # epoch[d]
      BY <2>6 DEF Typed
    <3>2. \A e \in Devices : \/ gen'[e] = gen[e] /\ epoch'[e] = epoch[e]
                             \/ gen'[e] = gen[e] /\ epoch[e] # gen[e]
      BY <1>5, <2>3, <3>1
    <3> QED BY <1>3, <1>8, <2>1, <3>2, WaitsStay DEF Sound
  <2> QED BY <2>4, <2>7, <2>8 DEF Sound
<1> QED BY <1>5, <1>7, <1>8, <1>10

LEMMA KeepDoes ==
  ASSUME Stacked, Typed, state = "ready" => Sound, unreal = FALSE, Hooked, NEW t \in Tasks,
         At(t, "endkeep"), Go(t, 1), EndKeep(t)
  PROVE  /\ Moved(t) /\ Typed' /\ UNCHANGED unreal
         /\ state' = "ready" => Sound'
<1>1. "endkeep" \notin Pushing \cup Popping /\ 3 \in 1..4 /\ 3 \in 1..3
  BY DEF Pushing, Popping
<1>2. InReset(t, place[t], 3)
  BY Here, ProgramAssumption DEF ProgramsShaped
<1>3. PICK d \in Devices :
        /\ \A l \in 1..4 : \A e : Resets(t, l, e) <=> l = 3 /\ e = d
        /\ \A l \in 1..4 : \A e : Resets(t, l, e)' <=> l = 3 + 1 /\ e = d
        /\ \A l \in 1..3 : ~InTimed(t, place'[t], l)
  BY <1>1, <1>2, ResetGoesOn
<1>4. UNCHANGED <<gen, epoch, resetting>> /\ UNCHANGED stack /\ UNCHANGED unreal
  <2>1. UNCHANGED unreal
    BY ExitedReal DEF EndKeep
  <2> QED BY <2>1 DEF EndKeep, completions
<1>5. Typed'
  BY <1>4 DEF Typed
<1>6. Moved(t) /\ Top(t)' = Top(t)
  BY <1>1, <1>4, MovedSame DEF Top
<1>7. Resets(t, 3, d)
  BY <1>1, <1>3
<1>8. ASSUME state' = "ready"
      PROVE  Sound'
  <2>1. state = "ready" /\ Sound
    BY <1>8, ReadyBefore
  <2>2. Top(t).owner /\ Top(t).dev = d
    BY <1>1, <1>7, <2>1 DEF Sound, ResetsApart
  <2>3. ResetsApart'
    BY <1>1, <1>3, <1>4, <1>6, <2>1, <2>2, ResetStaysApart DEF Sound
  <2>4. InStep'
    <3>1. 2 # 3 /\ 2 # 3 + 1 /\ 2 \in 1..4
      OBVIOUS
    <3>2. \A u \in Tasks : \A e : Resets(u, 2, e)' <=> Resets(u, 2, e)
      BY <1>3, <1>6, <3>1, OthersStay
    <3> QED BY <1>4, <2>1, <3>2 DEF Sound, InStep
  <2>5. WaitsAreOwn'
    BY <1>3, <1>4, <1>6, <2>1, WaitsStay DEF Sound
  <2> QED BY <2>3, <2>4, <2>5 DEF Sound
<1> QED BY <1>4, <1>5, <1>6, <1>8

LEMMA DisownDoes ==
  ASSUME Stacked, Typed, state = "ready" => Sound, Hooked, NEW t \in Tasks,
         At(t, "release"), Go(t, 1), Disown(t)
  PROVE  /\ Moved(t) /\ Typed' /\ UNCHANGED unreal
         /\ state' = "ready" => Sound'
<1>1. "release" \in Popping /\ 4 \in 1..4
  BY DEF Popping
<1>2. InReset(t, place[t], 4)
  BY Here, ProgramAssumption DEF ProgramsShaped
<1>3. PICK d \in Devices :
        /\ \A l \in 1..4 : \A e : Resets(t, l, e) <=> l = 4 /\ e = d
        /\ \A l \in 1..4 : \A e : Resets(t, l, e)' <=> l = 4 + 1 /\ e = d
        /\ \A l \in 1..3 : ~InTimed(t, place'[t], l)
  BY <1>1, <1>2, ResetGoesOn
<1>4. PICK D : D = Top(t).dev
  OBVIOUS
<1>5. /\ UNCHANGED <<gen, epoch, unreal>> /\ Pop(t)
      /\ resetting' = [resetting EXCEPT ![D] = @ /\ ~Top(t).owner]
  BY <1>4 DEF Disown, completions, hindsight
<1>6. resetting' \in [Devices -> BOOLEAN]
  BY <1>5 DEF Typed
<1>7. Typed'
  BY <1>5, <1>6 DEF Typed
<1>8. Moved(t)
  BY <1>1, <1>5, MovedPop
<1>9. Resets(t, 4, d)
  BY <1>1, <1>3
<1>10. ASSUME state' = "ready"
       PROVE  Sound'
  <2>1. state = "ready" /\ Sound
    BY <1>10, ReadyBefore
  <2>2. Top(t).owner /\ D = d
    BY <1>1, <1>4, <1>9, <2>1 DEF Sound, ResetsApart
  <2>3. \A e \in Devices : e # d => resetting'[e] = resetting[e]
    BY <1>5, <2>2 DEF Typed
  <2>4. \A u \in Tasks : u # t =>
          /\ Top(u)' = Top(u)
          /\ \A k, e : Resets(u, k, e)' <=> Resets(u, k, e)
    BY <1>8, OthersStay
  <2>5. \A l \in 1..4 : l # 4 + 1 /\ \A e : ~Resets(t, l, e)'
    BY <1>3
  <2>6. ResetsApart'
    <3>1. ASSUME NEW u \in Tasks, NEW e \in Devices, NEW j \in 1..4, Resets(u, j, e)'
          PROVE  /\ Top(u)'.owner /\ Top(u)'.dev = e /\ resetting'[e]
                 /\ \A v \in Tasks : \A l \in 1..4 : Resets(v, l, e)' => v = u
      <4>1. u # t
        BY <2>5, <3>1
      <4>2. Resets(u, j, e)
        BY <2>4, <3>1, <4>1
      <4>3. /\ Top(u).owner /\ Top(u).dev = e /\ resetting[e]
            /\ \A v \in Tasks : \A l \in 1..4 : Resets(v, l, e) => v = u
        BY <2>1, <4>2 DEF Sound, ResetsApart
      <4>4. e # d
        BY <1>1, <1>9, <4>1, <4>3
      <4> QED BY <2>3, <2>4, <2>5, <4>1, <4>3, <4>4
    <3> QED BY <3>1 DEF ResetsApart
  <2>7. InStep'
    <3>1. 2 # 4 /\ 2 \in 1..4
      OBVIOUS
    <3>2. \A u \in Tasks : \A e : Resets(u, 2, e)' <=> Resets(u, 2, e)
      BY <1>3, <2>4, <2>5, <3>1
    <3> QED BY <1>5, <2>1, <3>2 DEF Sound, InStep
  <2>8. WaitsAreOwn'
    BY <1>3, <1>5, <1>8, <2>1, WaitsStay DEF Sound
  <2> QED BY <2>6, <2>7, <2>8 DEF Sound
<1> QED BY <1>5, <1>7, <1>8, <1>10

(***************************************************************************)
(* A step of a task, and the steps of the others.                          *)
(***************************************************************************)
LEMMA OnlyOnceLoaded ==
  ASSUME Stacked, Unstarted, NEW t \in Tasks, Task(t)
  PROVE  cpc = "done"
<1>1. SUFFICES ASSUME cpc # "done" PROVE FALSE
  OBVIOUS
<1>2. place[t] = 1 /\ t \notin work
  BY <1>1 DEF Unstarted
<1>3. PICK do : At(t, do) /\ (do = "go" => cpc = "done") /\ (do = "start" => t \in work)
  <2>1. CASE Started(t)
    BY <2>1 DEF Started
  <2>2. CASE Hooks(t)
    <3>1. \E do \in {"begin", "enter", "end", "endkeep", "stage", "own", "renew", "reinit",
                     "release", "await", "complete", "queue", "ordinary", "plain", "decision"} :
            At(t, do)
      BY <2>2, Zenon DEF Hooks
    <3> QED BY <3>1
  <2>3. CASE Answer(t) \/ Proceed(t) \/ Schedule(t)
    BY <2>3 DEF Answer, Proceed, Schedule
  <2>4. CASE Jumps(t)
    BY <2>4 DEF Jumps
  <2> QED BY <2>1, <2>2, <2>3, <2>4 DEF Task
<1>4. 1 \in DOMAIN Program[t] /\ Program[t][1].do = do
  BY <1>2, <1>3, Here
<1>5. Program[t] # <<>>
  BY <1>4
<1>6. do \in {"go", "start"}
  BY <1>4, <1>5, ProgramAssumption DEF ProgramsShaped
<1> QED BY <1>1, <1>2, <1>3, <1>6

LEMMA PlainDoes ==
  ASSUME Stacked, Typed, state = "ready" => Sound, Hooked, NEW t \in Tasks, Plain(t)
  PROVE  /\ Moved(t) /\ Typed' /\ UNCHANGED unreal
         /\ state' = "ready" => Sound'
<1>1. Moved(t) /\ UNCHANGED <<gen, epoch, resetting, unreal>>
  BY DEF Plain, Counts
<1>2. state' = "ready" => Sound'
  BY ReadyBefore, PlainStays
<1> QED BY <1>1, <1>2 DEF Typed

LEMMA TaskDoes ==
  ASSUME Stacked, Typed, state = "ready" => Sound, unreal = FALSE, NEW t \in Tasks, Task(t)
  PROVE  /\ Moved(t) /\ Typed' /\ UNCHANGED unreal
         /\ state' = "ready" => Sound'
<1>1. Hooked
  BY TaskHooked
<1>2. CASE Plain(t)
  BY <1>1, <1>2, PlainDoes
<1>3. CASE Started(t) \/ Schedule(t)
  <2>1. Quiet /\ Go(t, 1) /\ (At(t, "go") \/ At(t, "schedule"))
    BY <1>3 DEF Started, Schedule
  <2> QED BY <1>2, <2>1, QuietPlain
<1>4. CASE Jumps(t)
  <2>1. Quiet
    BY <1>4 DEF Jumps
  <2>2. CASE Go(t, 1) /\ (At(t, "start") \/ At(t, "idle") \/ At(t, "sync") \/ At(t, "maybe"))
    BY <1>2, <2>1, <2>2, QuietPlain
  <2>3. CASE Go(t, 1 + Dev(t)) /\ (At(t, "maybe") \/ At(t, "goto"))
    BY <1>2, <2>1, <2>3, LeapPlain
  <2> QED BY <1>4, <2>2, <2>3 DEF Jumps
<1>5. CASE Answer(t)
  BY <1>2, <1>5, EndPlain DEF Answer
<1>6. CASE Proceed(t)
  BY <1>2, <1>6, ProceedPlain
<1>7. CASE Hooks(t)
  <2>1. Go(t, 1)
    BY <1>7 DEF Hooks
  <2>2. CASE At(t, "begin") /\ Begin(t, Op(t), Dev(t), PhaseOf(t), Call(t))
    BY <1>2, <2>1, <2>2, BeginPlain
  <2>3. CASE At(t, "enter") /\ (Entered(t) \/ EnterMidReset(t) \/ (~Top(t).live /\ Quiet))
    BY <1>1, <1>2, <2>1, <2>3, EnterPlain
  <2>4. CASE At(t, "end") /\ End(t)
    BY <1>2, <2>1, <2>4, EndPlain
  <2>5. CASE At(t, "endkeep") /\ EndKeep(t)
    BY <1>1, <2>1, <2>5, KeepDoes
  <2>6. CASE At(t, "stage") /\ StageBegin(t, Call(t))
    <3>1. Moved(t) /\ UNCHANGED <<Counts, unreal>>
      BY <2>1, <2>6, StageDoes
    <3> QED BY <1>2, <2>1, <2>6, <3>1, PlainHook
  <2>7. CASE At(t, "own") /\ Own(t, Dev(t))
    BY <2>1, <2>7, OwnDoes
  <2>8. CASE At(t, "renew") /\ Renew(t, Call(t))
    BY <1>1, <2>1, <2>8, RenewDoes
  <2>9. CASE At(t, "reinit") /\ Reinit(t)
    BY <1>1, <2>1, <2>9, ReinitDoes
  <2>10. CASE At(t, "release") /\ Disown(t)
    BY <1>1, <2>1, <2>10, DisownDoes
  <2>11. CASE At(t, "await") /\ Await(t, Dev(t))
    BY <1>1, <1>2, <2>1, <2>11, AwaitPlain
  <2>12. CASE At(t, "complete") /\ Complete(t)
    BY <1>1, <1>2, <2>1, <2>12, AwaitPlain
  <2>13. CASE \/ At(t, "queue") /\ Queue(t)
              \/ At(t, "ordinary") /\ SetOrdinary(Op(t) = "resume")
              \/ At(t, "plain") /\ SetOrdinary(FALSE)
              \/ At(t, "decision") /\ AuxDecision(t, Dev(t) \in Async)
    <3>1. PICK on : on = (Op(t) = "resume")
      OBVIOUS
    <3>2. PICK q : q = (Dev(t) \in Async)
      OBVIOUS
    <3> QED BY <1>2, <2>1, <2>13, <3>1, <3>2, QuietPlain
  <2> QED BY <1>7, <2>2, <2>3, <2>4, <2>5, <2>6, <2>7, <2>8, <2>9, <2>10, <2>11, <2>12, <2>13
          DEF Hooks
<1> QED BY <1>3, <1>4, <1>5, <1>6, <1>7 DEF Task

LEMMA RealInit == FlowInit => RealInv
<1> SUFFICES ASSUME FlowInit PROVE RealInv
  OBVIOUS
<1>1. /\ gen = [d \in Devices |-> 1] /\ epoch = [d \in Devices |-> 1]
      /\ resetting = [d \in Devices |-> FALSE] /\ unreal = FALSE /\ state = "off"
      /\ stack = [t \in Tasks |-> <<>>] /\ place = [t \in Tasks |-> 1] /\ work = {}
  BY DEF FlowInit, EmitterInit
<1>2. ASSUME NEW t \in Tasks
      PROVE  Fits(t, 1, <<>>)
  <2>1. Len(Program[t]) \in Nat
    BY ProgramAssumption DEF ProgramsShaped
  <2>2. Open(t, 1) = 0
    BY OpenFirst
  <2>3. \A k \in 1..3 : ~InTimed(t, 1, k)
    BY DEF InTimed, Before
  <2> QED BY <2>1, <2>2, <2>3 DEF Fits
<1>3. Stacked
  <2>1. <<>> \in Seq(Tokens)
    OBVIOUS
  <2> QED BY <1>1, <1>2, <2>1 DEF Stacked
<1>4. Unstarted
  BY <1>1 DEF Unstarted
<1> QED BY <1>1, <1>3, <1>4 DEF RealInv

\* Before the cycle begins no task is in a piece of its program.
LEMMA UnstartedIsSound ==
  ASSUME Stacked, Unstarted, cpc # "done"
  PROVE  Sound
<1>1. /\ \A t \in Tasks : place[t] = 1 /\ \A d \in Devices : gen[d] = epoch[d]
  BY DEF Unstarted
<1>2. \A t \in Tasks, k \in 1..4 : ~InReset(t, 1, k) /\ ~InTimed(t, 1, k)
  BY DEF InReset, InTimed, Before
<1>3. ResetsApart
  BY <1>1, <1>2 DEF ResetsApart, Resets
<1>4. InStep
  <2>1. ASSUME NEW d \in Devices, NEW t \in Tasks
        PROVE  ~Resets(t, 2, d)
    BY <1>1, <1>2 DEF Resets
  <2>2. \A d \in Devices : gen[d] = epoch[d]
    BY DEF Unstarted
  <2> QED BY <2>1, <2>2 DEF InStep
<1>5. WaitsAreOwn
  <2>1. \A k \in 1..3 : k \in 1..4
    OBVIOUS
  <2> QED BY <1>1, <1>2, <2>1 DEF WaitsAreOwn
<1> QED BY <1>3, <1>4, <1>5 DEF Sound

LEMMA RealKeeps ==
  ASSUME RealInv, UNCHANGED <<gen, epoch, resetting, unreal>>, UNCHANGED <<stack, place, work>>,
         cpc' # "done" => cpc # "done",
         state' = "ready" => state = "ready" \/ cpc # "done"
  PROVE  RealInv'
<1>1. Typed' /\ Stacked' /\ Unstarted' /\ unreal' = FALSE
  BY DEF RealInv, Typed, Stacked, Unstarted
<1>2. state' = "ready" => Sound
  BY UnstartedIsSound DEF RealInv, Sound
<1>3. Sound => Sound'
  BY DEF Sound, ResetsApart, InStep, WaitsAreOwn, Resets, NotedIsOwn, Top
<1> QED BY <1>1, <1>2, <1>3 DEF RealInv, Typed, Sound

LEMMA KernelKeepsReal ==
  ASSUME RealInv, Kernel
  PROVE  RealInv'
<1>1. UNCHANGED <<place, work>>
  BY DEF Kernel, flow
<1>2. CASE Census
  <2>1. UNCHANGED <<gen, epoch, resetting, unreal>> /\ UNCHANGED stack
    BY <1>2 DEF Census, completions
  <2>2. cpc # "done"
    BY <1>2 DEF Census, EnterCensus, WalkLists, CopyLabels, CopyNotifiers, RejectCensus,
                AcceptCensus, Surveyed
  <2> QED BY <1>1, <2>1, <2>2, RealKeeps
<1>3. CASE Mutate
  <2>1. UNCHANGED <<gen, epoch, resetting, unreal>> /\ UNCHANGED stack /\ UNCHANGED cpc
    BY <1>3 DEF Mutate, completions
  <2>2. state' = state \/ state' = Invalidated
    BY <1>3 DEF Mutate, Hook, Alter, LockedChange
  <2> QED BY <1>1, <2>1, <2>2, RealKeeps DEF Invalidated
<1>4. CASE Dictionary
  <2>1. UNCHANGED <<gen, epoch, resetting, unreal>> /\ UNCHANGED stack
    BY <1>4 DEF Dictionary, completions
  <2>2. UNCHANGED cpc /\ (state' = state \/ state' = Invalidated)
    BY <1>4, DictionaryHooked
  <2> QED BY <1>1, <2>1, <2>2, RealKeeps DEF Invalidated
<1> QED BY <1>2, <1>3, <1>4 DEF Kernel

LEMMA OperatorKeepsReal ==
  ASSUME RealInv, Operator
  PROVE  RealInv'
<1>1. UNCHANGED <<gen, epoch, resetting, unreal>> /\ UNCHANGED <<stack, place, work>>
  BY DEF Operator, Switch, Stop, emitter, completions, hindsight, flow
<1>2. UNCHANGED cpc /\ (state' = state \/ state' = "invalid")
  BY OperatorDoes
<1> QED BY <1>1, <1>2, RealKeeps

LEMMA TaskKeepsReal ==
  ASSUME RealInv, NEW t \in Tasks, Task(t)
  PROVE  RealInv'
<1>1. /\ Stacked /\ Typed /\ Unstarted /\ unreal = FALSE
      /\ state = "ready" => Sound
  BY DEF RealInv, Typed, Sound
<1>2. Moved(t) /\ Typed' /\ UNCHANGED unreal /\ (state' = "ready" => Sound')
  BY <1>1, TaskDoes
<1>3. Stacked'
  BY <1>1, <1>2, MovedStays
<1>4. Unstarted'
  <2>1. cpc = "done"
    BY <1>1, OnlyOnceLoaded
  <2>2. UNCHANGED cpc
    BY TaskHooked DEF Hooked
  <2> QED BY <2>1, <2>2 DEF Unstarted
<1> QED BY <1>1, <1>2, <1>3, <1>4 DEF RealInv, Typed, Sound

LEMMA RealStep == RealInv /\ [FlowNext]_flowVars => RealInv'
<1> SUFFICES ASSUME RealInv, [FlowNext]_flowVars PROVE RealInv'
  OBVIOUS
<1>1. CASE UNCHANGED flowVars
  <2>1. /\ UNCHANGED <<gen, epoch, resetting, unreal>> /\ UNCHANGED <<stack, place, work>>
        /\ UNCHANGED <<cpc, state>>
    BY <1>1 DEF flowVars, emitter, census, completions, hindsight, flow
  <2> QED BY <2>1, RealKeeps
<1> QED BY <1>1, KernelKeepsReal, OperatorKeepsReal, TaskKeepsReal DEF FlowNext

(***************************************************************************)
(* Every wait and completion of a capture that is called paired is of the  *)
(* generation it names, in any interleaving of tasks, resets and changes   *)
(* (r5_reinit, r5_complete, r5_begin, and r5_end after the wait): for any  *)
(* devices, tasks and bounds whose programs ProgramAssumption describes.   *)
(***************************************************************************)
THEOREM PairedWaitsAreReal == FlowSpec => []PairedIsReal
<1>1. FlowInit => RealInv
  BY RealInit
<1>2. RealInv /\ [FlowNext]_flowVars => RealInv'
  BY RealStep
<1>3. RealInv => PairedIsReal
  BY DEF RealInv, PairedIsReal
<1> QED BY <1>1, <1>2, <1>3, PTL DEF FlowSpec

=============================================================================
