-------------------------- MODULE TraceStreamProofs --------------------------
(***************************************************************************)
(* Proofs about TraceStream, for any number of CPUs, ring size, budgets,   *)
(* sessions, and whatever is lost, repeated or swapped on the way: that a  *)
(* capture which check_stream calls complete holds every record, that what *)
(* the receiver has announced stays, and that an upload that was           *)
(* acknowledged is kept.                                                   *)
(***************************************************************************)
EXTENDS TraceStream, FiniteSetTheorems, SequenceTheorems, WellFoundedInduction, TLAPS

(***************************************************************************)
(* What makes UploadIsKept inductive: how far save_upload has come on      *)
(* the disk.  While one attempt is under way nothing was answered 200, and *)
(* after the answer the directory is there for good and no attempt begins. *)
(***************************************************************************)
UploadInv(length) ==
  /\ upc \in {"idle", "down", "root", "open", "recv", "judge", "receipt", "entry"}
  /\ disk \in [dir : BOOLEAN, capture : Nat \cup {Absent},
               receipt : {"none", "torn", "match", "failed"}]
  /\ durable \in Entries /\ posts \in Nat /\ synced \in Nat
  /\ posts > 0 => size = length
  /\ upc \notin {"idle", "down"} => posts > 0 /\ disk.dir /\ "200" \notin told
  /\ upc \notin {"idle", "down", "root"} => durable.dir
  /\ upc \in {"recv", "judge", "receipt", "entry"} => disk.capture # Absent
  /\ upc \in {"judge", "receipt", "entry"} => synced = disk.capture
  /\ upc = "entry" /\ disk.receipt = "match" => disk.capture = size
  /\ "200" \in told =>
       /\ posts > 0 /\ disk = [dir |-> TRUE, capture |-> size, receipt |-> "match"]
       /\ synced = size /\ durable.dir /\ durable.capture /\ durable.receipt

(***************************************************************************)
(* What makes CompleteMeansAll inductive.  A packet's number is its place  *)
(* in what was sent (Numbered), where every packet that is under way or in *)
(* a capture comes from (Held).  Per CPU, as long as no record was dropped *)
(* or too long, what was sent and what is in the ring are all that was     *)
(* produced (Conserved); a record is dropped when the ring is full, so     *)
(* that after empty statistics without losses a drop leaves the ring with  *)
(* something in it until a later record is sent (DropsShow).  So an END    *)
(* that says nothing is left ends a stream that holds everything           *)
(* (Accounted).                                                            *)
(***************************************************************************)
Up == mod \notin {"gone", "down"}
Current == sent[session]
IsSent(p) == p.seq + 1 \in DOMAIN sent[p.session] /\ sent[p.session][p.seq + 1] = p

Shapes ==
  /\ session \in Ids
  /\ mod \in {"unloaded", "live", "stopping", "final", "count", "end", "gone", "down"}
  /\ wpc \in {"off", "queued", "run", "stats"}
  /\ wpc # "off" => mod \in {"live", "stopping"}
  /\ ring \in [Cpus -> Seq([id : Nat, big : BOOLEAN])]
  /\ \A c \in Cpus : Len(ring[c]) <= Slots
  /\ dropped \in [Cpus -> Nat] /\ made \in [Cpus -> Nat]
  /\ work \in [n : Nat, quota : Nat, empty : Nat, cpu : Cpus, cursor : Cpus, stat : Cpus]
  /\ out \in [seq : Nat, oversized : BOOLEAN, error : BOOLEAN, remaining : Nat, ticks : Nat]
  /\ sent \in [Ids -> Seq(Packet)] /\ net \in Seq(Packet) /\ file \in [Ids -> Seq(Packet)]
  /\ truth \in [Ids -> [Cpus -> Nat]]

Numbered ==
  /\ \A s \in Ids : \A i \in DOMAIN sent[s] :
       /\ sent[s][i].seq = i - 1 /\ sent[s][i].session = s
       /\ sent[s][i].kind = "end" => i = Len(sent[s]) /\ ~(s = session /\ Up)
  /\ \A s \in Ids : s > session => sent[s] = <<>>
  /\ mod = "unloaded" => Current = <<>>
  /\ Up => out.seq = Len(Current)

Held ==
  /\ \A i \in DOMAIN net : IsSent(net[i])
  /\ \A s \in Ids : \A i \in DOMAIN file[s] : file[s][i].session = s /\ IsSent(file[s][i])

Conserved ==
  Up /\ ~out.oversized => \A c \in Cpus : dropped[c] = 0 =>
    /\ Len(ring[c]) <= made[c]
    /\ Exactly(Current, c, made[c] - Len(ring[c]))
    /\ \A i \in DOMAIN ring[c] : ring[c][i].id = made[c] - Len(ring[c]) + i

\* The last of the statistics says that nothing was lost and nothing waits.
Quieted(f, c) ==
  \E i \in Of(f, "stats", c) :
    f[i].a = 0 /\ f[i].b = 0 /\ \A j \in Of(f, "event", c) : j <= i

DropsShow ==
  Up /\ ~out.oversized => \A c \in Cpus :
    Quieted(Current, c) => dropped[c] = 0 \/ ring[c] # <<>>

Delivered(s) == \A c \in Cpus : Quieted(sent[s], c) => Exactly(sent[s], c, truth[s][c])

Accounted ==
  /\ mod = "end" /\ out.remaining = 0 /\ ~out.oversized => Delivered(session)
  /\ \A s \in Ids : \A i \in DOMAIN sent[s] :
       sent[s][i].kind = "end" /\ sent[s][i].a = 0 /\ ~sent[s][i].loss => Delivered(s)

StreamInv == Shapes /\ Numbered /\ Held /\ Conserved /\ DropsShow /\ Accounted

(***************************************************************************)
(* What makes CleanIsComplete inductive.  While nothing went wrong, every  *)
(* condition of the profile holds, and the rings stay empty from rmmod on, *)
(* so that the final statistics settle one CPU after the other (Tidy);     *)
(* what is sent is what check_stream asks for (Spotless); and the packets  *)
(* under way continue the capture, in order (Carried).                     *)
(***************************************************************************)
Tidy ==
  /\ wpc # "stats" /\ mod # "final" => work.stat = 0
  /\ clean[session] /\ Up =>
       /\ owned /\ semantic /\ ~out.oversized /\ ~out.error
       /\ \A c \in Cpus : dropped[c] = 0 /\ \A i \in DOMAIN ring[c] : ~ring[c][i].big
       /\ mod \notin {"unloaded", "live"} => ~enabled /\ \A c \in Cpus : ring[c] = <<>>
       /\ mod # "unloaded" => Current # <<>>
       /\ mod = "final" => \A c \in Cpus : c < work.stat => SettledOn(Current, c)
       /\ mod \in {"count", "end"} => Settled(Current)
       /\ mod = "end" => out.remaining = 0

Fine(f) ==
  \A i \in DOMAIN f :
    /\ f[i].kind = "begin" <=> i = 1
    /\ ~f[i].loss /\ (f[i].kind = "stats" => f[i].a = 0)
    /\ f[i].kind = "end" => f[i].a = 0 /\ f[i].b = 0 /\ Settled(f)

Spotless == \A s \in Ids : clean[s] => Fine(sent[s])

Under(s) == {i \in DOMAIN net : net[i].session = s}
Continues(s) ==
  /\ \A i \in DOMAIN file[s] : i \in DOMAIN sent[s] /\ file[s][i] = sent[s][i]
  /\ {net[i].seq : i \in Under(s)} = Len(file[s])..(Len(sent[s]) - 1)
  /\ \A i, j \in Under(s) : i < j => net[i].seq < net[j].seq

Carried ==
  \A s \in Ids : clean[s] =>
    IF s \in finished THEN file[s] = sent[s] ELSE rpc = "recv" => Continues(s)

CleanInv == clean \in [Ids -> BOOLEAN] /\ Tidy /\ Spotless /\ Carried

\* The receiver: an announced session is not the one that is open.
ReceiverInv ==
  /\ file \in [Ids -> Seq(Packet)] /\ flushed \in [Ids -> Nat]
  /\ active \in Ids \cup {NoSession} /\ finished \subseteq Ids \ {active}
  /\ net \in Seq(Packet) /\ session \in Ids
  /\ AnnouncedIsDurable

\* The upload starts from a capture that does not change any more.
HandedOver ==
  /\ posts > 0 => rpc \in {"closed", "dead"}
  /\ UploadInv(Blocks(file[1]))

LEMMA Sizes ==
  /\ NCpus \in Nat \ {0} /\ Slots \in Nat \ {0} /\ Sessions \in Nat \ {0}
  /\ Burst \in Nat \ {0} /\ CpuBurst \in Nat \ {0} /\ Cpus \subseteq 0..NCpus
BY ExportAssumption DEF Cpus

\* A nonempty set of numbers has a least one.
LEMMA Least ==
  ASSUME NEW T, T \subseteq Nat, T # {}
  PROVE  \E x \in T : \A y \in T : x <= y
<1> DEFINE R == OpToRel(<, Nat)
<1>1. \A r \in Nat \X Nat : r \in R <=> r[1] < r[2]
  BY DEF OpToRel
<1>2. IsWellFoundedOn(R, Nat)
  BY NatLessThanWellFounded
<1> HIDE DEF R
<1>3. PICK x \in T : \A y \in T : ~(<<y, x>> \in R)
  BY <1>2, WFMin
<1>4. ASSUME NEW y \in T PROVE x <= y
  <2>1. <<y, x>> \in Nat \X Nat /\ <<y, x>>[1] = y /\ <<y, x>>[2] = x
    OBVIOUS
  <2>2. ~(y < x)
    BY <1>1, <1>3, <2>1
  <2> QED BY <2>2
<1> QED BY <1>4

(***************************************************************************)
(* Captures and streams as sequences.                                      *)
(***************************************************************************)
LEMMA PacketFields ==
  ASSUME NEW p \in Packet
  PROVE  /\ p.session \in Ids /\ p.seq \in Nat /\ p.cpu \in 0..NCpus
         /\ p.a \in Nat /\ p.b \in Nat /\ p.loss \in BOOLEAN
         /\ p.kind \in {"begin", "event", "stats", "end"}
BY DEF Packet, Ids

LEMMA AtEach ==
  ASSUME NEW f \in Seq(Packet)
  PROVE  /\ Len(f) \in Nat /\ DOMAIN f = 1..Len(f)
         /\ \A i \in DOMAIN f : f[i] \in Packet
OBVIOUS

\* Adjacent numbers that grow, up to the last place, are the places.
LEMMA NumbersArePlaces ==
  ASSUME NEW f \in Seq(Packet), f # <<>>, Last(f).seq + 1 = Len(f),
         \A i \in 2..Len(f) : f[i].seq > f[i - 1].seq
  PROVE  \A i \in DOMAIN f : f[i].seq = i - 1
<1>1. /\ Len(f) \in Nat \ {0} /\ DOMAIN f = 1..Len(f)
      /\ \A i \in DOMAIN f : f[i].seq \in Nat
      /\ f[Len(f)].seq = Len(f) - 1
  <2>1. Len(f) \in Nat /\ DOMAIN f = 1..Len(f) /\ \A i \in DOMAIN f : f[i].seq \in Nat
    BY AtEach, PacketFields
  <2>2. Len(f) # 0
    BY EmptySeq
  <2>3. f[Len(f)].seq = Len(f) - 1
    BY <2>1, <2>2 DEF Last
  <2> QED BY <2>1, <2>2, <2>3
<1>2. \A i \in DOMAIN f : f[i].seq >= i - 1
  <2> DEFINE T == {i \in DOMAIN f : f[i].seq < i - 1}
  <2>1. ASSUME T # {} PROVE FALSE
    <3>0. T \subseteq Nat
      BY <1>1
    <3> HIDE DEF T
    <3>1. PICK x \in T : \A y \in T : x <= y
      BY <2>1, <3>0, Least
    <3>2. x - 1 \notin T /\ x \in Nat
      BY <3>0, <3>1
    <3>3. x \in DOMAIN f /\ f[x].seq < x - 1
      BY <3>1 DEF T
    <3>4. x \in 2..Len(f) /\ x - 1 \in DOMAIN f
      BY <1>1, <3>2, <3>3
    <3>5. f[x - 1].seq >= x - 2
      BY <1>1, <3>2, <3>4 DEF T
    <3>6. f[x].seq > f[x - 1].seq
      BY <3>4
    <3> QED BY <1>1, <3>3, <3>4, <3>5, <3>6
  <2> QED BY <1>1, <2>1
<1>3. \A i \in DOMAIN f : f[i].seq <= i - 1
  <2> DEFINE T == {k \in Nat : k < Len(f) /\ f[Len(f) - k].seq > Len(f) - k - 1}
  <2>1. ASSUME T # {} PROVE FALSE
    <3>0. T \subseteq Nat
      OBVIOUS
    <3> HIDE DEF T
    <3>1. PICK x \in T : \A y \in T : x <= y
      BY <2>1, <3>0, Least
    <3>2. x \in Nat /\ x < Len(f) /\ f[Len(f) - x].seq > Len(f) - x - 1
      BY <3>1 DEF T
    <3>3. x # 0
      BY <1>1, <3>2
    <3>4. x - 1 \notin T /\ x - 1 \in Nat
      BY <3>0, <3>1, <3>3
    <3>l. Len(f) - x \in Nat
      BY <1>1, <3>2
    <3>5. PICK i \in Nat : i = Len(f) - x
      BY <3>l
    <3>6. i \in DOMAIN f /\ i + 1 \in 2..Len(f) /\ f[i].seq > i - 1
      BY <1>1, <3>2, <3>3, <3>5
    <3>7. f[i + 1].seq > f[i].seq
      BY <3>6
    <3>8. Len(f) - (x - 1) = i + 1 /\ x - 1 < Len(f) /\ Len(f) - (x - 1) - 1 = i
      BY <1>1, <3>2, <3>5
    <3>9. ~(f[i + 1].seq > i)
      BY <3>4, <3>8 DEF T
    <3>10. f[i].seq \in Nat /\ f[i + 1].seq \in Nat
      BY <1>1, <3>6
    <3> QED BY <3>6, <3>7, <3>9, <3>10
  <2>2. ASSUME NEW i \in DOMAIN f PROVE f[i].seq <= i - 1
    <3>1. Len(f) - i \in Nat /\ Len(f) - i < Len(f) /\ Len(f) - i \notin T
      BY <1>1, <2>1
    <3>2. Len(f) - (Len(f) - i) = i
      BY <1>1
    <3> QED BY <3>1, <3>2, <1>1
  <2> QED BY <2>2
<1> QED BY <1>1, <1>2, <1>3

\* What one more packet does to the packets of a kind and a CPU.
LEMMA OfAppend ==
  ASSUME NEW f \in Seq(Packet), NEW p \in Packet, NEW k, NEW c
  PROVE  /\ Of(f, k, c) \subseteq 1..Len(f)
         /\ \A i \in 1..Len(f) : Append(f, p)[i] = f[i]
         /\ Append(f, p)[Len(f) + 1] = p
         /\ p.kind = k /\ p.cpu = c =>
              Of(Append(f, p), k, c) = Of(f, k, c) \cup {Len(f) + 1}
         /\ ~(p.kind = k /\ p.cpu = c) => Of(Append(f, p), k, c) = Of(f, k, c)
<1> DEFINE g == Append(f, p)
<1>1. /\ Len(f) \in Nat /\ DOMAIN f = 1..Len(f) /\ DOMAIN g = 1..(Len(f) + 1)
      /\ \A i \in 1..Len(f) : g[i] = f[i]
      /\ g[Len(f) + 1] = p
  BY AppendProperties
<1> HIDE DEF g
<1> QED BY <1>1 DEF Of, g

LEMMA ExactlySame ==
  ASSUME NEW f \in Seq(Packet), NEW p \in Packet, NEW c, NEW n,
         ~(p.kind = "event" /\ p.cpu = c), Exactly(f, c, n)
  PROVE  Exactly(Append(f, p), c, n)
<1>1. /\ Of(f, "event", c) \subseteq 1..Len(f)
      /\ Of(Append(f, p), "event", c) = Of(f, "event", c)
      /\ \A i \in Of(f, "event", c) : Append(f, p)[i] = f[i]
  BY OfAppend
<1> QED BY <1>1 DEF Exactly

LEMMA ExactlyMore ==
  ASSUME NEW f \in Seq(Packet), NEW p \in Packet, NEW c, NEW n \in Nat,
         p.kind = "event", p.cpu = c, p.a = n + 1, Exactly(f, c, n)
  PROVE  Exactly(Append(f, p), c, n + 1)
<1> DEFINE g == Append(f, p)
           old == Of(f, "event", c)
           new == Of(g, "event", c)
<1>0. /\ Of(f, "event", c) \subseteq 1..Len(f) /\ \A i \in 1..Len(f) : Append(f, p)[i] = f[i]
      /\ Append(f, p)[Len(f) + 1] = p
      /\ Of(Append(f, p), "event", c) = Of(f, "event", c) \cup {Len(f) + 1}
  BY OfAppend
<1>1. /\ old \subseteq 1..Len(f) /\ new = old \cup {Len(f) + 1}
      /\ \A i \in old : g[i] = f[i]
      /\ g[Len(f) + 1].a = n + 1
  BY <1>0
<1>2. {f[i].a : i \in old} = 1..n /\ \A i, j \in old : i < j => f[i].a < f[j].a
  BY DEF Exactly
<1>3. Len(f) \in Nat
  OBVIOUS
<1> HIDE DEF g, old, new
<1>4. {g[i].a : i \in new} = 1..(n + 1)
  <2>1. \A i \in new : g[i].a \in 1..(n + 1)
    BY <1>1, <1>2
  <2>2. ASSUME NEW k \in 1..(n + 1) PROVE \E i \in new : g[i].a = k
    <3>1. CASE k = n + 1
      BY <3>1, <1>1
    <3>2. CASE k \in 1..n
      BY <3>2, <1>1, <1>2
    <3> QED BY <3>1, <3>2
  <2> QED BY <2>1, <2>2
<1>5. \A i, j \in new : i < j => g[i].a < g[j].a
  <2> SUFFICES ASSUME NEW i \in new, NEW j \in new, i < j PROVE g[i].a < g[j].a
    OBVIOUS
  <2>1. i \in old
    BY <1>1, <1>3
  <2>2. CASE j \in old
    BY <2>1, <2>2, <1>1, <1>2
  <2>3. CASE j = Len(f) + 1
    <3>1. f[i].a \in 1..n
      BY <2>1, <1>2
    <3> QED BY <3>1, <2>1, <2>3, <1>1
  <2> QED BY <1>1, <2>2, <2>3
<1> QED BY <1>4, <1>5 DEF Exactly, g, new

LEMMA QuietedAppend ==
  ASSUME NEW f \in Seq(Packet), NEW p \in Packet, NEW c, Quieted(Append(f, p), c)
  PROVE  /\ ~(p.kind = "event" /\ p.cpu = c)
         /\ \/ Quieted(f, c)
            \/ p.kind = "stats" /\ p.cpu = c /\ p.a = 0 /\ p.b = 0
<1> DEFINE g == Append(f, p)
<1>1. PICK i \in Of(g, "stats", c) :
        g[i].a = 0 /\ g[i].b = 0 /\ \A j \in Of(g, "event", c) : j <= i
  BY DEF Quieted
<1>e. /\ Of(f, "event", c) \subseteq 1..Len(f)
      /\ p.kind = "event" /\ p.cpu = c =>
           Of(g, "event", c) = Of(f, "event", c) \cup {Len(f) + 1}
      /\ ~(p.kind = "event" /\ p.cpu = c) => Of(g, "event", c) = Of(f, "event", c)
  BY OfAppend
<1>s. /\ Of(f, "stats", c) \subseteq 1..Len(f)
      /\ p.kind = "stats" /\ p.cpu = c =>
           Of(g, "stats", c) = Of(f, "stats", c) \cup {Len(f) + 1}
      /\ ~(p.kind = "stats" /\ p.cpu = c) => Of(g, "stats", c) = Of(f, "stats", c)
  <2>1. Of(f, "stats", c) \subseteq 1..Len(f)
    BY OfAppend
  <2>2. p.kind = "stats" /\ p.cpu = c =>
          Of(Append(f, p), "stats", c) = Of(f, "stats", c) \cup {Len(f) + 1}
    BY OfAppend
  <2>3. ~(p.kind = "stats" /\ p.cpu = c) => Of(Append(f, p), "stats", c) = Of(f, "stats", c)
    BY OfAppend
  <2> QED BY <2>1, <2>2, <2>3
<1>2. Len(f) \in Nat /\ g[Len(f) + 1] = p /\ \A j \in 1..Len(f) : g[j] = f[j]
  BY OfAppend
<1> HIDE DEF g
<1>3. ~(p.kind = "event" /\ p.cpu = c)
  BY <1>1, <1>2, <1>e, <1>s
<1>4. CASE i \in Of(f, "stats", c)
  BY <1>1, <1>2, <1>3, <1>4, <1>e, <1>s DEF Quieted
<1>5. CASE i \notin Of(f, "stats", c)
  BY <1>1, <1>2, <1>5, <1>s
<1> QED BY <1>3, <1>4, <1>5

(***************************************************************************)
(* A complete capture is the whole stream, which holds every record.       *)
(***************************************************************************)
LEMMA CompleteIsWhole ==
  ASSUME StreamInv, NEW s \in Ids, Complete(file[s])
  PROVE  file[s] = sent[s]
<1> DEFINE f == file[s]
           g == sent[s]
<1>1. f \in Seq(Packet) /\ g \in Seq(Packet) /\ f # <<>>
  BY DEF StreamInv, Shapes, Complete
<1>2. \A i \in 2..Len(f) : f[i].seq > f[i - 1].seq
  <2>1. \A i \in DOMAIN f : f[i].seq \in Nat
    BY <1>1, AtEach, PacketFields
  <2>2. DOMAIN f = 1..Len(f) /\ Len(f) \in Nat
    BY <1>1
  <2>3. ASSUME NEW i \in 2..Len(f) PROVE f[i].seq > f[i - 1].seq
    <3>1. i \in DOMAIN f /\ i - 1 \in DOMAIN f
      BY <2>2
    <3>2. ~(f[i].seq <= f[i - 1].seq)
      BY DEF Complete, Raises
    <3> QED BY <2>1, <3>1, <3>2
  <2> QED BY <2>3
<1>3. \A i \in DOMAIN f : f[i].seq = i - 1
  <2>1. Last(f).seq + 1 = Len(f)
    BY DEF Complete
  <2> QED BY <1>1, <1>2, <2>1, NumbersArePlaces
<1>4. \A i \in DOMAIN f : i \in DOMAIN g /\ f[i] = g[i]
  <2> SUFFICES ASSUME NEW i \in DOMAIN f PROVE i \in DOMAIN g /\ f[i] = g[i]
    OBVIOUS
  <2>1. f[i].session = s /\ IsSent(f[i])
    BY DEF StreamInv, Held
  <2>2. f[i].seq + 1 = i
    BY <1>1, <1>3
  <2> QED BY <2>1, <2>2 DEF IsSent
<1>5. Len(f) = Len(g)
  <2>1. Len(f) \in DOMAIN f
    BY <1>1
  <2>2. f[Len(f)].kind = "end"
    BY DEF Complete, Last
  <2>3. g[Len(f)].kind = "end" /\ Len(f) \in DOMAIN g
    BY <1>4, <2>1, <2>2
  <2> QED BY <2>3 DEF StreamInv, Numbered
<1> HIDE DEF f, g
<1>6. f = g
  BY <1>1, <1>4, <1>5, SeqEqual
<1> QED BY <1>6 DEF f, g

LEMMA InvIsEnough == StreamInv => CompleteMeansAll
<1> SUFFICES ASSUME StreamInv, NEW s \in Ids, Complete(file[s]), NEW c \in Cpus
             PROVE  Exactly(file[s], c, truth[s][c])
  BY DEF CompleteMeansAll
<1> DEFINE f == file[s]
<1>1. f = sent[s] /\ f \in Seq(Packet) /\ f # <<>>
  BY CompleteIsWhole DEF StreamInv, Shapes, Complete
<1>2. Len(f) \in DOMAIN f
  BY <1>1
<1>3. f[Len(f)].kind = "end" /\ f[Len(f)].a = 0 /\ ~f[Len(f)].loss
  BY <1>1, <1>2 DEF Complete, Last
<1>4. Delivered(s)
  BY <1>1, <1>2, <1>3 DEF StreamInv, Accounted
<1>5. Quieted(f, c)
  <2>1. PICK i \in Of(f, "stats", c) :
          f[i].b = 0 /\ \A j \in Of(f, "stats", c) \cup Of(f, "event", c) : j <= i
    BY DEF Complete, Settled, SettledOn
  <2>2. f[i].a = 0
    BY <2>1 DEF Complete, Of
  <2> QED BY <2>1, <2>2 DEF Quieted
<1> QED BY <1>1, <1>4, <1>5 DEF Delivered

(***************************************************************************)
(* What a packet that is sent does.                                        *)
(***************************************************************************)
LEMMA DatagramIsPacket ==
  ASSUME Shapes, NEW kind \in {"begin", "event", "stats", "end"}, NEW c \in 0..NCpus,
         NEW a \in Nat, NEW b \in Nat
  PROVE  /\ Datagram(kind, c, a, b) \in Packet
         /\ LET p == Datagram(kind, c, a, b)
            IN /\ p.session = session /\ p.kind = kind /\ p.seq = out.seq /\ p.cpu = c
               /\ p.a = a /\ p.b = b /\ p.loss = out.oversized
BY DEF Datagram, Packet, Shapes, Ids

LEMMA TransmitDoes ==
  ASSUME Shapes, NEW p \in Packet, Transmit(p)
  PROVE  /\ session \in Ids /\ Current \in Seq(Packet)
         /\ sent' \in [Ids -> Seq(Packet)] /\ net' \in Seq(Packet)
         /\ sent'[session] = Append(Current, p)
         /\ \A s \in Ids : s # session => sent'[s] = sent[s]
         /\ Len(net') = Len(net) + 1 /\ net'[Len(net) + 1] = p
         /\ \A i \in DOMAIN net : net'[i] = net[i]
         /\ DOMAIN net' = 1..(Len(net) + 1) /\ DOMAIN net = 1..Len(net) /\ Len(net) \in Nat
<1>1. session \in Ids /\ sent \in [Ids -> Seq(Packet)] /\ net \in Seq(Packet)
  BY DEF Shapes
<1>2. net' = Append(net, p) /\ sent' = [sent EXCEPT ![session] = Append(@, p)]
  BY DEF Transmit
<1>3. Append(Current, p) \in Seq(Packet) /\ Append(net, p) \in Seq(Packet)
  BY <1>1 DEF Current
<1>4. sent' \in [Ids -> Seq(Packet)] /\ sent'[session] = Append(Current, p)
      /\ \A s \in Ids : s # session => sent'[s] = sent[s]
  BY <1>1, <1>2, <1>3 DEF Current
<1>5. /\ Len(net') = Len(net) + 1 /\ net'[Len(net) + 1] = p
      /\ \A i \in DOMAIN net : net'[i] = net[i]
      /\ DOMAIN net' = 1..(Len(net) + 1) /\ DOMAIN net = 1..Len(net) /\ Len(net) \in Nat
  BY <1>1, <1>2, AppendProperties
<1> QED BY <1>1, <1>2, <1>3, <1>4, <1>5 DEF Current

\* What was sent stays in its place.
LEMMA TransmitHeld ==
  ASSUME Shapes, Held, NEW p \in Packet, Transmit(p), UNCHANGED file,
         p.session = session, p.seq = Len(Current)
  PROVE  Held'
<1>1. /\ session \in Ids /\ Current \in Seq(Packet)
      /\ sent'[session] = Append(Current, p)
      /\ \A s \in Ids : s # session => sent'[s] = sent[s]
  BY TransmitDoes
<1>2. /\ DOMAIN Append(Current, p) = 1..(Len(Current) + 1) /\ DOMAIN Current = 1..Len(Current)
      /\ Len(Current) \in Nat /\ Append(Current, p)[Len(Current) + 1] = p
      /\ \A i \in 1..Len(Current) : Append(Current, p)[i] = Current[i]
  BY <1>1, AppendProperties
<1>3. ASSUME NEW q \in Packet, IsSent(q)
      PROVE  q.seq + 1 \in DOMAIN sent'[q.session] /\ sent'[q.session][q.seq + 1] = q
  <2>1. q.session \in Ids
    BY PacketFields
  <2>2. CASE q.session = session
    <3>1. q.seq + 1 \in 1..Len(Current) /\ Current[q.seq + 1] = q
      BY <1>2, <1>3, <2>2 DEF IsSent, Current
    <3> QED BY <1>1, <1>2, <2>2, <3>1
  <2>3. CASE q.session # session
    BY <1>1, <1>3, <2>1, <2>3 DEF IsSent
  <2> QED BY <2>2, <2>3
<1>4. p.seq + 1 \in DOMAIN sent'[p.session] /\ sent'[p.session][p.seq + 1] = p
  BY <1>1, <1>2
<1>5. \A i \in DOMAIN net' : net'[i].seq + 1 \in DOMAIN sent'[net'[i].session]
                             /\ sent'[net'[i].session][net'[i].seq + 1] = net'[i]
  <2> SUFFICES ASSUME NEW i \in DOMAIN net'
               PROVE  net'[i].seq + 1 \in DOMAIN sent'[net'[i].session]
                      /\ sent'[net'[i].session][net'[i].seq + 1] = net'[i]
    OBVIOUS
  <2>1. CASE i \in DOMAIN net
    <3>1. net'[i] = net[i] /\ net[i] \in Packet
      BY <2>1, TransmitDoes, AtEach DEF Shapes
    <3>2. IsSent(net[i])
      BY <2>1 DEF Held
    <3> QED BY <3>1, <3>2, <1>3
  <2>2. CASE i \notin DOMAIN net
    <3>1. net'[i] = p
      BY <2>2, TransmitDoes
    <3> QED BY <3>1, <1>4
  <2> QED BY <2>1, <2>2
<1>6. ASSUME NEW s \in Ids, NEW i \in DOMAIN file[s]
      PROVE  file[s][i].session = s /\ file[s][i].seq + 1 \in DOMAIN sent'[file[s][i].session]
             /\ sent'[file[s][i].session][file[s][i].seq + 1] = file[s][i]
  <2>1. file[s] \in Seq(Packet)
    BY DEF Shapes
  <2>2. file[s][i] \in Packet
    BY <2>1, AtEach
  <2>3. file[s][i].session = s /\ IsSent(file[s][i])
    BY DEF Held
  <2> QED BY <2>2, <2>3, <1>3
<1> QED BY <1>5, <1>6 DEF Held, IsSent

\* A packet that does not end the stream.
LEMMA TransmitNumbered ==
  ASSUME Shapes, Numbered, NEW p \in Packet, Transmit(p), UNCHANGED session, Up, Up',
         p.session = session, p.seq = Len(Current), p.kind # "end",
         mod' # "unloaded", out'.seq = Len(Current) + 1
  PROVE  Numbered'
<1>1. /\ session \in Ids /\ Current \in Seq(Packet)
      /\ sent'[session] = Append(Current, p)
      /\ \A s \in Ids : s # session => sent'[s] = sent[s]
  BY TransmitDoes
<1>2. /\ DOMAIN Append(Current, p) = 1..(Len(Current) + 1) /\ DOMAIN Current = 1..Len(Current)
      /\ Len(Current) \in Nat /\ Append(Current, p)[Len(Current) + 1] = p
      /\ Len(Append(Current, p)) = Len(Current) + 1
      /\ \A i \in 1..Len(Current) : Append(Current, p)[i] = Current[i]
  BY <1>1, AppendProperties
<1>3. ASSUME NEW s \in Ids, NEW i \in DOMAIN sent'[s]
      PROVE  /\ sent'[s][i].seq = i - 1 /\ sent'[s][i].session = s
             /\ sent'[s][i].kind = "end" => i = Len(sent'[s]) /\ s # session
  <2>1. CASE s # session
    BY <1>1, <1>3, <2>1 DEF Numbered
  <2>2. CASE s = session /\ i \in DOMAIN Current
    BY <1>1, <1>2, <2>2 DEF Numbered, Current
  <2>3. CASE s = session /\ i \notin DOMAIN Current
    <3>1. i = Len(Current) + 1
      BY <1>1, <1>2, <2>3
    <3> QED BY <1>1, <1>2, <2>3, <3>1
  <2> QED BY <2>1, <2>2, <2>3
<1>4. \A s \in Ids : s > session => sent'[s] = <<>>
  BY <1>1, SMT DEF Numbered, Ids
<1> QED BY <1>1, <1>2, <1>3, <1>4 DEF Numbered, Current, Up

LEMMA TransmitAccounted ==
  ASSUME Shapes, Numbered, Accounted, NEW p \in Packet, Transmit(p), UNCHANGED <<session, truth>>,
         Up, p.kind # "end", mod' # "end"
  PROVE  Accounted'
<1>1. /\ session \in Ids /\ Current \in Seq(Packet)
      /\ sent'[session] = Append(Current, p)
      /\ \A s \in Ids : s # session => sent'[s] = sent[s]
  BY TransmitDoes
<1>2. /\ DOMAIN Append(Current, p) = 1..(Len(Current) + 1) /\ DOMAIN Current = 1..Len(Current)
      /\ Len(Current) \in Nat /\ Append(Current, p)[Len(Current) + 1] = p
      /\ \A i \in 1..Len(Current) : Append(Current, p)[i] = Current[i]
  BY <1>1, AppendProperties
<1>3. ASSUME NEW i \in DOMAIN sent'[session] PROVE sent'[session][i].kind # "end"
  <2>1. CASE i \in DOMAIN Current
    BY <1>1, <1>2, <2>1 DEF Numbered, Current
  <2>2. CASE i \notin DOMAIN Current
    <3>1. i = Len(Current) + 1
      BY <1>1, <1>2, <2>2
    <3> QED BY <1>1, <1>2, <3>1
  <2> QED BY <2>1, <2>2
<1>4. ASSUME NEW s \in Ids, NEW i \in DOMAIN sent'[s],
             sent'[s][i].kind = "end", sent'[s][i].a = 0, ~sent'[s][i].loss
      PROVE  Delivered(s)'
  <2>1. s # session /\ sent'[s] = sent[s]
    BY <1>1, <1>3, <1>4
  <2>2. Delivered(s)
    BY <1>4, <2>1 DEF Accounted
  <2> QED BY <2>1, <2>2 DEF Delivered
<1> QED BY <1>4 DEF Accounted

(***************************************************************************)
(* Steps that send nothing.                                                *)
(***************************************************************************)
LEMMA HeldSame ==
  ASSUME Held, UNCHANGED <<sent, net, file>>
  PROVE  Held'
BY DEF Held, IsSent

LEMMA FrameNumbered ==
  ASSUME Numbered, UNCHANGED <<session, sent>>,
         Up' => Up /\ out'.seq = out.seq, mod' = "unloaded" => mod = "unloaded"
  PROVE  Numbered'
BY DEF Numbered, Current

LEMMA FrameAccounted ==
  ASSUME Accounted, UNCHANGED <<session, sent, truth>>,
         mod' = "end" => /\ mod = "end" /\ out'.remaining = out.remaining
                         /\ out'.oversized = out.oversized
  PROVE  Accounted'
BY DEF Accounted, Delivered

\* Nothing moves in the rings either.
LEMMA Frame ==
  ASSUME StreamInv, UNCHANGED <<session, sent, truth, net, file, rings>>,
         Up' => Up /\ out'.seq = out.seq /\ (~out'.oversized => ~out.oversized),
         mod' = "unloaded" => mod = "unloaded",
         mod' = "end" => /\ mod = "end" /\ out'.remaining = out.remaining
                         /\ out'.oversized = out.oversized
  PROVE  Numbered' /\ Held' /\ Conserved' /\ DropsShow' /\ Accounted'
<1>1. Numbered' /\ Held' /\ Accounted'
  BY HeldSame, FrameNumbered, FrameAccounted DEF StreamInv
<1>2. Conserved' /\ DropsShow'
  BY DEF StreamInv, Conserved, DropsShow, rings, Current
<1> QED BY <1>1, <1>2

\* A record that is produced is in the ring, or the ring is full and it shows.
LEMMA RecordDoes ==
  ASSUME Shapes, NEW c \in Cpus, NEW big \in BOOLEAN, Record(c, big)
  PROVE  /\ ring' \in [Cpus -> Seq([id : Nat, big : BOOLEAN])]
         /\ \A d \in Cpus : Len(ring'[d]) <= Slots
         /\ dropped' \in [Cpus -> Nat] /\ made' \in [Cpus -> Nat]
         /\ made'[c] = made[c] + 1
         /\ \A d \in Cpus \ {c} : ring'[d] = ring[d] /\ made'[d] = made[d] /\ dropped'[d] = dropped[d]
         /\ \/ /\ dropped' = dropped
               /\ ring'[c] = Append(ring[c], [id |-> made[c] + 1, big |-> big])
            \/ dropped'[c] = dropped[c] + 1 /\ ring' = ring /\ ring[c] # <<>>
<1>1. /\ ring \in [Cpus -> Seq([id : Nat, big : BOOLEAN])]
      /\ \A d \in Cpus : Len(ring[d]) <= Slots
      /\ dropped \in [Cpus -> Nat] /\ made \in [Cpus -> Nat]
      /\ Slots \in Nat \ {0}
  BY Sizes DEF Shapes
<1>2. made' = [made EXCEPT ![c] = @ + 1]
  BY DEF Record
<1>3. made' \in [Cpus -> Nat] /\ made'[c] = made[c] + 1 /\ \A d \in Cpus \ {c} : made'[d] = made[d]
  BY <1>1, <1>2
<1>4. CASE Len(ring[c]) < Slots
  <2> DEFINE new == Append(ring[c], [id |-> made[c] + 1, big |-> big])
  <2>1. ring' = [ring EXCEPT ![c] = new] /\ dropped' = dropped
    BY <1>4 DEF Record
  <2>2. [id |-> made[c] + 1, big |-> big] \in [id : Nat, big : BOOLEAN]
    BY <1>1
  <2>3. new \in Seq([id : Nat, big : BOOLEAN]) /\ Len(new) = Len(ring[c]) + 1 /\ Len(ring[c]) \in Nat
    BY <1>1, <2>2, AppendProperties
  <2> HIDE DEF new
  <2>4. ring' \in [Cpus -> Seq([id : Nat, big : BOOLEAN])] /\ ring'[c] = new
        /\ \A d \in Cpus \ {c} : ring'[d] = ring[d]
    BY <1>1, <2>1, <2>3
  <2>5. ASSUME NEW d \in Cpus PROVE Len(ring'[d]) <= Slots
    <3>1. CASE d = c
      <4>1. Slots \in Nat
        BY Sizes
      <4> QED BY <1>4, <2>3, <2>4, <3>1, <4>1
    <3>2. CASE d # c
      BY <1>1, <2>4, <3>2
    <3> QED BY <3>1, <3>2
  <2> QED BY <1>1, <1>3, <2>1, <2>4, <2>5 DEF new
<1>5. CASE ~(Len(ring[c]) < Slots)
  <2>1. dropped' = [dropped EXCEPT ![c] = @ + 1] /\ ring' = ring
    BY <1>5 DEF Record
  <2>2. ring[c] # <<>>
    BY <1>1, <1>5
  <2> QED BY <1>1, <1>3, <2>1, <2>2
<1> QED BY <1>4, <1>5

LEMMA RecordKeeps ==
  ASSUME StreamInv, NEW c \in Cpus, NEW big \in BOOLEAN, Record(c, big),
         UNCHANGED <<session, mod, sent>>, out'.oversized = out.oversized
  PROVE  Conserved' /\ DropsShow'
<1>1. /\ ring \in [Cpus -> Seq([id : Nat, big : BOOLEAN])]
      /\ dropped \in [Cpus -> Nat] /\ made \in [Cpus -> Nat]
  BY DEF StreamInv, Shapes
<1>2. Current' = Current /\ (Up' <=> Up)
  BY DEF Current, Up
<1>3. ASSUME Up', ~out'.oversized, NEW d \in Cpus, dropped'[d] = 0
      PROVE  /\ Len(ring'[d]) <= made'[d]
             /\ Exactly(Current, d, made'[d] - Len(ring'[d]))
             /\ \A i \in DOMAIN ring'[d] : ring'[d][i].id = made'[d] - Len(ring'[d]) + i
  <2>1. CASE d # c
    <3>1. ring'[d] = ring[d] /\ made'[d] = made[d] /\ dropped'[d] = dropped[d]
      BY <2>1, RecordDoes DEF StreamInv
    <3> QED BY <1>2, <1>3, <3>1 DEF StreamInv, Conserved
  <2>2. CASE d = c
    <3>1. dropped' = dropped /\ ring'[c] = Append(ring[c], [id |-> made[c] + 1, big |-> big])
          /\ made'[c] = made[c] + 1
      BY <1>1, <1>3, <2>2, RecordDoes DEF StreamInv
    <3>2. /\ Len(ring[c]) <= made[c]
          /\ Exactly(Current, c, made[c] - Len(ring[c]))
          /\ \A i \in DOMAIN ring[c] : ring[c][i].id = made[c] - Len(ring[c]) + i
      BY <1>2, <1>3, <2>2, <3>1 DEF StreamInv, Conserved
    <3>3. /\ Len(ring'[c]) = Len(ring[c]) + 1 /\ Len(ring[c]) \in Nat
          /\ DOMAIN ring'[c] = 1..(Len(ring[c]) + 1) /\ DOMAIN ring[c] = 1..Len(ring[c])
          /\ ring'[c][Len(ring[c]) + 1].id = made[c] + 1
          /\ \A i \in 1..Len(ring[c]) : ring'[c][i] = ring[c][i]
      BY <1>1, <3>1, AppendProperties
    <3>m. made[c] \in Nat
      BY <1>1
    <3>4. made'[c] - Len(ring'[c]) = made[c] - Len(ring[c])
      BY <3>m, <3>1, <3>3
    <3>5. ASSUME NEW i \in DOMAIN ring'[c]
          PROVE  ring'[c][i].id = made[c] - Len(ring[c]) + i
      <4>1. CASE i \in 1..Len(ring[c])
        BY <3>2, <3>3, <4>1
      <4>2. CASE i = Len(ring[c]) + 1
        BY <1>1, <3>3, <4>2
      <4> QED BY <3>3, <4>1, <4>2
    <3>6. Len(ring'[c]) <= made'[c]
      BY <1>1, <3>1, <3>2, <3>3
    <3> QED BY <2>2, <3>2, <3>4, <3>5, <3>6
  <2> QED BY <2>1, <2>2
<1>4. ASSUME Up', ~out'.oversized, NEW d \in Cpus, Quieted(Current, d)
      PROVE  dropped'[d] = 0 \/ ring'[d] # <<>>
  <2>1. dropped[d] = 0 \/ ring[d] # <<>>
    BY <1>2, <1>4 DEF StreamInv, DropsShow
  <2>2. CASE d # c
    BY <2>1, <2>2, RecordDoes DEF StreamInv
  <2>3. CASE d = c
    <3>1. CASE ring'[c] = Append(ring[c], [id |-> made[c] + 1, big |-> big])
      <4>1. Len(ring'[c]) = Len(ring[c]) + 1 /\ Len(ring[c]) \in Nat
        BY <1>1, <3>1, AppendProperties
      <4>2. ring'[c] # <<>>
        BY <4>1
      <4> QED BY <2>3, <4>2
    <3> QED BY <2>3, <3>1, RecordDoes DEF StreamInv
  <2> QED BY <2>2, <2>3
<1> QED BY <1>2, <1>3, <1>4 DEF Conserved, DropsShow

LEMMA TransmitRings ==
  ASSUME StreamInv, NEW p \in Packet, Transmit(p), UNCHANGED <<session, rings>>,
         Up' => Up, out'.oversized = out.oversized, p.kind # "event",
         p.kind = "stats" => p.a = dropped[p.cpu]
  PROVE  Conserved' /\ DropsShow'
<1>1. Current \in Seq(Packet) /\ Current' = Append(Current, p)
  BY TransmitDoes DEF StreamInv, Current
<1>2. ring' = ring /\ dropped' = dropped /\ made' = made
  BY DEF rings
<1>3. Conserved'
  <2> SUFFICES ASSUME Up', ~out'.oversized, NEW c \in Cpus, dropped[c] = 0
               PROVE  /\ Len(ring[c]) <= made[c]
                      /\ Exactly(Append(Current, p), c, made[c] - Len(ring[c]))
                      /\ \A i \in DOMAIN ring[c] : ring[c][i].id = made[c] - Len(ring[c]) + i
    BY <1>1, <1>2 DEF Conserved
  <2>1. /\ Len(ring[c]) <= made[c]
        /\ Exactly(Current, c, made[c] - Len(ring[c]))
        /\ \A i \in DOMAIN ring[c] : ring[c][i].id = made[c] - Len(ring[c]) + i
    BY DEF StreamInv, Conserved
  <2> QED BY <1>1, <2>1, ExactlySame
<1>4. DropsShow'
  <2> SUFFICES ASSUME Up', ~out'.oversized, NEW c \in Cpus, Quieted(Append(Current, p), c)
               PROVE  dropped[c] = 0 \/ ring[c] # <<>>
    BY <1>1, <1>2 DEF DropsShow
  <2>1. Quieted(Current, c) \/ (p.kind = "stats" /\ p.cpu = c /\ p.a = 0)
    BY <1>1, QuietedAppend
  <2> QED BY <2>1 DEF StreamInv, DropsShow
<1> QED BY <1>3, <1>4

OutType == [seq : Nat, oversized : BOOLEAN, error : BOOLEAN, remaining : Nat, ticks : Nat]
WorkType == [n : Nat, quota : Nat, empty : Nat, cpu : Cpus, cursor : Cpus, stat : Cpus]

LEMMA SendDoes ==
  ASSUME Shapes, NEW kind \in {"begin", "event", "stats"}, NEW c \in 0..NCpus,
         NEW a \in Nat, NEW b \in Nat, Send(kind, c, a, b)
  PROVE  /\ out' \in OutType
         /\ out'.seq = out.seq + 1 /\ out'.oversized = out.oversized /\ out'.error = out.error
         /\ \E p \in Packet : /\ Transmit(p) /\ p.session = session /\ p.kind = kind
                              /\ p.seq = out.seq /\ p.cpu = c /\ p.a = a /\ p.b = b
                              /\ p.loss = out.oversized
<1>1. out \in OutType /\ out' = [out EXCEPT !.seq = @ + 1]
  BY DEF Shapes, Send, OutType
<1>2. /\ out' \in OutType /\ out'.seq = out.seq + 1
      /\ out'.oversized = out.oversized /\ out'.error = out.error
  BY <1>1 DEF OutType
<1>3. Transmit(Datagram(kind, c, a, b))
  BY DEF Send
<1>4. Datagram(kind, c, a, b) \in Packet
  BY DatagramIsPacket
<1>5. LET p == Datagram(kind, c, a, b)
      IN /\ p.session = session /\ p.kind = kind /\ p.seq = out.seq /\ p.cpu = c
         /\ p.a = a /\ p.b = b /\ p.loss = out.oversized
  BY DatagramIsPacket
<1> QED BY <1>2, <1>3, <1>4, <1>5

LEMMA EmitKeeps ==
  ASSUME StreamInv, Emit, UNCHANGED file
  PROVE  StreamInv'
<1>1. PICK c \in Cpus, big \in BOOLEAN : Record(c, big)
  BY DEF Emit
<1>2. UNCHANGED <<session, mod, wpc, work, out, net, sent, truth>>
  BY DEF Emit, wire
<1>3. Shapes'
  BY <1>1, <1>2, RecordDoes DEF StreamInv, Shapes
<1>4. Conserved' /\ DropsShow'
  BY <1>1, <1>2, RecordKeeps
<1>5. Numbered' /\ Held' /\ Accounted'
  BY <1>2, HeldSame, FrameNumbered, FrameAccounted DEF StreamInv, Up
<1> QED BY <1>3, <1>4, <1>5 DEF StreamInv

\* The operator and the rest of the kernel touch nothing the stream is about.
LEMMA SwitchKeeps ==
  ASSUME StreamInv, Toggle \/ Foreign \/ Invalidate, UNCHANGED file
  PROVE  StreamInv'
<1>1. UNCHANGED <<session, mod, wpc, work, out, net, sent, truth, rings>>
  BY DEF Toggle, Foreign, Invalidate, wire, rings
<1>2. Shapes'
  BY <1>1 DEF StreamInv, Shapes, rings
<1>3. Numbered' /\ Held' /\ Conserved' /\ DropsShow' /\ Accounted'
  BY <1>1, Frame DEF Up
<1> QED BY <1>2, <1>3 DEF StreamInv

LEMMA LoadKeeps ==
  ASSUME StreamInv, Load, UNCHANGED file
  PROVE  StreamInv'
<1>1. mod = "unloaded" /\ UNCHANGED <<session, rings, work, truth>>
  BY DEF Load
<1>2. CASE mod' = "gone" /\ UNCHANGED <<wpc, net, sent, out>>
  <2>1. Shapes'
    BY <1>1, <1>2 DEF StreamInv, Shapes, rings
  <2>2. Numbered' /\ Held' /\ Conserved' /\ DropsShow' /\ Accounted'
    BY <1>1, <1>2, Frame DEF Up
  <2> QED BY <2>1, <2>2 DEF StreamInv
<1>3. CASE mod' = "live" /\ wpc' = "queued" /\ Send("begin", NCpus, NCpus, 0)
  <2>1. Shapes /\ NCpus \in 0..NCpus /\ NCpus \in Nat /\ 0 \in Nat
    BY Sizes DEF StreamInv
  <2>2. /\ out' \in OutType
        /\ out'.seq = out.seq + 1 /\ out'.oversized = out.oversized
    BY <1>3, <2>1, SendDoes
  <2>3. PICK p \in Packet : /\ Transmit(p) /\ p.session = session /\ p.kind = "begin"
                            /\ p.seq = out.seq /\ p.cpu = NCpus
    BY <1>3, <2>1, SendDoes
  <2>4. Up /\ Up' /\ out.seq = Len(Current)
    BY <1>1, <1>3 DEF Up, StreamInv, Numbered
  <2>5. sent' \in [Ids -> Seq(Packet)] /\ net' \in Seq(Packet)
    BY <2>1, <2>3, TransmitDoes
  <2>6. Shapes'
    BY <1>1, <1>3, <2>2, <2>5 DEF StreamInv, Shapes, rings, OutType
  <2>7. Held'
    BY <2>1, <2>3, <2>4, TransmitHeld DEF StreamInv
  <2>8. Numbered'
    BY <1>1, <1>3, <2>1, <2>2, <2>3, <2>4, TransmitNumbered DEF StreamInv
  <2>9. Accounted'
    BY <1>1, <1>3, <2>1, <2>3, <2>4, TransmitAccounted DEF StreamInv
  <2>10. Conserved' /\ DropsShow'
    BY <1>1, <2>2, <2>3, <2>4, TransmitRings
  <2> QED BY <2>6, <2>7, <2>8, <2>9, <2>10 DEF StreamInv
<1> QED BY <1>2, <1>3 DEF Load, wire

(***************************************************************************)
(* The worker.                                                             *)
(***************************************************************************)
LEMMA NextCpuType ==
  ASSUME NEW w \in WorkType
  PROVE  NextCpu(w) \in WorkType
<1>1. (w.cursor + 1) % NCpus \in Cpus
  <2>1. NCpus \in Nat \ {0} /\ w.cursor + 1 \in Nat
    BY Sizes DEF WorkType, Cpus
  <2>2. (w.cursor + 1) % NCpus \in 0..(NCpus - 1)
    BY <2>1
  <2> QED BY <2>2 DEF Cpus
<1> QED BY <1>1 DEF NextCpu, WorkType

LEMMA RescheduleDoes ==
  ASSUME Shapes, Reschedule
  PROVE  /\ out' \in OutType /\ wpc' \in {"off", "queued", "stats"}
         /\ out'.seq = out.seq /\ out'.oversized = out.oversized /\ out'.error = out.error
<1>1. out \in OutType
  BY DEF Shapes, OutType
<1>2. wpc' \in {"off", "queued", "stats"}
  BY DEF Reschedule, Requeue
<1>3. CASE out' = [out EXCEPT !.ticks = @ + 1]
  BY <1>1, <1>2, <1>3 DEF OutType
<1>4. CASE UNCHANGED out
  BY <1>1, <1>2, <1>4
<1> QED BY <1>3, <1>4 DEF Reschedule

LEMMA DrainStartKeeps ==
  ASSUME StreamInv, DrainStart, UNCHANGED file
  PROVE  StreamInv'
<1>1. wpc = "queued" /\ UNCHANGED <<session, mod, net, sent, truth>>
  BY DEF DrainStart, wire
<1>2. mod \in {"live", "stopping"}
  BY <1>1 DEF StreamInv, Shapes
<1>3. CASE owned /\ semantic
  <2>1. wpc' = "run" /\ work' = NextCpu([work EXCEPT !.n = 0, !.empty = 0]) /\ UNCHANGED out
    BY <1>3 DEF DrainStart
  <2>2. work' \in WorkType
    <3>1. [work EXCEPT !.n = 0, !.empty = 0] \in WorkType
      BY DEF StreamInv, Shapes, WorkType
    <3> QED BY <2>1, <3>1, NextCpuType
  <2>3. Numbered' /\ Held' /\ Accounted'
    BY <1>1, <2>1, HeldSame, FrameNumbered, FrameAccounted DEF StreamInv, Up
  <2>4. CASE UNCHANGED rings
    <3>1. Shapes'
      BY <1>1, <1>2, <2>1, <2>2, <2>4 DEF StreamInv, Shapes, WorkType, rings
    <3>2. Conserved' /\ DropsShow'
      BY <1>1, <2>1, <2>4, Frame DEF Up
    <3> QED BY <2>3, <3>1, <3>2 DEF StreamInv
  <2>5. CASE \E c \in Cpus : Record(c, FALSE)
    <3>1. PICK c \in Cpus : Record(c, FALSE)
      BY <2>5
    <3>2. /\ ring' \in [Cpus -> Seq([id : Nat, big : BOOLEAN])]
          /\ \A d \in Cpus : Len(ring'[d]) <= Slots
          /\ dropped' \in [Cpus -> Nat] /\ made' \in [Cpus -> Nat]
      BY <3>1, RecordDoes DEF StreamInv
    <3>3. Shapes'
      BY <1>1, <1>2, <2>1, <2>2, <3>2 DEF StreamInv, Shapes, WorkType
    <3>4. Conserved' /\ DropsShow'
      BY <1>1, <2>1, <3>1, RecordKeeps
    <3> QED BY <2>3, <3>3, <3>4 DEF StreamInv
  <2> QED BY <1>3, <2>4, <2>5 DEF DrainStart
<1>4. CASE ~(owned /\ semantic)
  <2>1. out' = [out EXCEPT !.error = TRUE] /\ wpc' = "off" /\ UNCHANGED <<work, rings>>
    BY <1>4 DEF DrainStart
  <2>2. out' \in OutType /\ out'.seq = out.seq /\ out'.oversized = out.oversized
    BY <2>1 DEF StreamInv, Shapes, OutType
  <2>3. Shapes'
    BY <1>1, <2>1, <2>2 DEF StreamInv, Shapes, OutType, rings
  <2>4. Numbered' /\ Held' /\ Conserved' /\ DropsShow' /\ Accounted'
    BY <1>1, <1>2, <2>1, <2>2, Frame DEF Up
  <2> QED BY <2>3, <2>4 DEF StreamInv
<1> QED BY <1>3, <1>4

\* The visits that find nothing, and the end of a pass.
LEMMA VisitKeeps ==
  ASSUME StreamInv, Break \/ NextRing \/ EmptyRing, UNCHANGED file
  PROVE  StreamInv'
<1>1. wpc = "run" /\ UNCHANGED <<session, mod, rings, net, sent, truth>>
  BY DEF Break, NextRing, EmptyRing, wire, history
<1>2. mod \in {"live", "stopping"} /\ work \in WorkType /\ out \in OutType
  BY <1>1 DEF StreamInv, Shapes, WorkType, OutType
<1>3. work' \in WorkType
  <2>1. CASE work' = work
    BY <1>2, <2>1
  <2>2. CASE work' = NextCpu(work)
    BY <1>2, <2>2, NextCpuType
  <2>3. CASE work' = [work EXCEPT !.empty = @ + 1] \/ work' = NextCpu([work EXCEPT !.empty = @ + 1])
    <3>1. [work EXCEPT !.empty = @ + 1] \in WorkType
      BY <1>2 DEF WorkType
    <3> QED BY <2>3, <3>1, NextCpuType
  <2> QED BY <2>1, <2>2, <2>3 DEF Break, NextRing, EmptyRing
<1>4. /\ out' \in OutType /\ wpc' \in {"off", "queued", "run", "stats"}
      /\ out'.seq = out.seq /\ out'.oversized = out.oversized
  <2>1. CASE Reschedule
    BY <2>1, RescheduleDoes DEF StreamInv
  <2>2. CASE UNCHANGED <<wpc, out>>
    BY <1>1, <1>2, <2>2
  <2> QED BY <2>1, <2>2 DEF Break, NextRing, EmptyRing
<1>5. Shapes'
  BY <1>1, <1>2, <1>3, <1>4 DEF StreamInv, Shapes, WorkType, OutType, rings
<1>6. Numbered' /\ Held' /\ Conserved' /\ DropsShow' /\ Accounted'
  BY <1>1, <1>2, <1>4, Frame DEF Up
<1> QED BY <1>5, <1>6 DEF StreamInv

LEMMA PlaceInSeq ==
  ASSUME NEW S, NEW q \in Seq(S), NEW i \in 1..Len(q)
  PROVE  q[i] \in S
OBVIOUS

\* The first record leaves its ring.
LEMMA ConsumeRing ==
  ASSUME Shapes, Consume
  PROVE  LET c == work.cpu
             q == ring[c]
         IN /\ c \in Cpus /\ Len(q) \in Nat \ {0} /\ DOMAIN q = 1..Len(q)
            /\ Head(q) = q[1] /\ q[1].id \in Nat
            /\ ring' \in [Cpus -> Seq([id : Nat, big : BOOLEAN])]
            /\ \A d \in Cpus \ {c} : ring'[d] = ring[d]
            /\ Len(ring'[c]) = Len(q) - 1 /\ DOMAIN ring'[c] = 1..(Len(q) - 1)
            /\ \A i \in 1..(Len(q) - 1) : ring'[c][i] = q[i + 1]
            /\ \A d \in Cpus : Len(ring'[d]) <= Slots
<1> DEFINE c == work.cpu
           q == ring[c]
<1>1. /\ ring \in [Cpus -> Seq([id : Nat, big : BOOLEAN])] /\ c \in Cpus
      /\ \A d \in Cpus : Len(ring[d]) <= Slots
  BY DEF Shapes
<1>2. q # <<>> /\ ring' = [ring EXCEPT ![c] = Tail(q)]
  BY DEF Consume
<1>3. q \in Seq([id : Nat, big : BOOLEAN])
  BY <1>1
<1> HIDE DEF c, q
<1>4. /\ Len(q) \in Nat \ {0} /\ DOMAIN q = 1..Len(q)
      /\ Tail(q) \in Seq([id : Nat, big : BOOLEAN]) /\ Head(q) = q[1]
      /\ Len(Tail(q)) = Len(q) - 1 /\ DOMAIN Tail(q) = 1..(Len(q) - 1)
      /\ \A i \in 1..(Len(q) - 1) : Tail(q)[i] = q[i + 1]
  BY <1>2, <1>3
<1>5. q[1].id \in Nat
  <2>1. 1 \in 1..Len(q)
    BY <1>4
  <2>2. q[1] \in [id : Nat, big : BOOLEAN]
    BY <1>3, <2>1, PlaceInSeq
  <2> QED BY <2>2
<1>6. ring' \in [Cpus -> Seq([id : Nat, big : BOOLEAN])] /\ ring'[c] = Tail(q)
      /\ \A d \in Cpus \ {c} : ring'[d] = ring[d]
  BY <1>1, <1>2, <1>4
<1>7. ASSUME NEW d \in Cpus PROVE Len(ring'[d]) <= Slots
  <2>1. CASE d = c
    <3>1. Slots \in Nat /\ Len(q) <= Slots
      BY <1>1, Sizes DEF q
    <3> QED BY <1>4, <1>6, <2>1, <3>1
  <2>2. CASE d # c
    BY <1>1, <1>6, <2>2
  <2> QED BY <2>1, <2>2
<1> QED BY <1>1, <1>4, <1>5, <1>6, <1>7 DEF c, q

\* The record that is sent is the next one of its CPU.
LEMMA ConsumeConserves ==
  ASSUME StreamInv, Consume, NEW p \in Packet, Transmit(p), UNCHANGED <<session, mod, dropped, made>>,
         p.kind = "event", p.cpu = work.cpu, p.a = Head(ring[work.cpu]).id,
         out'.oversized = out.oversized
  PROVE  Conserved' /\ DropsShow'
<1> DEFINE c == work.cpu
           q == ring[c]
<1>1. /\ c \in Cpus /\ Len(q) \in Nat \ {0} /\ DOMAIN q = 1..Len(q) /\ Head(q) = q[1]
      /\ \A d \in Cpus \ {c} : ring'[d] = ring[d]
      /\ Len(ring'[c]) = Len(q) - 1 /\ DOMAIN ring'[c] = 1..(Len(q) - 1)
      /\ \A i \in 1..(Len(q) - 1) : ring'[c][i] = q[i + 1]
  BY ConsumeRing DEF StreamInv
<1>2. Current \in Seq(Packet) /\ Current' = Append(Current, p) /\ (Up' <=> Up)
  BY TransmitDoes DEF StreamInv, Current, Up
<1>3. made \in [Cpus -> Nat]
  BY DEF StreamInv, Shapes
<1>4. ASSUME Up, ~out.oversized, NEW d \in Cpus, dropped[d] = 0
      PROVE  /\ Len(ring'[d]) <= made[d]
             /\ Exactly(Append(Current, p), d, made[d] - Len(ring'[d]))
             /\ \A i \in DOMAIN ring'[d] : ring'[d][i].id = made[d] - Len(ring'[d]) + i
  <2>1. /\ Len(ring[d]) <= made[d]
        /\ Exactly(Current, d, made[d] - Len(ring[d]))
        /\ \A i \in DOMAIN ring[d] : ring[d][i].id = made[d] - Len(ring[d]) + i
    BY <1>4 DEF StreamInv, Conserved
  <2>2. CASE d # c
    <3>1. Exactly(Append(Current, p), d, made[d] - Len(ring[d]))
      BY <1>2, <2>1, <2>2, ExactlySame
    <3> QED BY <1>1, <2>1, <2>2, <3>1
  <2>3. CASE d = c
    <3>1. PICK n \in Nat : n = made[c] - Len(q)
      <4>1. made[c] - Len(q) \in Nat
        BY <1>1, <1>3, <2>1, <2>3
      <4> QED BY <4>1
    <3>2. Exactly(Current, c, n) /\ \A i \in DOMAIN q : q[i].id = n + i
      BY <2>1, <2>3, <3>1
    <3>3. p.a = n + 1
      BY <1>1, <3>2
    <3>4. Exactly(Append(Current, p), c, n + 1)
      BY <1>2, <3>2, <3>3, ExactlyMore
    <3>5. made[c] - Len(ring'[c]) = n + 1 /\ Len(ring'[c]) <= made[c]
      BY <1>1, <1>3, <3>1
    <3>6. ASSUME NEW i \in DOMAIN ring'[c] PROVE ring'[c][i].id = n + 1 + i
      <4>1. i \in 1..(Len(q) - 1) /\ i + 1 \in DOMAIN q
        BY <1>1
      <4>2. ring'[c][i].id = n + (i + 1)
        BY <1>1, <3>2, <4>1
      <4> QED BY <4>1, <4>2, <1>1
    <3> QED BY <2>3, <3>4, <3>5, <3>6
  <2> QED BY <2>2, <2>3
<1>5. ASSUME Up, ~out.oversized, NEW d \in Cpus, Quieted(Append(Current, p), d)
      PROVE  dropped[d] = 0 \/ ring'[d] # <<>>
  <2>1. d # c /\ Quieted(Current, d)
    BY <1>2, <1>5, QuietedAppend
  <2> QED BY <1>1, <1>5, <2>1 DEF StreamInv, DropsShow
<1>6. Conserved'
  BY <1>2, <1>4 DEF Conserved
<1>7. DropsShow'
  BY <1>2, <1>5 DEF DropsShow
<1> QED BY <1>6, <1>7

LEMMA ConsumeKeeps ==
  ASSUME StreamInv, Consume, UNCHANGED file
  PROVE  StreamInv'
<1>1. wpc = "run" /\ UNCHANGED <<session, mod, dropped, made, truth>>
  BY DEF Consume, history
<1>2. /\ mod \in {"live", "stopping"} /\ work \in WorkType /\ out \in OutType /\ Shapes
      /\ work.cpu \in Cpus
  BY <1>1 DEF StreamInv, Shapes, WorkType, OutType
<1>3. /\ ring' \in [Cpus -> Seq([id : Nat, big : BOOLEAN])]
      /\ \A d \in Cpus : Len(ring'[d]) <= Slots
      /\ Head(ring[work.cpu]).id \in Nat
  BY <1>2, ConsumeRing
<1>4. CASE /\ out' = [out EXCEPT !.oversized = TRUE, !.error = TRUE] /\ wpc' = "off"
           /\ work' = [work EXCEPT !.empty = 0, !.n = @ + 1] /\ UNCHANGED wire
  <2>1. out' \in OutType /\ out'.seq = out.seq /\ out'.oversized
    BY <1>2, <1>4 DEF OutType
  <2>2. work' \in WorkType
    <3>1. work.n \in Nat /\ work.n + 1 \in Nat
      BY <1>2 DEF WorkType
    <3> QED BY <1>2, <1>4, <3>1 DEF WorkType
  <2>3. Shapes'
    BY <1>1, <1>2, <1>3, <1>4, <2>1, <2>2 DEF Shapes, WorkType, OutType, wire
  <2>4. Numbered' /\ Held' /\ Accounted'
    BY <1>1, <1>2, <1>4, <2>1, HeldSame, FrameNumbered, FrameAccounted DEF StreamInv, Up, wire
  <2>5. Conserved' /\ DropsShow'
    BY <2>1 DEF Conserved, DropsShow
  <2> QED BY <2>3, <2>4, <2>5 DEF StreamInv
<1>5. CASE /\ Send("event", work.cpu, Head(ring[work.cpu]).id, 0) /\ UNCHANGED wpc
           /\ work' = [work EXCEPT !.empty = 0, !.n = @ + 1, !.quota = @ + 1]
  <2>1. work.cpu \in 0..NCpus
    BY <1>2, Sizes
  <2>2. /\ out' \in OutType
        /\ out'.seq = out.seq + 1 /\ out'.oversized = out.oversized
    BY <1>2, <1>3, <1>5, <2>1, SendDoes
  <2>i. PICK id \in Nat : id = Head(ring[work.cpu]).id
    BY <1>3
  <2>e. Send("event", work.cpu, id, 0)
    BY <1>5, <2>i
  <2>3. PICK p \in Packet : /\ Transmit(p) /\ p.session = session /\ p.kind = "event"
                            /\ p.seq = out.seq /\ p.cpu = work.cpu /\ p.a = id
    <3>1. "event" \in {"begin", "event", "stats"} /\ 0 \in Nat
      OBVIOUS
    <3>2. \E p \in Packet : /\ Transmit(p) /\ p.session = session /\ p.kind = "event"
                            /\ p.seq = out.seq /\ p.cpu = work.cpu /\ p.a = id /\ p.b = 0
      BY <1>2, <2>1, <2>e, <3>1, SendDoes
    <3> QED BY <3>2
  <2>4. Up /\ Up' /\ out.seq = Len(Current)
    BY <1>1, <1>2 DEF Up, StreamInv, Numbered
  <2>5. sent' \in [Ids -> Seq(Packet)] /\ net' \in Seq(Packet)
    BY <1>2, <2>3, TransmitDoes
  <2>6. work' \in WorkType
    <3>1. work.n + 1 \in Nat /\ work.quota + 1 \in Nat
      BY <1>2 DEF WorkType
    <3> QED BY <1>2, <1>5, <3>1 DEF WorkType
  <2>7. Shapes'
    BY <1>1, <1>2, <1>3, <1>5, <2>2, <2>5, <2>6 DEF Shapes, OutType, WorkType
  <2>8. Held'
    BY <1>2, <2>3, <2>4, TransmitHeld DEF StreamInv
  <2>9. Numbered'
    BY <1>1, <1>2, <2>2, <2>3, <2>4, TransmitNumbered DEF StreamInv
  <2>10. Accounted'
    BY <1>1, <1>2, <2>3, <2>4, TransmitAccounted DEF StreamInv
  <2>11. Conserved' /\ DropsShow'
    BY <1>1, <2>2, <2>3, <2>i, ConsumeConserves
  <2> QED BY <2>7, <2>8, <2>9, <2>10, <2>11 DEF StreamInv
<1> QED BY <1>4, <1>5 DEF Consume

(***************************************************************************)
(* The statistics, and rmmod.                                              *)
(***************************************************************************)
LEMMA StatDoes ==
  ASSUME StreamInv, NEW done, Stat(done), UNCHANGED <<session, rings>>, Up
  PROVE  /\ out' \in OutType /\ work' \in WorkType
         /\ out'.oversized = out.oversized
         /\ \/ /\ UNCHANGED <<out, net, sent>>
            \/ \E p \in Packet :
                 /\ Transmit(p) /\ p.session = session /\ p.kind = "stats" /\ p.seq = out.seq
                 /\ p.a = dropped[p.cpu] /\ out'.seq = out.seq + 1
         /\ UNCHANGED <<wpc, mod>> \/ done
<1> DEFINE c == work.stat
           lost == dropped[c]
           waiting == Len(ring[c])
<1>1. /\ Shapes /\ work \in WorkType /\ out \in OutType /\ c \in Cpus /\ c \in 0..NCpus
      /\ lost \in Nat /\ waiting \in Nat
  <2>1. Shapes
    BY DEF StreamInv
  <2>2. c \in Cpus /\ work \in WorkType /\ out \in OutType
    BY <2>1 DEF Shapes, WorkType, OutType
  <2>3. c \in 0..NCpus
    BY <2>2, Sizes
  <2>4. lost \in Nat
    BY <2>1, <2>2 DEF Shapes
  <2>5. ring[c] \in Seq([id : Nat, big : BOOLEAN])
    BY <2>1, <2>2 DEF Shapes
  <2>6. waiting \in Nat
    BY <2>5
  <2> QED BY <2>1, <2>2, <2>3, <2>4, <2>6
<1>2. PICK room \in BOOLEAN :
        /\ IF room THEN Send("stats", c, lost, waiting) ELSE UNCHANGED <<out, wire>>
        /\ IF room /\ c + 1 < NCpus
           THEN work' = [work EXCEPT !.stat = @ + 1] /\ UNCHANGED <<wpc, mod>>
           ELSE work' = [work EXCEPT !.stat = 0] /\ done
  BY DEF Stat, QueueRoom
<1>3. work' \in WorkType /\ (UNCHANGED <<wpc, mod>> \/ done)
  <2>1. CASE work' = [work EXCEPT !.stat = 0] /\ done
    <3>1. 0 \in Cpus
      BY Sizes DEF Cpus
    <3> QED BY <1>1, <2>1, <3>1 DEF WorkType
  <2>2. CASE c + 1 < NCpus /\ work' = [work EXCEPT !.stat = @ + 1] /\ UNCHANGED <<wpc, mod>>
    <3>1. c + 1 \in Cpus
      BY <1>1, <2>2, Sizes DEF Cpus
    <3> QED BY <1>1, <2>2, <3>1 DEF WorkType
  <2> QED BY <1>2, <2>1, <2>2
<1> HIDE DEF c, lost, waiting
<1>4. CASE UNCHANGED <<out, wire>>
  BY <1>1, <1>3, <1>4 DEF wire
<1>5. CASE Send("stats", c, lost, waiting)
  <2>1. "stats" \in {"begin", "event", "stats"}
    OBVIOUS
  <2>2. out' \in OutType /\ out'.seq = out.seq + 1 /\ out'.oversized = out.oversized
    BY <1>1, <1>5, <2>1, SendDoes
  <2>3. \E p \in Packet : /\ Transmit(p) /\ p.session = session /\ p.kind = "stats"
                          /\ p.seq = out.seq /\ p.cpu = c /\ p.a = lost /\ p.b = waiting
    BY <1>1, <1>5, <2>1, SendDoes
  <2>4. \E p \in Packet : /\ Transmit(p) /\ p.session = session /\ p.kind = "stats"
                          /\ p.seq = out.seq /\ p.a = dropped[p.cpu]
    BY <2>3 DEF lost
  <2> QED BY <1>3, <2>2, <2>4
<1> QED BY <1>2, <1>4, <1>5

LEMMA StatKeeps ==
  ASSUME StreamInv, DrainStat \/ FinalStat, UNCHANGED file
  PROVE  StreamInv'
<1>1. UNCHANGED <<session, rings, truth>>
  BY DEF DrainStat, FinalStat
<1>2. PICK done \in BOOLEAN :
        /\ Stat(done)
        /\ \/ wpc = "stats" /\ (done => UNCHANGED mod /\ wpc' \in {"off", "queued"})
           \/ mod = "final" /\ (done => mod' = "count" /\ UNCHANGED wpc)
  <2>1. CASE DrainStat
    <3>1. DrainStat => wpc = "stats" /\ Stat(Requeue /\ UNCHANGED mod)
      BY DEF DrainStat
    <3>2. (Requeue /\ UNCHANGED mod) => UNCHANGED mod /\ wpc' \in {"off", "queued"}
      BY DEF Requeue
    <3> QED BY <2>1, <3>1, <3>2
  <2>2. CASE FinalStat
    BY <2>2 DEF FinalStat
  <2> QED BY <2>1, <2>2
<1>3. /\ Shapes /\ Up /\ mod \in {"live", "stopping", "final"}
      /\ wpc \in {"off", "queued", "run", "stats"}
      /\ wpc # "off" => mod \in {"live", "stopping"}
  BY <1>2 DEF StreamInv, Shapes, Up
<1>4. /\ out' \in OutType /\ work' \in WorkType
      /\ out'.oversized = out.oversized
      /\ \/ /\ UNCHANGED <<out, net, sent>>
         \/ \E p \in Packet :
              /\ Transmit(p) /\ p.session = session /\ p.kind = "stats" /\ p.seq = out.seq
              /\ p.a = dropped[p.cpu] /\ out'.seq = out.seq + 1
      /\ UNCHANGED <<wpc, mod>> \/ done
  BY <1>1, <1>2, <1>3, StatDoes
<1>5. /\ mod' \in {"live", "stopping", "final", "count"} /\ Up'
      /\ wpc' \in {"off", "queued", "run", "stats"}
      /\ wpc' # "off" => mod' \in {"live", "stopping"}
  BY <1>2, <1>3, <1>4 DEF Up
<1>6. ASSUME sent' \in [Ids -> Seq(Packet)], net' \in Seq(Packet) PROVE Shapes'
  <2>1. /\ ring' = ring /\ dropped' = dropped /\ made' = made
        /\ session' = session /\ truth' = truth /\ file' = file
    BY <1>1 DEF rings
  <2>2. /\ mod' \in {"unloaded", "live", "stopping", "final", "count", "end", "gone", "down"}
        /\ wpc' \in {"off", "queued", "run", "stats"}
        /\ wpc' # "off" => mod' \in {"live", "stopping"}
    BY <1>5
  <2>3. /\ session' \in Ids
        /\ ring' \in [Cpus -> Seq([id : Nat, big : BOOLEAN])]
        /\ \A c \in Cpus : Len(ring'[c]) <= Slots
        /\ dropped' \in [Cpus -> Nat] /\ made' \in [Cpus -> Nat]
        /\ file' \in [Ids -> Seq(Packet)] /\ truth' \in [Ids -> [Cpus -> Nat]]
    BY <1>3, <2>1 DEF Shapes
  <2>4. /\ work' \in [n : Nat, quota : Nat, empty : Nat, cpu : Cpus, cursor : Cpus, stat : Cpus]
        /\ out' \in [seq : Nat, oversized : BOOLEAN, error : BOOLEAN, remaining : Nat, ticks : Nat]
    BY <1>4 DEF OutType, WorkType
  <2> QED BY <1>6, <2>2, <2>3, <2>4 DEF Shapes
<1>7. CASE UNCHANGED <<out, net, sent>>
  <2>1. Numbered' /\ Held' /\ Conserved' /\ DropsShow' /\ Accounted'
    BY <1>1, <1>3, <1>5, <1>7, Frame
  <2>2. Shapes'
    BY <1>3, <1>6, <1>7 DEF Shapes
  <2> QED BY <2>1, <2>2 DEF StreamInv
<1>8. CASE \E p \in Packet :
             /\ Transmit(p) /\ p.session = session /\ p.kind = "stats" /\ p.seq = out.seq
             /\ p.a = dropped[p.cpu] /\ out'.seq = out.seq + 1
  <2>1. PICK p \in Packet :
          /\ Transmit(p) /\ p.session = session /\ p.kind = "stats" /\ p.seq = out.seq
          /\ p.a = dropped[p.cpu] /\ out'.seq = out.seq + 1
    BY <1>8
  <2>2. out.seq = Len(Current)
    BY <1>3 DEF StreamInv, Numbered
  <2>3. Shapes'
    <3>1. sent' \in [Ids -> Seq(Packet)] /\ net' \in Seq(Packet)
      BY <1>3, <2>1, TransmitDoes
    <3> QED BY <1>6, <3>1
  <2>4. Held'
    BY <1>3, <2>1, <2>2, TransmitHeld DEF StreamInv
  <2>5. Numbered'
    BY <1>1, <1>3, <1>5, <2>1, <2>2, TransmitNumbered DEF StreamInv
  <2>6. Accounted'
    BY <1>1, <1>3, <1>5, <2>1, TransmitAccounted DEF StreamInv
  <2>7. Conserved' /\ DropsShow'
    BY <1>1, <1>3, <1>4, <2>1, TransmitRings
  <2> QED BY <2>3, <2>4, <2>5, <2>6, <2>7 DEF StreamInv
<1> QED BY <1>4, <1>7, <1>8

LEMMA UnloadKeeps ==
  ASSUME StreamInv, Unload \/ Cancel, UNCHANGED file
  PROVE  StreamInv'
<1>1. /\ UNCHANGED <<session, rings, work, out, net, sent, truth>>
      /\ \/ mod = "live" /\ mod' = "stopping" /\ UNCHANGED wpc
         \/ mod = "stopping" /\ mod' = "final" /\ wpc' = "off"
  BY DEF Unload, Cancel, wire, history
<1>2. Shapes'
  BY <1>1 DEF StreamInv, Shapes, rings
<1>3. Numbered' /\ Held' /\ Conserved' /\ DropsShow' /\ Accounted'
  BY <1>1, Frame DEF Up
<1> QED BY <1>2, <1>3 DEF StreamInv

\* What is counted when nothing is left.
LEMMA NothingLeft ==
  ASSUME Shapes
  PROVE  /\ Left \in Nat
         /\ Left = 0 => \A c \in Cpus : ring[c] = <<>>
<1> DEFINE places == Cpus \X (1..Slots)
           L == {r \in places : r[2] \in DOMAIN ring[r[1]]}
<1>1. NCpus \in Nat \ {0} /\ Slots \in Nat \ {0}
  BY Sizes
<1>2. IsFiniteSet(Cpus) /\ IsFiniteSet(1..Slots)
  BY <1>1, FS_Interval DEF Cpus
<1>3. IsFiniteSet(places)
  BY <1>2, FS_Product
<1>4. L \subseteq places
  OBVIOUS
<1>5. IsFiniteSet(L)
  BY <1>3, <1>4, FS_Subset
<1>6. Left = Cardinality(L)
  BY DEF Left
<1>7. Left \in Nat
  BY <1>5, <1>6, FS_CardinalityType
<1>8. ASSUME Left = 0, NEW c \in Cpus PROVE ring[c] = <<>>
  <2>1. L = {}
    BY <1>5, <1>6, <1>8, FS_EmptySet
  <2>2. ring[c] \in Seq([id : Nat, big : BOOLEAN]) /\ Len(ring[c]) <= Slots
    BY DEF Shapes
  <2>3. ASSUME Len(ring[c]) # 0 PROVE FALSE
    <3>1. Len(ring[c]) \in Nat /\ DOMAIN ring[c] = 1..Len(ring[c])
      BY <2>2
    <3>2. 1 \in DOMAIN ring[c] /\ 1 \in 1..Slots
      BY <1>1, <2>2, <2>3, <3>1
    <3>3. <<c, 1>> \in places /\ <<c, 1>>[1] = c /\ <<c, 1>>[2] = 1
      BY <3>2
    <3>4. <<c, 1>> \in L
      BY <3>2, <3>3
    <3> QED BY <2>1, <3>4
  <2> QED BY <2>2, <2>3, EmptySeq
<1> QED BY <1>7, <1>8

LEMMA CountKeeps ==
  ASSUME StreamInv, Count, UNCHANGED file
  PROVE  StreamInv'
<1>1. /\ mod = "count" /\ mod' = "end" /\ out' = [out EXCEPT !.remaining = Left]
      /\ truth' = [truth EXCEPT ![session] = made]
      /\ UNCHANGED <<session, rings, wpc, work, net, sent>>
  BY DEF Count, wire
<1>2. /\ Shapes /\ session \in Ids /\ made \in [Cpus -> Nat]
      /\ truth \in [Ids -> [Cpus -> Nat]] /\ out \in OutType /\ wpc = "off"
      /\ \A c \in Cpus : made[c] \in Nat
  BY <1>1 DEF StreamInv, Shapes, OutType
<1>3. out' \in OutType /\ out'.seq = out.seq /\ out'.oversized = out.oversized /\ out'.remaining = Left
  <2>1. Left \in Nat
    BY <1>2, NothingLeft
  <2> QED BY <1>1, <1>2, <2>1 DEF OutType
<1>4. /\ truth' \in [Ids -> [Cpus -> Nat]] /\ truth'[session] = made
      /\ \A s \in Ids : s # session => truth'[s] = truth[s]
  BY <1>1, <1>2
<1>5. Shapes'
  BY <1>1, <1>2, <1>3, <1>4 DEF Shapes, OutType, rings
<1>6. Numbered' /\ Held'
  BY <1>1, <1>3, HeldSame, FrameNumbered DEF StreamInv, Up
<1>7. Up /\ Up' /\ Current' = Current
  BY <1>1 DEF Up, Current
<1>8. Conserved' /\ DropsShow'
  BY <1>1, <1>3, <1>7 DEF StreamInv, Conserved, DropsShow, rings
<1>9. ASSUME Left = 0, ~out.oversized PROVE Delivered(session)'
  <2>1. ASSUME NEW c \in Cpus, Quieted(Current, c) PROVE Exactly(Current, c, made[c])
    <3>1. ring[c] = <<>> /\ Len(ring[c]) = 0
      BY <1>2, <1>9, NothingLeft
    <3>2. dropped[c] = 0
      BY <1>7, <1>9, <2>1, <3>1 DEF StreamInv, DropsShow
    <3>3. Exactly(Current, c, made[c] - Len(ring[c]))
      BY <1>7, <1>9, <3>2 DEF StreamInv, Conserved
    <3>4. made[c] - Len(ring[c]) = made[c]
      BY <1>2, <3>1
    <3> QED BY <3>3, <3>4
  <2> QED BY <1>1, <1>4, <2>1 DEF Delivered, Current
<1>10. ASSUME NEW s \in Ids, NEW i \in DOMAIN sent[s], sent[s][i].kind = "end",
              sent[s][i].a = 0, ~sent[s][i].loss
       PROVE  Delivered(s)'
  <2>1. s # session
    BY <1>7, <1>10 DEF StreamInv, Numbered
  <2>2. Delivered(s)
    BY <1>10 DEF StreamInv, Accounted
  <2> QED BY <1>1, <1>4, <2>1, <2>2 DEF Delivered
<1>11. Accounted'
  BY <1>1, <1>3, <1>9, <1>10 DEF Accounted
<1> QED BY <1>5, <1>6, <1>8, <1>11 DEF StreamInv

\* END carries what was left, and nothing follows it.
LEMMA EndKeeps ==
  ASSUME StreamInv, End, UNCHANGED file
  PROVE  StreamInv'
<1>1. /\ mod = "end" /\ mod' = "gone" /\ work' = FreshWork /\ out' = FreshOut
      /\ UNCHANGED <<session, rings, wpc, truth>>
  BY DEF End
<1>2. Shapes /\ ~Up' /\ Up /\ out.seq = Len(Current) /\ wpc = "off" /\ session \in Ids
  BY <1>1 DEF StreamInv, Shapes, Up, Numbered
<1>3. work' \in WorkType /\ out' \in OutType
  <2>1. 0 \in Cpus
    BY Sizes DEF Cpus
  <2> QED BY <1>1, <2>1 DEF FreshWork, FreshOut, WorkType, OutType
<1>4. Conserved' /\ DropsShow'
  BY <1>2 DEF Conserved, DropsShow
<1>5. ASSUME sent' \in [Ids -> Seq(Packet)], net' \in Seq(Packet) PROVE Shapes'
  <2>1. /\ session' \in Ids
        /\ ring' \in [Cpus -> Seq([id : Nat, big : BOOLEAN])]
        /\ \A c \in Cpus : Len(ring'[c]) <= Slots
        /\ dropped' \in [Cpus -> Nat] /\ made' \in [Cpus -> Nat]
        /\ file' \in [Ids -> Seq(Packet)] /\ truth' \in [Ids -> [Cpus -> Nat]]
        /\ wpc' = "off" /\ mod' = "gone"
    BY <1>1, <1>2 DEF Shapes, rings
  <2> QED BY <1>3, <1>5, <2>1 DEF Shapes, OutType, WorkType
<1>6. CASE UNCHANGED wire
  <2>1. Shapes'
    BY <1>2, <1>5, <1>6 DEF Shapes, wire
  <2>2. Numbered' /\ Held' /\ Accounted'
    BY <1>1, <1>2, <1>6, HeldSame, FrameNumbered, FrameAccounted DEF StreamInv, wire
  <2> QED BY <1>4, <2>1, <2>2 DEF StreamInv
<1>7. CASE \E flag \in Nat : Transmit(Datagram("end", NCpus, out.remaining, flag))
  <2>1. PICK flag \in Nat : Transmit(Datagram("end", NCpus, out.remaining, flag))
    BY <1>7
  <2>2. PICK left \in Nat : left = out.remaining
    BY <1>2 DEF Shapes
  <2>3. Datagram("end", NCpus, left, flag) \in Packet
        /\ LET p == Datagram("end", NCpus, left, flag)
           IN /\ p.session = session /\ p.kind = "end" /\ p.seq = out.seq
              /\ p.a = left /\ p.loss = out.oversized
    <3>1. NCpus \in 0..NCpus /\ "end" \in {"begin", "event", "stats", "end"}
      BY Sizes
    <3>2. Datagram("end", NCpus, left, flag) \in Packet
      BY <1>2, <3>1, DatagramIsPacket
    <3>3. LET p == Datagram("end", NCpus, left, flag)
          IN /\ p.session = session /\ p.kind = "end" /\ p.seq = out.seq
             /\ p.a = left /\ p.loss = out.oversized
      BY DEF Datagram
    <3> QED BY <3>2, <3>3
  <2>4. PICK p \in Packet : /\ Transmit(p) /\ p.session = session /\ p.kind = "end"
                            /\ p.seq = out.seq /\ p.a = left /\ p.loss = out.oversized
    BY <2>1, <2>2, <2>3
  <2>5. /\ Current \in Seq(Packet)
        /\ sent' \in [Ids -> Seq(Packet)] /\ net' \in Seq(Packet)
        /\ sent'[session] = Append(Current, p)
        /\ \A s \in Ids : s # session => sent'[s] = sent[s]
    BY <1>2, <2>4, TransmitDoes
  <2>6. /\ DOMAIN Append(Current, p) = 1..(Len(Current) + 1) /\ DOMAIN Current = 1..Len(Current)
        /\ Len(Current) \in Nat /\ Append(Current, p)[Len(Current) + 1] = p
        /\ Len(Append(Current, p)) = Len(Current) + 1
        /\ \A i \in 1..Len(Current) : Append(Current, p)[i] = Current[i]
    BY <2>5, AppendProperties
  <2>7. Shapes'
    BY <1>5, <2>5
  <2>8. Held'
    BY <1>2, <2>4, TransmitHeld DEF StreamInv
  <2>9. Numbered'
    <3>1. ASSUME NEW s \in Ids, NEW i \in DOMAIN sent'[s]
          PROVE  /\ sent'[s][i].seq = i - 1 /\ sent'[s][i].session = s
                 /\ sent'[s][i].kind = "end" => i = Len(sent'[s])
      <4>1. CASE s # session
        BY <2>5, <3>1, <4>1 DEF StreamInv, Numbered
      <4>2. CASE s = session /\ i \in DOMAIN Current
        BY <1>2, <2>5, <2>6, <4>2 DEF StreamInv, Numbered, Current
      <4>3. CASE s = session /\ i \notin DOMAIN Current
        <5>1. i = Len(Current) + 1
          BY <2>5, <2>6, <4>3, <3>1
        <5> QED BY <1>2, <2>4, <2>5, <2>6, <4>3, <5>1
      <4> QED BY <4>1, <4>2, <4>3
    <3>2. \A s \in Ids : s > session => sent'[s] = <<>>
      BY <1>2, <2>5, SMT DEF StreamInv, Numbered, Ids
    <3> QED BY <1>1, <1>2, <3>1, <3>2 DEF Numbered
  <2>10. ASSUME NEW i \in DOMAIN sent'[session], sent'[session][i].kind = "end",
                sent'[session][i].a = 0, ~sent'[session][i].loss
         PROVE  Delivered(session)'
    <3>1. i = Len(Current) + 1
      <4>1. ASSUME i \in DOMAIN Current PROVE FALSE
        <5>1. Current[i].kind = "end"
          BY <2>5, <2>6, <2>10, <4>1
        <5> QED BY <1>2, <4>1, <5>1 DEF StreamInv, Numbered, Current
      <4> QED BY <2>5, <2>6, <2>10, <4>1
    <3>2. out.remaining = 0 /\ ~out.oversized
      BY <2>2, <2>4, <2>5, <2>6, <2>10, <3>1
    <3>3. Delivered(session)
      BY <1>1, <3>2 DEF StreamInv, Accounted
    <3>4. ASSUME NEW c \in Cpus, Quieted(Append(Current, p), c)
          PROVE  Exactly(Append(Current, p), c, truth[session][c])
      <4>1. Quieted(Current, c)
        BY <2>4, <2>5, <3>4, QuietedAppend
      <4>2. Exactly(Current, c, truth[session][c])
        BY <3>3, <4>1 DEF Delivered, Current
      <4> QED BY <2>4, <2>5, <4>2, ExactlySame
    <3> QED BY <1>1, <2>5, <3>4 DEF Delivered
  <2>11. ASSUME NEW s \in Ids, s # session, NEW i \in DOMAIN sent'[s], sent'[s][i].kind = "end",
                sent'[s][i].a = 0, ~sent'[s][i].loss
         PROVE  Delivered(s)'
    <3>1. Delivered(s)
      BY <2>5, <2>11 DEF StreamInv, Accounted
    <3> QED BY <1>1, <2>5, <2>11, <3>1 DEF Delivered
  <2>12. Accounted'
    BY <1>1, <2>10, <2>11 DEF Accounted
  <2> QED BY <1>4, <2>7, <2>8, <2>9, <2>12 DEF StreamInv
<1>8. CASE \E flag \in {0, 1} : Transmit(Datagram("end", NCpus, out.remaining, flag))
  BY <1>7, <1>8
<1> QED BY <1>6, <1>8 DEF End, QueueRoom

\* After a crash nothing of the module is left; another boot starts afresh.
LEMMA FreshMemory ==
  ASSUME StreamInv, Memory
  PROVE  /\ work' \in WorkType /\ out' \in OutType /\ out'.seq = 0 /\ wpc' = "off"
         /\ ring' \in [Cpus -> Seq([id : Nat, big : BOOLEAN])]
         /\ dropped' \in [Cpus -> Nat] /\ made' \in [Cpus -> Nat]
         /\ \A c \in Cpus : /\ ring'[c] = <<>> /\ Len(ring'[c]) = 0 /\ Len(ring'[c]) <= Slots
                            /\ made'[c] = 0 /\ dropped'[c] = 0
<1>1. 0 \in Cpus /\ Slots \in Nat
  BY Sizes DEF Cpus
<1>2. work' \in WorkType /\ out' \in OutType /\ out'.seq = 0 /\ wpc' = "off"
  BY <1>1 DEF Memory, FreshWork, FreshOut, WorkType, OutType
<1>3. ring' = [c \in Cpus |-> <<>>] /\ dropped' = [c \in Cpus |-> 0] /\ made' = [c \in Cpus |-> 0]
  BY DEF Memory, NoRecords, Zero
<1>4. <<>> \in Seq([id : Nat, big : BOOLEAN]) /\ Len(<<>>) = 0
  OBVIOUS
<1> QED BY <1>1, <1>2, <1>3, <1>4

LEMMA CrashKeeps ==
  ASSUME StreamInv, Crash, UNCHANGED file
  PROVE  StreamInv'
<1>1. Memory /\ mod' = "down" /\ UNCHANGED <<session, net, sent, truth>>
  BY DEF Crash, wire
<1>2. Shapes'
  BY <1>1, FreshMemory DEF StreamInv, Shapes, WorkType, OutType
<1>3. Conserved' /\ DropsShow'
  BY <1>1 DEF Conserved, DropsShow, Up
<1>4. Numbered' /\ Held' /\ Accounted'
  BY <1>1, HeldSame, FrameNumbered, FrameAccounted DEF StreamInv, Up
<1> QED BY <1>2, <1>3, <1>4 DEF StreamInv

LEMMA BootKeeps ==
  ASSUME StreamInv, Boot, UNCHANGED file
  PROVE  StreamInv'
<1>1. /\ Memory /\ mod = "down" /\ mod' = "unloaded" /\ session' = session + 1
      /\ session < Sessions /\ UNCHANGED <<net, sent, truth>>
  BY DEF Boot, wire
<1>2. session \in Nat /\ session' \in Ids /\ session' > session /\ ~Up /\ session \in Ids
  BY <1>1, Sizes DEF StreamInv, Shapes, Ids, Up
<1>3. Shapes'
  BY <1>1, <1>2, FreshMemory DEF StreamInv, Shapes, WorkType, OutType
<1>4. sent[session'] = <<>>
  BY <1>2 DEF StreamInv, Numbered
<1>5. Current' = <<>>
  BY <1>1, <1>4 DEF Current
<1>6. ASSUME NEW s \in Ids, s > session' PROVE sent[s] = <<>>
  <2>1. s > session
    BY <1>2, <1>6 DEF Ids
  <2> QED BY <2>1 DEF StreamInv, Numbered
<1>7. Numbered'
  <2>1. ASSUME NEW s \in Ids, NEW i \in DOMAIN sent[s]
        PROVE  /\ sent[s][i].seq = i - 1 /\ sent[s][i].session = s
               /\ sent[s][i].kind = "end" => i = Len(sent[s]) /\ ~(s = session')
    BY <1>4, <2>1 DEF StreamInv, Numbered
  <2>2. out'.seq = Len(Current')
    BY <1>1, <1>5, FreshMemory
  <2> QED BY <1>1, <1>5, <1>6, <2>1, <2>2 DEF Numbered
<1>8. Held' /\ Accounted'
  <2>1. Held'
    BY <1>1, HeldSame DEF StreamInv
  <2>2. Accounted'
    BY <1>1 DEF StreamInv, Accounted, Delivered
  <2> QED BY <2>1, <2>2
<1>10. ASSUME NEW c \in Cpus PROVE Exactly(Current', c, 0) /\ ~Quieted(Current', c)
  BY <1>5 DEF Exactly, Quieted, Of
<1>11. Conserved'
  <2>1. ASSUME NEW c \in Cpus
        PROVE  /\ Len(ring'[c]) <= made'[c] /\ made'[c] - Len(ring'[c]) = 0
               /\ DOMAIN ring'[c] = {}
    BY <1>1, FreshMemory
  <2> QED BY <1>10, <2>1 DEF Conserved
<1>12. DropsShow'
  BY <1>10 DEF DropsShow
<1> QED BY <1>3, <1>7, <1>8, <1>11, <1>12 DEF StreamInv

(***************************************************************************)
(* The network and the receiver.                                           *)
(***************************************************************************)
LEMMA TailPlaces ==
  ASSUME NEW S, NEW q \in Seq(S), q # <<>>
  PROVE  /\ Tail(q) \in Seq(S) /\ Head(q) \in S /\ Len(q) \in Nat \ {0}
         /\ Head(q) = q[1] /\ DOMAIN q = 1..Len(q) /\ DOMAIN Tail(q) = 1..(Len(q) - 1)
         /\ \A i \in 1..(Len(q) - 1) : Tail(q)[i] = q[i + 1]
OBVIOUS

\* Whatever a step leaves under way was under way.
Members(n, m) == \A i \in DOMAIN n : \E j \in DOMAIN m : n[i] = m[j]

LEMMA DisturbDoes ==
  ASSUME net \in Seq(Packet), Disturb \/ Unheard
  PROVE  net' \in Seq(Packet) /\ Members(net', net)
<1>1. net # <<>>
  BY DEF Disturb, Unheard
<1>2. /\ Tail(net) \in Seq(Packet) /\ Head(net) \in Packet /\ Len(net) \in Nat \ {0}
      /\ Head(net) = net[1] /\ DOMAIN net = 1..Len(net) /\ DOMAIN Tail(net) = 1..(Len(net) - 1)
      /\ \A i \in 1..(Len(net) - 1) : Tail(net)[i] = net[i + 1]
  BY <1>1, TailPlaces
<1>3. CASE net' = Tail(net)
  <2>1. ASSUME NEW i \in DOMAIN net' PROVE \E j \in DOMAIN net : net'[i] = net[j]
    <3>1. i + 1 \in DOMAIN net /\ net'[i] = net[i + 1]
      BY <1>2, <1>3
    <3> QED BY <3>1
  <2> QED BY <1>2, <1>3, <2>1 DEF Members
<1>4. CASE net' = <<Head(net)>> \o net
  <2>1. /\ net' \in Seq(Packet) /\ DOMAIN net' = 1..(Len(net) + 1)
        /\ net'[1] = net[1] /\ \A i \in 2..(Len(net) + 1) : net'[i] = net[i - 1]
    BY <1>2, <1>4
  <2>2. ASSUME NEW i \in DOMAIN net' PROVE \E j \in DOMAIN net : net'[i] = net[j]
    <3>1. CASE i = 1
      BY <1>2, <2>1, <3>1
    <3>2. CASE i # 1
      <4>1. i \in 2..(Len(net) + 1) /\ i - 1 \in DOMAIN net
        BY <1>2, <2>1, <3>2
      <4> QED BY <2>1, <4>1
    <3> QED BY <3>1, <3>2
  <2> QED BY <2>1, <2>2 DEF Members
<1>5. CASE Len(net) > 1 /\ net' = <<net[2], net[1]>> \o SubSeq(net, 3, Len(net))
  <2>1. net[1] \in Packet /\ net[2] \in Packet /\ 1 \in DOMAIN net /\ 2 \in DOMAIN net
    BY <1>2, <1>5
  <2>2. /\ SubSeq(net, 3, Len(net)) \in Seq(Packet)
        /\ Len(SubSeq(net, 3, Len(net))) = Len(net) - 2
        /\ \A i \in 1..(Len(net) - 2) : SubSeq(net, 3, Len(net))[i] = net[i + 2]
    BY <1>2, <1>5
  <2> DEFINE rest == SubSeq(net, 3, Len(net))
             two == <<net[2], net[1]>>
  <2>3. two \in Seq(Packet) /\ Len(two) = 2 /\ two[1] = net[2] /\ two[2] = net[1]
    BY <2>1
  <2>4. net' = two \o rest
    BY <1>5
  <2>5. rest \in Seq(Packet) /\ Len(rest) = Len(net) - 2
        /\ \A i \in 1..(Len(net) - 2) : rest[i] = net[i + 2]
    BY <2>2
  <2> HIDE DEF rest, two
  <2>6. /\ net' \in Seq(Packet) /\ DOMAIN net' = 1..Len(net)
        /\ net'[1] = two[1] /\ net'[2] = two[2]
        /\ \A i \in 3..Len(net) : net'[i] = rest[i - 2]
    BY <1>2, <1>5, <2>3, <2>4, <2>5
  <2>7. ASSUME NEW i \in DOMAIN net' PROVE \E j \in DOMAIN net : net'[i] = net[j]
    <3>1. CASE i \in {1, 2}
      BY <2>1, <2>3, <2>6, <3>1
    <3>2. CASE i \notin {1, 2}
      <4>1. i \in 3..Len(net) /\ i - 2 \in 1..(Len(net) - 2) /\ (i - 2) + 2 = i
        BY <1>2, <2>6, <3>2
      <4> QED BY <2>5, <2>6, <4>1, <1>2
    <3> QED BY <3>1, <3>2
  <2> QED BY <2>6, <2>7 DEF Members
<1>6. CASE net' = <<>>
  BY <1>6 DEF Members
<1> QED BY <1>3, <1>4, <1>5, <1>6 DEF Disturb, Unheard

LEMMA HeldLess ==
  ASSUME Held, UNCHANGED <<sent, file>>, Members(net', net)
  PROVE  Held'
BY DEF Held, Members, IsSent

LEMMA DisturbKeeps ==
  ASSUME StreamInv, Disturb \/ Unheard
  PROVE  StreamInv'
<1>1. UNCHANGED <<session, mod, ring, dropped, made, wpc, work, out, sent, truth, file>>
  BY DEF Disturb, Unheard, kernel, rings, receiver
<1>2. net' \in Seq(Packet) /\ Members(net', net)
  BY DisturbDoes DEF StreamInv, Shapes
<1>3. Shapes'
  BY <1>1, <1>2 DEF StreamInv, Shapes
<1>4. Held'
  BY <1>1, <1>2, HeldLess DEF StreamInv
<1>5. Numbered' /\ Accounted'
  BY <1>1, FrameNumbered, FrameAccounted DEF StreamInv, Up
<1>6. Conserved' /\ DropsShow'
  BY <1>1 DEF StreamInv, Conserved, DropsShow, Up, Current
<1> QED BY <1>3, <1>4, <1>5, <1>6 DEF StreamInv

\* One datagram is stored at most, the one that was received.
LEMMA ReceiveDoes ==
  ASSUME net \in Seq(Packet), file \in [Ids -> Seq(Packet)], Receive
  PROVE  /\ rpc = "recv" /\ net # <<>> /\ net' = Tail(net)
         /\ Head(net) \in Packet /\ Head(net).session \in Ids
         /\ file' \in [Ids -> Seq(Packet)]
         /\ \/ /\ Foreignness(Head(net)) /\ UNCHANGED <<active, finished, file, flushed>>
            \/ /\ ~Foreignness(Head(net))
               /\ file'[Head(net).session] = Append(file[Head(net).session], Head(net))
               /\ \A s \in Ids \ {Head(net).session} : file'[s] = file[s]
<1> DEFINE p == Head(net)
<1>1. rpc = "recv" /\ net # <<>> /\ net' = Tail(net)
  BY DEF Receive
<1>2. p \in Packet
  BY <1>1, TailPlaces
<1>3. p.session \in Ids
  BY <1>2, PacketFields
<1>4. \/ Foreignness(p) /\ UNCHANGED <<active, finished, file, flushed>>
      \/ ~Foreignness(p) /\ file' = [file EXCEPT ![p.session] = Append(@, p)]
  BY DEF Receive
<1> HIDE DEF p
<1>5. Append(file[p.session], p) \in Seq(Packet)
  BY <1>2, <1>3
<1>6. CASE Foreignness(p) /\ UNCHANGED <<active, finished, file, flushed>>
  BY <1>1, <1>2, <1>3, <1>6 DEF p
<1>7. CASE ~Foreignness(p) /\ file' = [file EXCEPT ![p.session] = Append(@, p)]
  <2>1. /\ file' \in [Ids -> Seq(Packet)] /\ file'[p.session] = Append(file[p.session], p)
        /\ \A s \in Ids \ {p.session} : file'[s] = file[s]
    BY <1>3, <1>5, <1>7
  <2> QED BY <1>1, <1>2, <1>3, <1>7, <2>1 DEF p
<1> QED BY <1>4, <1>6, <1>7

LEMMA ReceiveKeeps ==
  ASSUME StreamInv, Receive
  PROVE  StreamInv'
<1>1. UNCHANGED <<session, mod, ring, dropped, made, wpc, work, out, sent, truth>>
  BY DEF Receive, kernel, rings
<1>2. net \in Seq(Packet) /\ file \in [Ids -> Seq(Packet)]
  BY DEF StreamInv, Shapes
<1> DEFINE p == Head(net)
<1>3. /\ net # <<>> /\ net' = Tail(net) /\ p \in Packet /\ p.session \in Ids
      /\ file' \in [Ids -> Seq(Packet)]
      /\ \/ file' = file
         \/ /\ file'[p.session] = Append(file[p.session], p)
            /\ \A s \in Ids \ {p.session} : file'[s] = file[s]
  BY <1>2, ReceiveDoes
<1>4. /\ net' \in Seq(Packet) /\ Len(net) \in Nat \ {0} /\ p = net[1]
      /\ DOMAIN net = 1..Len(net) /\ DOMAIN net' = 1..(Len(net) - 1)
      /\ \A i \in 1..(Len(net) - 1) : net'[i] = net[i + 1]
  BY <1>2, <1>3, TailPlaces
<1> HIDE DEF p
<1>5. Shapes'
  BY <1>1, <1>3, <1>4 DEF StreamInv, Shapes
<1>6. IsSent(p) /\ \A i \in DOMAIN net' : IsSent(net'[i])
  <2>1. IsSent(net[1])
    BY <1>4 DEF StreamInv, Held
  <2>2. ASSUME NEW i \in DOMAIN net' PROVE IsSent(net'[i])
    <3>1. i + 1 \in DOMAIN net /\ net'[i] = net[i + 1]
      BY <1>4
    <3> QED BY <3>1 DEF StreamInv, Held
  <2> QED BY <1>4, <2>1, <2>2
<1>7. ASSUME NEW s \in Ids, NEW i \in DOMAIN file'[s]
      PROVE  file'[s][i].session = s /\ IsSent(file'[s][i])
  <2>1. CASE file'[s] = file[s]
    BY <1>7, <2>1 DEF StreamInv, Held
  <2>2. CASE s = p.session /\ file'[s] = Append(file[s], p)
    <3>1. /\ DOMAIN file'[s] = 1..(Len(file[s]) + 1) /\ DOMAIN file[s] = 1..Len(file[s])
          /\ Len(file[s]) \in Nat /\ file'[s][Len(file[s]) + 1] = p
          /\ \A j \in 1..Len(file[s]) : file'[s][j] = file[s][j]
      BY <1>2, <1>3, <2>2, AppendProperties
    <3>2. CASE i = Len(file[s]) + 1
      BY <1>6, <2>2, <3>1, <3>2
    <3>3. CASE i # Len(file[s]) + 1
      <4>1. i \in DOMAIN file[s] /\ file'[s][i] = file[s][i]
        BY <3>1, <3>3, <1>7
      <4> QED BY <4>1 DEF StreamInv, Held
    <3> QED BY <3>2, <3>3
  <2> QED BY <1>3, <2>1, <2>2
<1>8. Held'
  BY <1>1, <1>6, <1>7 DEF Held, IsSent
<1>9. Numbered' /\ Accounted'
  BY <1>1, FrameNumbered, FrameAccounted DEF StreamInv, Up
<1>10. Conserved' /\ DropsShow'
  BY <1>1 DEF StreamInv, Conserved, DropsShow, Up, Current
<1> QED BY <1>5, <1>8, <1>9, <1>10 DEF StreamInv

\* A capture that is cut off holds only what it held.
LEMMA DiesDoes ==
  ASSUME file \in [Ids -> Seq(Packet)], active \in Ids \cup {NoSession},
         \A s \in Ids : flushed[s] \in Nat, ReceiverDies
  PROVE  /\ file' \in [Ids -> Seq(Packet)]
         /\ \A s \in Ids : Members(file'[s], file[s])
         /\ \A s \in Ids \ {active} : file'[s] = file[s]
<1>1. CASE UNCHANGED file
  BY <1>1 DEF Members
<1>2. CASE active \in Ids /\ \E keep \in flushed[active]..Len(file[active]) :
              file' = [file EXCEPT ![active] = SubSeq(@, 1, keep)]
  <2>1. PICK keep \in flushed[active]..Len(file[active]) :
          file' = [file EXCEPT ![active] = SubSeq(@, 1, keep)]
    BY <1>2
  <2> DEFINE f == file[active]
             g == SubSeq(f, 1, keep)
  <2>2. f \in Seq(Packet) /\ Len(f) \in Nat /\ flushed[active] \in Nat /\ keep \in 0..Len(f)
    BY <1>2, <2>1
  <2>3. /\ g \in Seq(Packet) /\ DOMAIN g = 1..keep /\ DOMAIN f = 1..Len(f)
        /\ \A i \in 1..keep : g[i] = f[i]
    BY <2>2
  <2>4. Members(g, f)
    <3>1. ASSUME NEW i \in DOMAIN g PROVE i \in DOMAIN f /\ g[i] = f[i]
      BY <2>2, <2>3, <3>1
    <3> QED BY <3>1 DEF Members
  <2> HIDE DEF g
  <2>5. /\ file' \in [Ids -> Seq(Packet)] /\ file'[active] = g
        /\ \A s \in Ids \ {active} : file'[s] = file[s]
    BY <1>2, <2>1, <2>3 DEF g
  <2>6. ASSUME NEW s \in Ids PROVE Members(file'[s], file[s])
    <3>1. CASE s = active
      BY <2>4, <2>5, <3>1
    <3>2. CASE s # active
      BY <2>5, <3>2 DEF Members
    <3> QED BY <3>1, <3>2
  <2> QED BY <2>5, <2>6
<1> QED BY <1>1, <1>2 DEF ReceiverDies

LEMMA DiesKeeps ==
  ASSUME StreamInv, ReceiverInv, ReceiverDies
  PROVE  StreamInv'
<1>1. UNCHANGED <<session, mod, ring, dropped, made, wpc, work, out, net, sent, truth>>
  BY DEF ReceiverDies, kernel, rings
<1>2. file' \in [Ids -> Seq(Packet)] /\ \A s \in Ids : Members(file'[s], file[s])
  BY DiesDoes DEF ReceiverInv
<1>3. Shapes'
  BY <1>1, <1>2 DEF StreamInv, Shapes
<1>4. ASSUME NEW s \in Ids, NEW i \in DOMAIN file'[s]
      PROVE  file'[s][i].session = s /\ IsSent(file'[s][i])
  <2>1. PICK j \in DOMAIN file[s] : file'[s][i] = file[s][j]
    BY <1>2, <1>4 DEF Members
  <2> QED BY <2>1 DEF StreamInv, Held
<1>5. Held'
  BY <1>1, <1>4 DEF StreamInv, Held, IsSent
<1>6. Numbered' /\ Accounted'
  BY <1>1, FrameNumbered, FrameAccounted DEF StreamInv, Up
<1>7. Conserved' /\ DropsShow'
  BY <1>1 DEF StreamInv, Conserved, DropsShow, Up, Current
<1> QED BY <1>3, <1>5, <1>6, <1>7 DEF StreamInv

LEMMA QuietKeeps ==
  ASSUME StreamInv, Deadline \/ Finally \/ Upload \/ UNCHANGED vars
  PROVE  StreamInv'
<1>1. UNCHANGED <<session, mod, rings, wpc, work, out, net, sent, truth, file>>
  BY DEF Deadline, Finally, Upload, vars, kernel, receiver, history
<1>2. Shapes'
  BY <1>1 DEF StreamInv, Shapes, rings
<1>3. Numbered' /\ Held' /\ Conserved' /\ DropsShow' /\ Accounted'
  BY <1>1, Frame DEF Up
<1> QED BY <1>2, <1>3 DEF StreamInv

(***************************************************************************)
(* The receiver alone.                                                     *)
(***************************************************************************)
LEMMA ReceiverInit == Init => ReceiverInv
<1> SUFFICES ASSUME Init PROVE ReceiverInv
  OBVIOUS
<1>1. /\ session = 1 /\ net = <<>> /\ active = NoSession /\ finished = {}
      /\ file = [s \in Ids |-> <<>>] /\ flushed = [s \in Ids |-> 0]
  BY DEF Init, ExportInit
<1>2. 1 \in Ids
  BY Sizes DEF Ids
<1>3. file \in [Ids -> Seq(Packet)] /\ flushed \in [Ids -> Nat] /\ net \in Seq(Packet)
  BY <1>1
<1> QED BY <1>1, <1>2, <1>3 DEF ReceiverInv, AnnouncedIsDurable

\* What is sent is packets, so that what is under way stays packets.
LEMMA ExportShapes ==
  ASSUME StreamInv', UNCHANGED receiver, ReceiverInv
  PROVE  ReceiverInv'
BY DEF StreamInv, Shapes, receiver, ReceiverInv, AnnouncedIsDurable

LEMMA ReceiveAnnounces ==
  ASSUME ReceiverInv, Receive
  PROVE  ReceiverInv'
<1> DEFINE p == Head(net)
           s == p.session
           f == file[s]
<1>1. /\ net' = Tail(net) /\ net # <<>> /\ p \in Packet /\ s \in Ids
      /\ file' \in [Ids -> Seq(Packet)]
      /\ \/ Foreignness(p) /\ UNCHANGED <<active, finished, file, flushed>>
         \/ /\ ~Foreignness(p) /\ file'[s] = Append(f, p)
            /\ \A t \in Ids \ {s} : file'[t] = file[t]
  BY ReceiveDoes DEF ReceiverInv
<1>2. net' \in Seq(Packet) /\ session' \in Ids
  BY <1>1, TailPlaces DEF ReceiverInv, Receive, kernel
<1>3. CASE Foreignness(p) /\ UNCHANGED <<active, finished, file, flushed>>
  BY <1>2, <1>3 DEF ReceiverInv, AnnouncedIsDurable
<1>4. CASE ~Foreignness(p)
  <2>0. /\ ~Foreignness(p) /\ file'[s] = Append(f, p)
        /\ \A t \in Ids \ {s} : file'[t] = file[t]
    BY <1>1, <1>4
  <2>1. s \notin finished /\ active \in {NoSession, s}
    BY <1>4 DEF Foreignness
  <2>2. \/ active' = s /\ UNCHANGED <<finished, flushed>>
        \/ /\ p.kind = "end" /\ flushed' = [flushed EXCEPT ![s] = Len(f) + 1]
           /\ finished' = finished \cup {s} /\ active' = NoSession
    BY <1>4 DEF Receive
  <2>3. Len(f) \in Nat /\ f \in Seq(Packet)
    BY <1>1 DEF ReceiverInv
  <2> HIDE DEF p, s, f
  <2>4. NoSession \notin Ids
    BY DEF NoSession, Ids
  <2>5. CASE active' = s /\ UNCHANGED <<finished, flushed>>
    <3>1. \A t \in finished : file'[t] = file[t]
      BY <2>0, <2>1 DEF ReceiverInv
    <3> QED BY <1>1, <1>2, <2>1, <2>5, <3>1 DEF ReceiverInv, AnnouncedIsDurable
  <2>6. CASE /\ p.kind = "end" /\ flushed' = [flushed EXCEPT ![s] = Len(f) + 1]
             /\ finished' = finished \cup {s} /\ active' = NoSession
    <3>1. /\ flushed' \in [Ids -> Nat] /\ flushed'[s] = Len(f) + 1
          /\ \A t \in Ids \ {s} : flushed'[t] = flushed[t]
      BY <1>1, <2>3, <2>6 DEF ReceiverInv
    <3>2. /\ file'[s] # <<>> /\ Len(file'[s]) = Len(f) + 1
          /\ Last(file'[s]) = p
      BY <1>1, <2>0, <2>3 DEF Last
    <3>3. AnnouncedIsDurable'
      BY <2>0, <2>6, <3>1, <3>2 DEF ReceiverInv, AnnouncedIsDurable
    <3>4. active' \in Ids \cup {NoSession} /\ finished' \subseteq Ids \ {active'}
      BY <1>1, <2>4, <2>6 DEF ReceiverInv
    <3> QED BY <1>1, <1>2, <3>1, <3>3, <3>4 DEF ReceiverInv
  <2> QED BY <2>2, <2>5, <2>6
<1> QED BY <1>1, <1>3, <1>4

LEMMA ReceiverEnds ==
  ASSUME ReceiverInv, Finally \/ ReceiverDies
  PROVE  ReceiverInv'
<1>1. active' = NoSession /\ UNCHANGED <<session, net, finished>> /\ NoSession \notin Ids
  BY DEF Finally, ReceiverDies, kernel, NoSession, Ids
<1>2. CASE Finally
  <2>1. flushed' = [t \in Ids |-> Len(file[t])] /\ file' = file
    BY <1>2 DEF Finally
  <2>2. \A t \in Ids : Len(file[t]) \in Nat
    BY DEF ReceiverInv
  <2> QED BY <1>1, <2>1, <2>2 DEF ReceiverInv, AnnouncedIsDurable
<1>3. CASE ReceiverDies
  <2>1. /\ file' \in [Ids -> Seq(Packet)]
        /\ \A t \in Ids \ {active} : file'[t] = file[t]
    BY <1>3, DiesDoes DEF ReceiverInv
  <2>2. /\ flushed' \in [Ids -> Nat]
        /\ \A t \in Ids \ {active} : flushed'[t] = flushed[t]
    <3>1. CASE UNCHANGED flushed
      BY <3>1 DEF ReceiverInv
    <3>2. CASE active \in Ids /\ \E keep \in flushed[active]..Len(file[active]) :
                 flushed' = [flushed EXCEPT ![active] = keep]
      <4>1. PICK keep \in flushed[active]..Len(file[active]) :
              flushed' = [flushed EXCEPT ![active] = keep]
        BY <3>2
      <4>2. keep \in Nat
        BY <3>2, <4>1 DEF ReceiverInv
      <4> QED BY <3>2, <4>1, <4>2 DEF ReceiverInv
    <3> QED BY <1>3, <3>1, <3>2 DEF ReceiverDies, ReceiverInv
  <2> QED BY <1>1, <2>1, <2>2 DEF ReceiverInv, AnnouncedIsDurable
<1> QED BY <1>2, <1>3

LEMMA ReceiverIdle ==
  ASSUME ReceiverInv, Disturb \/ Unheard \/ Deadline \/ Upload \/ UNCHANGED vars
  PROVE  ReceiverInv'
<1>1. UNCHANGED <<session, active, finished, file, flushed>>
  BY DEF Disturb, Unheard, Deadline, Upload, vars, kernel, receiver
<1>2. net' \in Seq(Packet)
  <2>1. CASE Disturb \/ Unheard
    BY <2>1, DisturbDoes DEF ReceiverInv
  <2>2. CASE Deadline \/ Upload \/ UNCHANGED vars
    BY <2>2 DEF Deadline, Upload, vars, ReceiverInv
  <2> QED BY <2>1, <2>2
<1> QED BY <1>1, <1>2 DEF ReceiverInv, AnnouncedIsDurable

(***************************************************************************)
(* The whole session.                                                      *)
(***************************************************************************)
LEMMA StreamInit == Init => StreamInv
<1> SUFFICES ASSUME Init PROVE StreamInv
  OBVIOUS
<1>1. /\ session = 1 /\ mod = "unloaded" /\ wpc = "off" /\ work = FreshWork /\ out = FreshOut
      /\ ring = [c \in Cpus |-> <<>>] /\ dropped = [c \in Cpus |-> 0]
      /\ made = [c \in Cpus |-> 0]
      /\ net = <<>> /\ sent = [s \in Ids |-> <<>>] /\ file = [s \in Ids |-> <<>>]
      /\ truth = [s \in Ids |-> [c \in Cpus |-> 0]]
  BY DEF Init, ExportInit, NoRecords, Zero, Ids
<1>2. 1 \in Ids /\ 0 \in Cpus /\ Slots \in Nat
  BY Sizes DEF Ids, Cpus
<1>3. Shapes
  <2>1. work \in WorkType /\ out \in OutType
    BY <1>1, <1>2 DEF FreshWork, FreshOut, WorkType, OutType
  <2>2. /\ ring \in [Cpus -> Seq([id : Nat, big : BOOLEAN])]
        /\ \A c \in Cpus : Len(ring[c]) <= Slots
        /\ dropped \in [Cpus -> Nat] /\ made \in [Cpus -> Nat]
        /\ truth \in [Ids -> [Cpus -> Nat]]
    BY <1>1, <1>2
  <2>3. sent \in [Ids -> Seq(Packet)] /\ net \in Seq(Packet) /\ file \in [Ids -> Seq(Packet)]
    BY <1>1
  <2> QED BY <1>1, <1>2, <2>1, <2>2, <2>3 DEF Shapes, WorkType, OutType
<1>4. Current = <<>> /\ \A s \in Ids : sent[s] = <<>> /\ DOMAIN sent[s] = {}
  BY <1>1, <1>2 DEF Current
<1>5. Numbered
  <2>1. out.seq = Len(Current)
    BY <1>1, <1>4 DEF FreshOut
  <2> QED BY <1>4, <2>1 DEF Numbered
<1>6. Held
  BY <1>1 DEF Held
<1>7. ASSUME NEW c \in Cpus PROVE Exactly(Current, c, 0) /\ ~Quieted(Current, c)
  BY <1>4 DEF Exactly, Quieted, Of
<1>8. Conserved /\ DropsShow
  <2>1. ASSUME NEW c \in Cpus
        PROVE  Len(ring[c]) <= made[c] /\ made[c] - Len(ring[c]) = 0 /\ DOMAIN ring[c] = {}
    BY <1>1
  <2> QED BY <1>7, <2>1 DEF Conserved, DropsShow
<1>9. Accounted
  BY <1>1, <1>4 DEF Accounted
<1> QED BY <1>3, <1>5, <1>6, <1>8, <1>9 DEF StreamInv

LEMMA StreamStep == StreamInv /\ ReceiverInv /\ [Next]_vars => StreamInv' /\ ReceiverInv'
<1> SUFFICES ASSUME StreamInv, ReceiverInv, [Next]_vars PROVE StreamInv' /\ ReceiverInv'
  OBVIOUS
<1>1. CASE ExportNext /\ UNCHANGED <<receiver, uploadVars>>
  <2>1. UNCHANGED file
    BY <1>1 DEF receiver
  <2>2. StreamInv'
    BY <1>1, <2>1, EmitKeeps, SwitchKeeps, LoadKeeps, DrainStartKeeps, VisitKeeps,
       ConsumeKeeps, StatKeeps, UnloadKeeps, CountKeeps, EndKeeps, CrashKeeps, BootKeeps
       DEF ExportNext, Worker, Exit
  <2> QED BY <1>1, <2>2, ExportShapes
<1>2. CASE Disturb \/ Unheard
  BY <1>2, DisturbKeeps, ReceiverIdle
<1>3. CASE Receive
  BY <1>3, ReceiveKeeps, ReceiveAnnounces
<1>4. CASE ReceiverDies
  BY <1>4, DiesKeeps, ReceiverEnds
<1>5. CASE Finally
  BY <1>5, QuietKeeps, ReceiverEnds
<1>6. CASE Deadline \/ Upload \/ UNCHANGED vars
  BY <1>6, QuietKeeps, ReceiverIdle
<1> QED BY <1>1, <1>2, <1>3, <1>4, <1>5, <1>6 DEF Next

LEMMA StreamInvariant == Spec => [](StreamInv /\ ReceiverInv)
<1>1. Init => StreamInv /\ ReceiverInv
  BY StreamInit, ReceiverInit
<1> QED BY <1>1, StreamStep, PTL DEF Spec

\* A capture that check_stream calls complete holds every record of every CPU,
\* each once and in order, for any number of CPUs and records, whatever rings
\* overflow, whatever the network does, and whenever a machine stops.
THEOREM CompleteHoldsEverything == Spec => []CompleteMeansAll
BY StreamInvariant, InvIsEnough, PTL

\* What the receiver announced as RECEIVED_AND_FLUSHED stays whole and on the
\* disk, whatever arrives, ends or breaks afterwards.
THEOREM AnnouncementsLast == Spec => []AnnouncedIsDurable
<1>1. ReceiverInv => AnnouncedIsDurable
  BY DEF ReceiverInv
<1> QED BY <1>1, StreamInvariant, PTL

(***************************************************************************)
(* The upload of a capture that does not change any more.                  *)
(***************************************************************************)

UploadPhases == {"idle", "down", "root", "open", "recv", "judge", "receipt", "entry"}
DiskType == [dir : BOOLEAN, capture : Nat \cup {Absent},
             receipt : {"none", "torn", "match", "failed"}]

LEMMA PostKeeps ==
  ASSUME NEW length \in Nat, NEW n, UploadInv(n), posts > 0 => length = n, Post(length)
  PROVE  UploadInv(length)' /\ posts' > 0
<1>1. /\ upc = "idle" /\ posts' = posts + 1 /\ size' = length /\ UNCHANGED <<synced, durable>>
  BY DEF Post
<1>2. /\ disk \in DiskType /\ durable \in Entries /\ posts \in Nat /\ posts' \in Nat /\ posts' > 0
      /\ synced \in Nat
      /\ posts > 0 => size = length
  BY <1>1 DEF UploadInv, DiskType
<1>3. CASE disk.dir
  <2>1. told' = told \cup {"409"} /\ UNCHANGED <<upc, disk>>
    BY <1>3 DEF Post
  <2>2. "200" \in told' => "200" \in told
    BY <2>1
  <2> QED BY <1>1, <1>2, <2>1, <2>2 DEF UploadInv
<1>4. CASE ~disk.dir
  <2>1. upc' = "root" /\ disk' = [disk EXCEPT !.dir = TRUE] /\ UNCHANGED told
    BY <1>4 DEF Post
  <2>2. "200" \notin told
    BY <1>4 DEF UploadInv
  <2>3. disk' \in DiskType /\ disk'.dir
    BY <1>2, <2>1 DEF DiskType
  <2> QED BY <1>1, <1>2, <2>1, <2>2, <2>3 DEF UploadInv, DiskType
<1> QED BY <1>3, <1>4

LEMMA PowerLossKeeps ==
  ASSUME NEW n, UploadInv(n), PowerLoss
  PROVE  UploadInv(n)'
<1>1. PICK keep \in Entries :
      \E blocks \in IF disk.capture = Absent THEN {Absent} ELSE synced..disk.capture :
       LET dir == durable.dir \/ (keep.dir /\ disk.dir)
           capture == dir /\ disk.capture # Absent /\ (durable.capture \/ keep.capture)
           receipt == dir /\ disk.receipt # "none" /\ (durable.receipt \/ keep.receipt)
       IN disk' = [dir |-> dir,
                   capture |-> IF capture THEN blocks ELSE Absent,
                   receipt |-> IF receipt THEN disk.receipt ELSE "none"]
  BY DEF PowerLoss
<1> DEFINE dir == durable.dir \/ (keep.dir /\ disk.dir)
           capture == dir /\ disk.capture # Absent /\ (durable.capture \/ keep.capture)
           receipt == dir /\ disk.receipt # "none" /\ (durable.receipt \/ keep.receipt)
<1>2. PICK blocks \in IF disk.capture = Absent THEN {Absent} ELSE synced..disk.capture :
        disk' = [dir |-> dir,
                 capture |-> IF capture THEN blocks ELSE Absent,
                 receipt |-> IF receipt THEN disk.receipt ELSE "none"]
  BY <1>1
<1>3. /\ upc' = "down" /\ UNCHANGED <<size, posts, told>>
      /\ synced' = IF disk'.capture = Absent THEN 0 ELSE disk'.capture
      /\ durable' = [dir |-> disk'.dir, capture |-> disk'.capture # Absent,
                     receipt |-> disk'.receipt # "none"]
  BY DEF PowerLoss, Quiet
<1>4. /\ disk \in DiskType /\ durable \in Entries /\ posts \in Nat
      /\ synced \in Nat
      /\ posts > 0 => size = n
      /\ "200" \in told =>
           /\ posts > 0 /\ disk = [dir |-> TRUE, capture |-> size, receipt |-> "match"]
           /\ synced = size /\ durable.dir /\ durable.capture /\ durable.receipt
  BY DEF UploadInv, DiskType
<1>5. dir \in BOOLEAN /\ capture \in BOOLEAN /\ receipt \in BOOLEAN
  BY <1>4, Zenon DEF DiskType, Entries
<1>6. capture => blocks \in Nat
  BY <1>2, <1>4 DEF DiskType, Absent
<1> DEFINE held == IF capture THEN blocks ELSE Absent
           kept == IF receipt THEN disk.receipt ELSE "none"
<1>7. disk' = [dir |-> dir, capture |-> held, receipt |-> kept]
      /\ disk'.dir = dir /\ disk'.capture = held /\ disk'.receipt = kept
  BY <1>2
<1>8. held \in Nat \cup {Absent} /\ kept \in {"none", "torn", "match", "failed"}
  BY <1>4, <1>6 DEF DiskType
<1>9. ASSUME "200" \in told
      PROVE  dir = TRUE /\ held = size /\ kept = "match" /\ held # Absent /\ size \in Nat
  <2>1. /\ disk = [dir |-> TRUE, capture |-> size, receipt |-> "match"]
        /\ synced = size /\ durable.dir /\ durable.capture /\ durable.receipt
    BY <1>4, <1>9
  <2>2. disk.capture = size /\ disk.receipt = "match" /\ size \in Nat /\ size # Absent
    BY <1>4, <2>1 DEF Absent
  <2>3. dir /\ capture /\ receipt
    BY <2>1, <2>2
  <2>4. blocks = size
    BY <1>2, <2>1, <2>2
  <2> QED BY <1>5, <2>2, <2>3, <2>4
<1> HIDE DEF held, kept, dir
<1>10. disk' \in DiskType /\ durable' \in Entries /\ synced' \in Nat
  BY <1>3, <1>5, <1>7, <1>8 DEF DiskType, Entries
<1>11. ASSUME "200" \in told
       PROVE  /\ posts > 0 /\ disk' = [dir |-> TRUE, capture |-> size, receipt |-> "match"]
              /\ synced' = size /\ durable'.dir /\ durable'.capture /\ durable'.receipt
  BY <1>3, <1>4, <1>7, <1>9, <1>11
<1> QED BY <1>3, <1>4, <1>10, <1>11 DEF UploadInv, DiskType

LEMMA UploadStepKeeps ==
  ASSUME NEW n, UploadInv(n), UploadStep
  PROVE  UploadInv(n)' /\ posts' = posts
<1>1. /\ upc \in UploadPhases /\ disk \in DiskType /\ durable \in Entries /\ posts \in Nat
      /\ posts' = posts /\ size' = size
  BY DEF UploadInv, UploadPhases, DiskType, UploadStep, SyncRoot, OpenCapture, ReceiveBlock,
         SyncCapture, WriteReceipt, Acknowledge, Kill, Restart, PowerLoss, Quiet
<1>2. CASE SyncRoot
  <2>1. upc = "root" /\ upc' = "open" /\ durable' = [durable EXCEPT !.dir = TRUE]
        /\ UNCHANGED <<disk, synced, told>>
    BY <1>2 DEF SyncRoot
  <2>2. durable' \in Entries /\ durable'.dir
    BY <1>1, <2>1 DEF Entries
  <2> QED BY <1>1, <2>1, <2>2 DEF UploadInv
<1>3. CASE OpenCapture
  <2>1. upc = "open" /\ upc' = "recv" /\ disk' = [disk EXCEPT !.capture = 0]
        /\ UNCHANGED <<synced, durable, told>>
    BY <1>3 DEF OpenCapture
  <2>2. disk' \in DiskType /\ disk'.dir = disk.dir /\ disk'.capture # Absent
    BY <1>1, <2>1 DEF DiskType, Absent
  <2> QED BY <1>1, <2>1, <2>2 DEF UploadInv, DiskType
<1>4. CASE ReceiveBlock
  <2>1. upc = "recv" /\ disk.capture < size /\ disk' = [disk EXCEPT !.capture = @ + 1]
        /\ UNCHANGED <<upc, synced, durable, told>>
    BY <1>4 DEF ReceiveBlock
  <2>2. disk.capture \in Nat
    BY <1>1, <2>1 DEF UploadInv, DiskType
  <2>3. disk' \in DiskType /\ disk'.dir = disk.dir /\ disk'.capture # Absent
    BY <1>1, <2>1, <2>2 DEF DiskType, Absent
  <2> QED BY <1>1, <2>1, <2>3 DEF UploadInv, DiskType
<1>5. CASE SyncCapture
  BY <1>1, <1>5 DEF SyncCapture, UploadInv
<1>6. CASE WriteReceipt
  <2>1. CASE /\ upc = "judge" /\ upc' = "receipt" /\ disk' = [disk EXCEPT !.receipt = "torn"]
             /\ UNCHANGED <<synced, durable, told>>
    <3>1. disk' \in DiskType /\ disk'.dir = disk.dir /\ disk'.capture = disk.capture
      BY <1>1, <2>1 DEF DiskType
    <3> QED BY <1>1, <2>1, <3>1 DEF UploadInv, DiskType
  <2>2. CASE /\ upc = "receipt" /\ upc' = "entry" /\ disk' = [disk EXCEPT !.receipt = Judged]
             /\ UNCHANGED <<synced, durable, told>>
    <3>1. /\ disk' \in DiskType /\ disk'.dir = disk.dir /\ disk'.capture = disk.capture
          /\ disk'.receipt = "match" => disk.capture = size
      BY <1>1, <2>2 DEF DiskType, Judged
    <3> QED BY <1>1, <2>2, <3>1 DEF UploadInv, DiskType
  <2> QED BY <1>6, <2>1, <2>2 DEF WriteReceipt
<1>7. CASE Acknowledge
  <2>1. /\ upc = "entry" /\ upc' = "idle"
        /\ durable' = [durable EXCEPT !.capture = TRUE, !.receipt = TRUE]
        /\ told' = told \cup {IF disk.receipt = "match" THEN "200" ELSE "422"}
        /\ UNCHANGED <<disk, synced>>
    BY <1>7 DEF Acknowledge
  <2>2. posts > 0 /\ disk.dir /\ "200" \notin told /\ durable.dir /\ synced = disk.capture
        /\ (disk.receipt = "match" => disk.capture = size)
    BY <2>1 DEF UploadInv
  <2>3. durable' \in Entries /\ durable'.dir /\ durable'.capture /\ durable'.receipt
    BY <1>1, <2>1, <2>2 DEF Entries
  <2>4. CASE disk.receipt = "match"
    <3>1. disk = [dir |-> TRUE, capture |-> size, receipt |-> "match"]
      BY <1>1, <2>2, <2>4 DEF DiskType
    <3> QED BY <1>1, <2>1, <2>2, <2>3, <3>1 DEF UploadInv, DiskType
  <2>5. CASE disk.receipt # "match"
    <3>1. "200" \notin told'
      BY <2>1, <2>2, <2>5
    <3> QED BY <1>1, <2>1, <2>3, <3>1 DEF UploadInv, DiskType
  <2> QED BY <2>4, <2>5
<1>8. CASE Kill \/ Restart
  BY <1>1, <1>8 DEF Kill, Restart, UploadInv
<1>9. CASE PowerLoss
  BY <1>1, <1>9, PowerLossKeeps
<1> QED BY <1>2, <1>3, <1>4, <1>5, <1>6, <1>7, <1>8, <1>9 DEF UploadStep

LEMMA BlocksAreCounted ==
  ASSUME NEW f \in Seq(Packet), f # <<>>
  PROVE  Blocks(f) \in Nat
<1>1. Len(f) \in Nat /\ Len(f) # 0
  BY EmptySeq
<1>2. BlockPackets \in Nat \ {0}
  BY StreamAssumption
<1>3. Len(f) + BlockPackets - 1 \in Nat
  BY <1>1, <1>2
<1> QED BY <1>2, <1>3 DEF Blocks

LEMMA HandOverInit == Init => HandedOver
<1> SUFFICES ASSUME Init PROVE HandedOver
  OBVIOUS
<1>1. /\ upc = "idle" /\ size = 0 /\ told = {} /\ posts = 0 /\ synced = 0
      /\ disk = [dir |-> FALSE, capture |-> Absent, receipt |-> "none"]
      /\ durable = [dir |-> FALSE, capture |-> FALSE, receipt |-> FALSE]
  BY DEF Init, UploadInit
<1> QED BY <1>1 DEF HandedOver, UploadInv, Entries

LEMMA HandOverStep == HandedOver /\ ReceiverInv /\ [Next]_vars => HandedOver'
<1> SUFFICES ASSUME HandedOver, ReceiverInv, [Next]_vars PROVE HandedOver'
  OBVIOUS
<1>0. posts \in Nat /\ 1 \in Ids /\ file[1] \in Seq(Packet)
  BY Sizes DEF HandedOver, UploadInv, ReceiverInv, Ids
\* Before the first upload the size of the capture does not matter.
<1>1. ASSUME NEW m, posts = 0 PROVE UploadInv(m)
  BY <1>1 DEF HandedOver, UploadInv
<1>2. CASE UNCHANGED uploadVars /\ posts = 0
  <2>1. PICK m : m = Blocks(file'[1])
    OBVIOUS
  <2>2. UploadInv(m)'
    BY <1>1, <1>2 DEF UploadInv, uploadVars
  <2> QED BY <1>2, <2>1, <2>2 DEF HandedOver, uploadVars
<1>3. CASE UNCHANGED <<uploadVars, file>> /\ (rpc \in {"closed", "dead"} => rpc' \in {"closed", "dead"})
  BY <1>3 DEF HandedOver, UploadInv, uploadVars, Blocks
<1>4. CASE Receive \/ ReceiverDies
  <2>1. rpc \in {"recv", "stopped"} /\ UNCHANGED uploadVars
    BY <1>4 DEF Receive, ReceiverDies
  <2>2. posts = 0
    BY <1>0, <2>1 DEF HandedOver
  <2> QED BY <1>2, <2>1, <2>2
<1>5. CASE ExportNext /\ UNCHANGED <<receiver, uploadVars>>
  BY <1>3, <1>5 DEF receiver
<1>6. CASE Disturb \/ Unheard \/ Deadline \/ Finally \/ UNCHANGED vars
  BY <1>3, <1>6 DEF Disturb, Unheard, Deadline, Finally, receiver, vars
<1>7. CASE Upload
  <2>1. UNCHANGED <<file, rpc>> /\ Blocks(file[1])' = Blocks(file[1])
    BY <1>7 DEF Upload, receiver, Blocks
  <2>2. PICK m : m = Blocks(file[1])
    OBVIOUS
  <2>3. UploadInv(m)
    BY <2>2 DEF HandedOver
  <2>4. CASE rpc \in {"closed", "dead"} /\ file[1] # <<>> /\ Post(Blocks(file[1]))
    <3>1. m \in Nat
      BY <1>0, <2>2, <2>4, BlocksAreCounted
    <3>2. UploadInv(m)'
      BY <2>2, <2>3, <2>4, <3>1, PostKeeps
    <3> QED BY <2>1, <2>2, <2>4, <3>2 DEF HandedOver
  <2>5. CASE UploadStep
    <3>1. UploadInv(m)' /\ posts' = posts
      BY <2>3, <2>5, UploadStepKeeps
    <3> QED BY <2>1, <2>2, <3>1 DEF HandedOver
  <2> QED BY <1>7, <2>4, <2>5 DEF Upload
<1> QED BY <1>4, <1>5, <1>6, <1>7 DEF Next

\* A peer that was told 200 has the whole capture and its receipt on the disk
\* of the service for good, for captures of any length and any number of
\* uploads, kills, restarts and losses of power.
THEOREM AcknowledgedUploadsAreKept == Spec => []UploadIsKept
<1>1. Init => HandedOver
  BY HandOverInit
<1>2. HandedOver => UploadIsKept
  <2> SUFFICES ASSUME HandedOver PROVE UploadIsKept
    OBVIOUS
  <2>1. PICK m : m = Blocks(file[1])
    OBVIOUS
  <2>2. UploadInv(m)
    BY <2>1 DEF HandedOver
  <2> QED BY <2>1, <2>2 DEF UploadIsKept, AcknowledgedIsKept, UploadInv
<1> QED BY <1>1, <1>2, HandOverStep, StreamInvariant, PTL DEF Spec

(***************************************************************************)
(* What a clean session sends.                                             *)
(***************************************************************************)
LEMMA SettledStays ==
  ASSUME NEW f \in Seq(Packet), NEW p \in Packet, NEW c, SettledOn(f, c),
         ~(p.kind \in {"stats", "event"} /\ p.cpu = c)
  PROVE  SettledOn(Append(f, p), c)
<1>1. /\ Of(f, "stats", c) \subseteq 1..Len(f) /\ \A i \in 1..Len(f) : Append(f, p)[i] = f[i]
      /\ Of(Append(f, p), "stats", c) = Of(f, "stats", c)
  BY OfAppend
<1>2. Of(Append(f, p), "event", c) = Of(f, "event", c)
  BY OfAppend
<1> QED BY <1>1, <1>2 DEF SettledOn

LEMMA SettledNow ==
  ASSUME NEW f \in Seq(Packet), NEW p \in Packet, NEW c,
         p.kind = "stats", p.cpu = c, p.b = 0
  PROVE  SettledOn(Append(f, p), c)
<1>0. Of(f, "stats", c) \subseteq 1..Len(f) /\ Append(f, p)[Len(f) + 1] = p
  BY OfAppend
<1>1. Of(Append(f, p), "stats", c) = Of(f, "stats", c) \cup {Len(f) + 1}
  BY OfAppend
<1>2. Of(f, "event", c) \subseteq 1..Len(f) /\ Of(Append(f, p), "event", c) = Of(f, "event", c)
  BY OfAppend
<1>3. Len(f) \in Nat
  OBVIOUS
<1> QED BY <1>0, <1>1, <1>2, <1>3 DEF SettledOn

LEMMA FineAppend ==
  ASSUME NEW f \in Seq(Packet), NEW p \in Packet, Fine(f), ~p.loss,
         \A i \in DOMAIN f : f[i].kind # "end",
         p.kind = "begin" <=> f = <<>>,
         p.kind = "stats" => p.a = 0,
         p.kind = "end" => p.a = 0 /\ p.b = 0 /\ Settled(f)
  PROVE  Fine(Append(f, p))
<1> DEFINE g == Append(f, p)
<1>1. /\ Len(f) \in Nat /\ DOMAIN f = 1..Len(f) /\ DOMAIN g = 1..(Len(f) + 1)
      /\ \A i \in 1..Len(f) : g[i] = f[i]
      /\ g[Len(f) + 1] = p
  BY AppendProperties
<1>2. p.kind = "end" => Settled(g)
  <2>1. ASSUME p.kind = "end", NEW c \in Cpus PROVE SettledOn(g, c)
    <3>1. SettledOn(f, c)
      BY <2>1 DEF Settled
    <3> QED BY <2>1, <3>1, SettledStays
  <2> QED BY <2>1 DEF Settled
<1>3. f = <<>> <=> Len(f) = 0
  BY EmptySeq
<1> HIDE DEF g
<1>4. ASSUME NEW i \in DOMAIN g
      PROVE  /\ g[i].kind = "begin" <=> i = 1
             /\ ~g[i].loss /\ (g[i].kind = "stats" => g[i].a = 0)
             /\ g[i].kind = "end" => g[i].a = 0 /\ g[i].b = 0 /\ Settled(g)
  <2>1. CASE i \in 1..Len(f)
    BY <1>1, <2>1 DEF Fine
  <2>2. CASE i = Len(f) + 1
    BY <1>1, <1>2, <1>3, <2>2
  <2> QED BY <1>1, <2>1, <2>2
<1> QED BY <1>4 DEF Fine, g

\* No session becomes clean again.
Cleaner == clean' \in [Ids -> BOOLEAN] /\ \A s \in Ids : clean'[s] => clean[s]

LEMMA Spoils ==
  ASSUME clean \in [Ids -> BOOLEAN], session \in Ids, NEW p, SpoilIf(p)
  PROVE  Cleaner /\ (clean'[session] => clean[session] /\ ~p)
<1>1. clean' = [clean EXCEPT ![session] = @ /\ ~p]
  BY DEF SpoilIf
<1>2. (clean[session] /\ ~p) \in BOOLEAN
  BY Zenon
<1>3. /\ clean' \in [Ids -> BOOLEAN] /\ clean'[session] = (clean[session] /\ ~p)
      /\ \A s \in Ids : s # session => clean'[s] = clean[s]
  BY <1>1, <1>2
<1> QED BY <1>3 DEF Cleaner

LEMMA SpoilsNow ==
  ASSUME clean \in [Ids -> BOOLEAN], session \in Ids, Spoil
  PROVE  Cleaner /\ ~clean'[session]
BY DEF Spoil, Cleaner

LEMMA ExportCleaner ==
  ASSUME clean \in [Ids -> BOOLEAN], session \in Ids, ExportNext
  PROVE  Cleaner
<1>1. ASSUME NEW p, SpoilIf(p) PROVE Cleaner
  BY <1>1, Spoils
<1>2. ASSUME Spoil PROVE Cleaner
  BY <1>2, SpoilsNow
<1>3. ASSUME UNCHANGED clean PROVE Cleaner
  BY <1>3 DEF Cleaner
<1>4. CASE Emit \/ Toggle \/ Foreign \/ Invalidate \/ Load
  BY <1>1, <1>2, <1>3, <1>4 DEF Emit, Toggle, Foreign, Invalidate, Load
<1>5. CASE DrainStart \/ Break \/ NextRing \/ EmptyRing \/ Consume
  BY <1>1, <1>3, <1>5 DEF DrainStart, Break, NextRing, EmptyRing, Consume, history
<1>6. CASE DrainStat \/ FinalStat
  BY <1>1, <1>6 DEF DrainStat, FinalStat, Stat
<1>7. CASE Unload \/ Cancel \/ Count \/ End \/ Crash \/ Boot
  BY <1>1, <1>3, <1>7 DEF Unload, Cancel, Count, End, Crash, Boot, history
<1> QED BY <1>4, <1>5, <1>6, <1>7 DEF ExportNext, Worker, Exit

LEMMA SpotlessSame ==
  ASSUME Spotless, Cleaner, UNCHANGED sent
  PROVE  Spotless'
BY DEF Spotless, Cleaner, Fine, Settled, SettledOn, Of

\* A packet of a tidy session.
LEMMA TransmitSpotless ==
  ASSUME StreamInv, Spotless, Cleaner, NEW p \in Packet, Transmit(p), Up,
         clean'[session] =>
           /\ ~p.loss
           /\ p.kind = "begin" <=> Current = <<>>
           /\ p.kind = "stats" => p.a = 0
           /\ p.kind = "end" => p.a = 0 /\ p.b = 0 /\ Settled(Current)
  PROVE  Spotless'
<1>1. /\ session \in Ids /\ Current \in Seq(Packet)
      /\ sent'[session] = Append(Current, p)
      /\ \A s \in Ids : s # session => sent'[s] = sent[s]
  BY TransmitDoes DEF StreamInv
<1>2. \A i \in DOMAIN Current : Current[i].kind # "end"
  BY <1>1 DEF StreamInv, Numbered, Current
<1>3. ASSUME NEW s \in Ids, clean'[s] PROVE Fine(sent'[s])
  <2>1. clean[s] /\ Fine(sent[s])
    BY <1>3 DEF Cleaner, Spotless
  <2>2. CASE s # session
    BY <1>1, <2>1, <2>2
  <2>3. CASE s = session
    <3>1. Fine(Append(Current, p))
      BY <1>1, <1>2, <1>3, <2>1, <2>3, FineAppend DEF Current
    <3> QED BY <1>1, <2>3, <3>1
  <2> QED BY <2>2, <2>3
<1>4. ASSUME NEW s \in Ids, Fine(sent'[s]) PROVE Fine(sent[s])'
  BY <1>4 DEF Fine, Settled, SettledOn, Of
<1> QED BY <1>3, <1>4 DEF Spotless

(***************************************************************************)
(* What is under way continues the capture.                                *)
(***************************************************************************)
LEMMA CarriedSame ==
  ASSUME Carried, Cleaner, UNCHANGED <<sent, net, file, finished>>, rpc' = "recv" => rpc = "recv"
  PROVE  Carried'
BY DEF Carried, Cleaner, Continues, Under

LEMMA AnnouncedIsOver ==
  ASSUME StreamInv, ReceiverInv, NEW s \in finished
  PROVE  ~(s = session /\ Up) /\ s \in Ids
<1>1. s \in Ids /\ file[s] # <<>> /\ Last(file[s]).kind = "end" /\ file[s] \in Seq(Packet)
  BY DEF ReceiverInv, AnnouncedIsDurable
<1>2. Len(file[s]) \in DOMAIN file[s] /\ Last(file[s]) = file[s][Len(file[s])]
  BY <1>1 DEF Last
<1>3. PICK p : p = Last(file[s])
  OBVIOUS
<1>4. p.session = s /\ IsSent(p) /\ p.kind = "end"
  BY <1>1, <1>2, <1>3 DEF StreamInv, Held
<1>5. PICK i \in DOMAIN sent[s] : sent[s][i].kind = "end"
  BY <1>4 DEF IsSent
<1> QED BY <1>1, <1>5 DEF StreamInv, Numbered

LEMMA TransmitCarried ==
  ASSUME StreamInv, ReceiverInv, Carried, Cleaner, NEW p \in Packet, Transmit(p), Up,
         p.session = session, p.seq = Len(Current), UNCHANGED receiver
  PROVE  Carried'
<1>1. /\ session \in Ids /\ Current \in Seq(Packet)
      /\ sent'[session] = Append(Current, p)
      /\ \A s \in Ids : s # session => sent'[s] = sent[s]
      /\ net'[Len(net) + 1] = p /\ \A i \in DOMAIN net : net'[i] = net[i]
      /\ DOMAIN net' = 1..(Len(net) + 1) /\ DOMAIN net = 1..Len(net) /\ Len(net) \in Nat
  BY TransmitDoes DEF StreamInv
<1>2. UNCHANGED <<rpc, finished, file>>
  BY DEF receiver
<1>3. ASSUME NEW s \in Ids, clean'[s], s \in finished PROVE file[s] = sent'[s]
  <2>1. s # session
    BY <1>3, AnnouncedIsOver
  <2> QED BY <1>1, <1>3, <2>1 DEF Carried, Cleaner
<1>4. ASSUME NEW s \in Ids, clean'[s], s \notin finished, rpc = "recv"
      PROVE  /\ \A i \in DOMAIN file[s] : i \in DOMAIN sent'[s] /\ file[s][i] = sent'[s][i]
             /\ {net'[i].seq : i \in Under(s)'} = Len(file[s])..(Len(sent'[s]) - 1)
             /\ \A i, j \in Under(s)' : i < j => net'[i].seq < net'[j].seq
  <2>1. Continues(s)
    BY <1>4 DEF Carried, Cleaner
  <2>2. Under(s) \subseteq DOMAIN net
    BY DEF Under
  <2>3. CASE s # session
    <3>1. Under(s)' = Under(s)
      BY <1>1, <2>3 DEF Under
    <3>2. \A i \in Under(s) : net'[i] = net[i]
      BY <1>1, <2>2
    <3>3. {net'[i].seq : i \in Under(s)} = {net[i].seq : i \in Under(s)}
      BY <3>2
    <3> QED BY <1>1, <2>1, <2>3, <3>1, <3>2, <3>3 DEF Continues
  <2>4. CASE s = session
    <3> DEFINE n == Len(Current)
               k == Len(file[s])
    <3>1. Under(s)' = Under(s) \cup {Len(net) + 1}
      BY <1>1, <2>4 DEF Under
    <3>2. /\ DOMAIN sent'[s] = 1..(n + 1) /\ DOMAIN sent[s] = 1..n /\ n \in Nat
          /\ Len(sent'[s]) = n + 1 /\ \A i \in 1..n : sent'[s][i] = sent[s][i]
      <4>1. /\ DOMAIN Append(Current, p) = 1..(n + 1) /\ DOMAIN Current = 1..n /\ n \in Nat
            /\ Len(Append(Current, p)) = n + 1
            /\ \A i \in 1..n : Append(Current, p)[i] = Current[i]
        BY <1>1, AppendProperties
      <4>2. sent'[s] = Append(Current, p) /\ sent[s] = Current
        BY <1>1, <2>4 DEF Current
      <4> HIDE DEF n
      <4> QED BY <4>1, <4>2
    <3>3. k \in Nat /\ DOMAIN file[s] = 1..k
      BY DEF StreamInv, Shapes
    <3>4. /\ \A i \in 1..k : i \in 1..n /\ file[s][i] = sent[s][i]
          /\ {net[i].seq : i \in Under(s)} = k..(n - 1)
          /\ \A i, j \in Under(s) : i < j => net[i].seq < net[j].seq
      BY <2>1, <2>4, <3>2, <3>3 DEF Continues, Current
    <3> HIDE DEF n, k
    <3>5. k <= n
      <4>1. k = 0 \/ k \in 1..k
        BY <3>3
      <4> QED BY <3>2, <3>3, <3>4, <4>1
    <3>6. net'[Len(net) + 1].seq = n
      BY <1>1 DEF n
    <3>7. \A i \in Under(s) : net'[i] = net[i] /\ net[i].seq \in k..(n - 1)
      BY <1>1, <2>2, <3>4
    <3>8. {net'[i].seq : i \in Under(s)'} = k..n
      <4>1. \A i \in Under(s)' : net'[i].seq \in k..n
        BY <3>1, <3>2, <3>3, <3>5, <3>6, <3>7
      <4>2. ASSUME NEW x \in k..n PROVE \E i \in Under(s)' : net'[i].seq = x
        <5>1. CASE x = n
          BY <3>1, <3>6, <5>1
        <5>2. CASE x # n
          <6>1. x \in k..(n - 1)
            BY <3>2, <3>3, <5>2
          <6>2. PICK i \in Under(s) : net[i].seq = x
            BY <3>4, <6>1
          <6> QED BY <3>1, <3>7, <6>2
        <5> QED BY <5>1, <5>2
      <4> QED BY <4>1, <4>2
    <3>9. \A i, j \in Under(s)' : i < j => net'[i].seq < net'[j].seq
      <4> SUFFICES ASSUME NEW i \in Under(s)', NEW j \in Under(s)', i < j
                   PROVE  net'[i].seq < net'[j].seq
        OBVIOUS
      <4>1. i \in Under(s)
        BY <1>1, <2>2, <3>1
      <4>2. CASE j \in Under(s)
        BY <3>4, <3>7, <4>1, <4>2
      <4>3. CASE j = Len(net) + 1
        BY <3>2, <3>3, <3>6, <3>7, <4>1, <4>3
      <4> QED BY <3>1, <4>2, <4>3
    <3>10. \A i \in DOMAIN file[s] : i \in DOMAIN sent'[s] /\ file[s][i] = sent'[s][i]
      BY <3>2, <3>3, <3>4
    <3>11. Len(sent'[s]) - 1 = n
      BY <3>2
    <3> QED BY <3>8, <3>9, <3>10, <3>11 DEF k
  <2> QED BY <2>3, <2>4
<1> QED BY <1>2, <1>3, <1>4 DEF Carried, Continues

\* The packets of a session that are moved together continue its capture.
LEMMA ShiftContinues ==
  ASSUME net \in Seq(Packet), net' \in Seq(Packet), NEW s \in Ids, Continues(s), NEW d \in Int,
         UNCHANGED sent, file'[s] = file[s],
         \A i \in Under(s)' : i - d \in Under(s) /\ net'[i] = net[i - d],
         \A j \in Under(s) : j + d \in Under(s)'
  PROVE  Continues(s)'
<1>1. /\ Under(s) \subseteq DOMAIN net /\ DOMAIN net = 1..Len(net) /\ Len(net) \in Nat
      /\ Under(s)' \subseteq DOMAIN net' /\ DOMAIN net' = 1..Len(net') /\ Len(net') \in Nat
  BY DEF Under
<1>2. \A j \in Under(s) : net'[j + d] = net[j]
  <2> SUFFICES ASSUME NEW j \in Under(s) PROVE net'[j + d] = net[j]
    OBVIOUS
  <2>1. (j + d) - d = j
    BY <1>1
  <2> QED BY <2>1
<1>3. {net'[i].seq : i \in Under(s)'} = {net[j].seq : j \in Under(s)}
  BY <1>2
<1>4. \A i, j \in Under(s)' : i < j => net'[i].seq < net'[j].seq
  <2> SUFFICES ASSUME NEW i \in Under(s)', NEW j \in Under(s)', i < j
               PROVE  net'[i].seq < net'[j].seq
    OBVIOUS
  <2>1. i - d < j - d
    BY <1>1
  <2>2. net[i - d].seq < net[j - d].seq
    BY <2>1 DEF Continues
  <2> QED BY <2>2
<1>5. /\ \A i \in DOMAIN file'[s] : i \in DOMAIN sent'[s] /\ file'[s][i] = sent'[s][i]
      /\ {net'[i].seq : i \in Under(s)'} = Len(file'[s])..(Len(sent'[s]) - 1)
  BY <1>3 DEF Continues
<1> QED BY <1>4, <1>5 DEF Continues

LEMMA TidySame ==
  ASSUME Tidy, session \in Ids, Cleaner,
         UNCHANGED <<session, mod, enabled, owned, semantic, ring, dropped, wpc, work, out, sent>>
  PROVE  Tidy'
<1>1. clean'[session] => clean[session]
  BY DEF Cleaner
<1> QED BY <1>1 DEF Tidy, Up, Current, Settled, SettledOn, Of

\* What a disturbance does to the packets of the other sessions.
LEMMA DisturbCarries ==
  ASSUME StreamInv, CleanInv, Disturb
  PROVE  CleanInv'
<1> DEFINE h == Head(net).session
<1>1. /\ net # <<>> /\ net \in Seq(Packet) /\ clean' = [clean EXCEPT ![h] = FALSE]
      /\ UNCHANGED <<sent, file, finished, rpc>>
  BY DEF Disturb, kernel, receiver, StreamInv, Shapes
<1>2. /\ Tail(net) \in Seq(Packet) /\ Head(net) \in Packet /\ Len(net) \in Nat \ {0}
      /\ Head(net) = net[1] /\ DOMAIN net = 1..Len(net) /\ DOMAIN Tail(net) = 1..(Len(net) - 1)
      /\ \A i \in 1..(Len(net) - 1) : Tail(net)[i] = net[i + 1]
  BY <1>1, TailPlaces
<1>3. h \in Ids
  BY <1>2, PacketFields
<1> HIDE DEF h
<1>4. Cleaner /\ ~clean'[h]
  BY <1>1, <1>3 DEF Cleaner, CleanInv
<1>5. net' \in Seq(Packet)
  BY <1>1, DisturbDoes
<1>6. ASSUME NEW s \in Ids, s # h, Continues(s) PROVE Continues(s)'
  <2>1. 1 \notin Under(s) /\ Under(s) \subseteq 1..Len(net) /\ \A i \in 1..Len(net) : i \in Under(s) <=> net[i].session = s
    BY <1>2, <1>6 DEF Under, h
  <2>2. CASE net' = Tail(net)
    <3>1. ASSUME NEW i \in Under(s)' PROVE i - (-1) \in Under(s) /\ net'[i] = net[i - (-1)]
      <4>1. i \in 1..(Len(net) - 1) /\ net'[i].session = s
        BY <1>2, <2>2, <3>1 DEF Under
      <4>2. i - (-1) = i + 1 /\ i + 1 \in 1..Len(net) /\ net'[i] = net[i + 1]
        BY <1>2, <2>2, <4>1
      <4> QED BY <2>1, <4>1, <4>2
    <3>2. ASSUME NEW j \in Under(s) PROVE j + (-1) \in Under(s)'
      <4>1. j + (-1) \in 1..(Len(net) - 1) /\ (j + (-1)) + 1 = j
        BY <1>2, <2>1
      <4>2. net'[j + (-1)] = net[j]
        BY <1>2, <2>2, <4>1
      <4> QED BY <1>2, <2>1, <2>2, <4>1, <4>2 DEF Under
    <3>3. -1 \in Int
      OBVIOUS
    <3> QED BY <1>1, <1>5, <1>6, <3>1, <3>2, <3>3, ShiftContinues
  <2>3. CASE net' = <<Head(net)>> \o net
    <3>1. /\ DOMAIN net' = 1..(Len(net) + 1)
          /\ net'[1] = net[1] /\ \A i \in 2..(Len(net) + 1) : net'[i] = net[i - 1]
      BY <1>2, <2>3
    <3>2. net[1].session # s
      BY <1>2, <1>6 DEF h
    <3>3. ASSUME NEW i \in Under(s)' PROVE i - 1 \in Under(s) /\ net'[i] = net[i - 1]
      <4>1. i \in 1..(Len(net) + 1) /\ net'[i].session = s
        BY <3>1, <3>3 DEF Under
      <4>2. i # 1
        BY <3>1, <3>2, <4>1
      <4>3. i \in 2..(Len(net) + 1) /\ i - 1 \in 1..Len(net)
        BY <1>2, <4>1, <4>2
      <4> QED BY <2>1, <3>1, <4>1, <4>3
    <3>4. ASSUME NEW j \in Under(s) PROVE j + 1 \in Under(s)'
      <4>1. j + 1 \in 2..(Len(net) + 1) /\ (j + 1) - 1 = j /\ net[j].session = s
        BY <1>2, <2>1
      <4>2. net'[j + 1] = net[j] /\ j + 1 \in DOMAIN net'
        BY <1>2, <3>1, <4>1
      <4> QED BY <4>1, <4>2 DEF Under
    <3>5. 1 \in Int
      OBVIOUS
    <3> QED BY <1>1, <1>5, <1>6, <3>3, <3>4, <3>5, ShiftContinues
  <2>4. CASE /\ Len(net) > 1 /\ Head(net).session = net[2].session
             /\ net' = <<net[2], net[1]>> \o SubSeq(net, 3, Len(net))
    <3>1. /\ DOMAIN net' = 1..Len(net) /\ net'[1] = net[2] /\ net'[2] = net[1]
          /\ \A i \in 3..Len(net) : net'[i] = net[i]
      <4> DEFINE rest == SubSeq(net, 3, Len(net))
                 two == <<net[2], net[1]>>
      <4>1. rest \in Seq(Packet) /\ Len(rest) = Len(net) - 2
            /\ \A i \in 1..(Len(net) - 2) : rest[i] = net[i + 2]
        BY <1>2, <2>4
      <4>2. net[1] \in Packet /\ net[2] \in Packet
        BY <1>1, <1>2, <2>4
      <4>3. two \in Seq(Packet) /\ Len(two) = 2 /\ two[1] = net[2] /\ two[2] = net[1]
        BY <4>2
      <4>4. net' = two \o rest
        BY <2>4
      <4> HIDE DEF rest, two
      <4>5. /\ DOMAIN net' = 1..Len(net)
            /\ net'[1] = two[1] /\ net'[2] = two[2]
            /\ \A i \in 3..Len(net) : net'[i] = rest[i - 2]
        BY <1>2, <2>4, <4>1, <4>3, <4>4
      <4>6. ASSUME NEW i \in 3..Len(net) PROVE net'[i] = net[i]
        <5>1. i - 2 \in 1..(Len(net) - 2) /\ (i - 2) + 2 = i
          BY <1>2
        <5> QED BY <4>1, <4>5, <5>1
      <4> QED BY <4>3, <4>5, <4>6
    <3>2. net[1].session # s /\ net[2].session # s
      BY <1>2, <1>6, <2>4 DEF h
    <3>3. ASSUME NEW i \in Under(s)' PROVE i - 0 \in Under(s) /\ net'[i] = net[i - 0]
      <4>1. i \in 1..Len(net) /\ net'[i].session = s
        BY <3>1, <3>3 DEF Under
      <4>2. i # 1 /\ i # 2
        BY <3>1, <3>2, <4>1
      <4>3. i \in 3..Len(net) /\ i - 0 = i
        BY <1>2, <4>1, <4>2
      <4> QED BY <2>1, <3>1, <4>1, <4>3
    <3>4. ASSUME NEW j \in Under(s) PROVE j + 0 \in Under(s)'
      <4>1. j \in 1..Len(net) /\ net[j].session = s /\ j # 1 /\ j # 2 /\ j + 0 = j
        BY <2>1, <3>2, <1>2
      <4>2. j \in 3..Len(net) /\ net'[j] = net[j] /\ j \in DOMAIN net'
        BY <1>2, <3>1, <4>1
      <4> QED BY <4>1, <4>2 DEF Under
    <3>5. 0 \in Int
      OBVIOUS
    <3> QED BY <1>1, <1>5, <1>6, <3>3, <3>4, <3>5, ShiftContinues
  <2> QED BY <2>2, <2>3, <2>4 DEF Disturb
<1>7. Carried'
  <2>1. ASSUME NEW s \in Ids, clean'[s], s \notin finished', rpc' = "recv" PROVE Continues(s)'
    <3>1. s # h /\ clean[s]
      BY <1>4, <2>1 DEF Cleaner
    <3> QED BY <1>1, <1>6, <2>1, <3>1 DEF CleanInv, Carried
  <2>2. ASSUME NEW s \in Ids, clean'[s], s \in finished' PROVE file'[s] = sent'[s]
    BY <1>1, <1>4, <2>2 DEF CleanInv, Carried, Cleaner
  <2> QED BY <2>1, <2>2 DEF Carried
<1>8. Spotless'
  BY <1>1, <1>4, SpotlessSame DEF CleanInv
<1>9. Tidy'
  <2>1. UNCHANGED <<session, mod, enabled, owned, semantic, ring, dropped, wpc, work, out, sent>>
    BY DEF Disturb, kernel, rings, switches
  <2> QED BY <1>4, <2>1, TidySame DEF CleanInv, StreamInv, Shapes
<1> QED BY <1>4, <1>7, <1>8, <1>9 DEF CleanInv, Cleaner

\* The ends of the receiver: only what was announced stays clean.
LEMMA EndsCarry ==
  ASSUME StreamInv, ReceiverInv, CleanInv,
         Unheard \/ Deadline \/ Finally \/ ReceiverDies \/ Upload \/ UNCHANGED vars
  PROVE  CleanInv'
<1>1. /\ UNCHANGED <<session, mod, enabled, owned, semantic, ring, dropped, wpc, work, out, sent>>
      /\ UNCHANGED finished
  BY DEF Unheard, Deadline, Finally, ReceiverDies, Upload, vars, kernel, rings, switches, receiver
<1>2. session \in Ids /\ clean \in [Ids -> BOOLEAN]
  BY DEF StreamInv, Shapes, CleanInv
<1>3. Cleaner
  <2>1. CASE UNCHANGED clean
    BY <1>2, <2>1 DEF Cleaner
  <2>2. CASE \E W : clean' = [s \in Ids |-> clean[s] /\ s \in W]
    <3>1. PICK W : clean' = [s \in Ids |-> clean[s] /\ s \in W]
      BY <2>2
    <3>2. ASSUME NEW s \in Ids PROVE (clean[s] /\ s \in W) \in BOOLEAN
      BY Zenon
    <3> QED BY <3>1, <3>2 DEF Cleaner
  <2>3. CASE Unheard
    <3>1. clean' = [s \in Ids |-> clean[s] /\ \A i \in DOMAIN net : net[i].session # s]
      BY <2>3 DEF Unheard
    <3>2. ASSUME NEW s \in Ids
          PROVE  (clean[s] /\ \A i \in DOMAIN net : net[i].session # s) \in BOOLEAN
      BY Zenon
    <3> QED BY <3>1, <3>2 DEF Cleaner
  <2> QED BY <2>1, <2>2, <2>3 DEF Deadline, Finally, ReceiverDies, Upload, vars, history
<1>4. Tidy' /\ Spotless'
  BY <1>1, <1>2, <1>3, TidySame, SpotlessSame DEF CleanInv
<1>5. Carried'
  <2>1. CASE Unheard
    <3>1. /\ UNCHANGED <<sent, file, finished, rpc>> /\ rpc # "recv"
      BY <2>1 DEF Unheard, kernel, receiver
    <3> QED BY <1>3, <3>1 DEF CleanInv, Carried, Cleaner
  <2>2. CASE Finally \/ Deadline
    <3>1. UNCHANGED <<sent, file, finished>> /\ rpc' # "recv"
      BY <2>2 DEF Finally, Deadline, kernel, Stop
    <3> QED BY <1>3, <3>1 DEF CleanInv, Carried, Cleaner
  <2>3. CASE ReceiverDies
    <3>1. UNCHANGED <<sent, finished>> /\ rpc' # "recv"
      BY <2>3 DEF ReceiverDies, kernel
    <3>2. \A s \in finished : file'[s] = file[s]
      <4>1. \A s \in Ids \ {active} : file'[s] = file[s]
        BY <2>3, DiesDoes DEF ReceiverInv
      <4> QED BY <4>1 DEF ReceiverInv
    <3> QED BY <1>3, <3>1, <3>2 DEF CleanInv, Carried, Cleaner
  <2>4. CASE Upload \/ UNCHANGED vars
    <3>1. UNCHANGED <<sent, net, file, finished, rpc>>
      BY <2>4 DEF Upload, vars, kernel, receiver
    <3> QED BY <1>3, <3>1, CarriedSame DEF CleanInv
  <2> QED BY <2>1, <2>2, <2>3, <2>4
<1> QED BY <1>3, <1>4, <1>5 DEF CleanInv, Cleaner

\* The datagram that is stored is the next of its session.
LEMMA NextInOrder ==
  ASSUME StreamInv, net # <<>>, NEW s \in Ids, Head(net).session = s, Continues(s)
  PROVE  LET k == Len(file[s])
         IN /\ k \in Nat /\ k + 1 \in DOMAIN sent[s] /\ Head(net) = sent[s][k + 1]
            /\ {net[i].seq : i \in Under(s) \ {1}} = (k + 1)..(Len(sent[s]) - 1)
<1> DEFINE p == Head(net)
           k == Len(file[s])
           n == Len(sent[s])
<1>1. /\ Head(net) \in Packet /\ Len(net) \in Nat \ {0}
      /\ Head(net) = net[1] /\ DOMAIN net = 1..Len(net)
  BY TailPlaces DEF StreamInv, Shapes
<1>2. k \in Nat /\ n \in Nat /\ DOMAIN sent[s] = 1..n
  <2>1. file[s] \in Seq(Packet) /\ sent[s] \in Seq(Packet)
    BY DEF StreamInv, Shapes
  <2> QED BY <2>1
<1>3. 1 \in Under(s) /\ Under(s) \subseteq 1..Len(net)
  BY <1>1 DEF Under
<1>4. /\ {net[i].seq : i \in Under(s)} = k..(n - 1)
      /\ \A i, j \in Under(s) : i < j => net[i].seq < net[j].seq
  BY DEF Continues
<1>5. p.session = s /\ IsSent(p) /\ p = net[1]
  BY <1>1 DEF StreamInv, Held
<1> HIDE DEF p, k, n
<1>6. \A i \in Under(s) : net[i].seq \in k..(n - 1)
  BY <1>4
<1>7. \A i \in Under(s) \ {1} : net[1].seq < net[i].seq
  <2> SUFFICES ASSUME NEW i \in Under(s) \ {1} PROVE net[1].seq < net[i].seq
    OBVIOUS
  <2>1. 1 < i
    BY <1>1, <1>3
  <2> QED BY <1>3, <1>4, <2>1
<1>8. net[1].seq = k
  <2>1. net[1].seq \in k..(n - 1)
    BY <1>3, <1>6
  <2>2. k \in k..(n - 1)
    BY <1>2, <2>1
  <2>3. PICK i \in Under(s) : net[i].seq = k
    BY <1>4, <2>2
  <2>4. CASE i = 1
    BY <2>3, <2>4
  <2>5. CASE i # 1
    <3>1. net[1].seq < k
      BY <1>7, <2>3, <2>5
    <3> QED BY <1>2, <2>1, <3>1
  <2> QED BY <2>4, <2>5
<1>9. k + 1 \in DOMAIN sent[s] /\ p = sent[s][k + 1]
  BY <1>5, <1>8 DEF IsSent
<1>10. {net[i].seq : i \in Under(s) \ {1}} = (k + 1)..(n - 1)
  <2>1. ASSUME NEW i \in Under(s) \ {1} PROVE net[i].seq \in (k + 1)..(n - 1)
    <3>1. net[i].seq \in k..(n - 1)
      BY <1>6
    <3>2. k < net[i].seq
      BY <1>7, <1>8
    <3> QED BY <1>2, <3>1, <3>2
  <2>2. ASSUME NEW x \in (k + 1)..(n - 1) PROVE \E i \in Under(s) \ {1} : net[i].seq = x
    <3>1. x \in k..(n - 1) /\ x # k
      BY <1>2
    <3>2. PICK i \in Under(s) : net[i].seq = x
      BY <1>4, <3>1
    <3> QED BY <1>8, <3>1, <3>2
  <2> QED BY <2>1, <2>2
<1> QED BY <1>2, <1>9, <1>10 DEF p, k, n

LEMMA ReceiveCarries ==
  ASSUME StreamInv, ReceiverInv, CleanInv, Receive
  PROVE  CleanInv'
<1>p. PICK p : p = Head(net)
  OBVIOUS
<1>h. PICK h : h = p.session
  OBVIOUS
<1>1. /\ net # <<>> /\ net' = Tail(net) /\ p \in Packet /\ h \in Ids /\ rpc = "recv"
      /\ file' \in [Ids -> Seq(Packet)]
      /\ \/ Foreignness(p) /\ UNCHANGED <<active, finished, file, flushed>>
         \/ /\ ~Foreignness(p) /\ file'[h] = Append(file[h], p)
            /\ \A t \in Ids \ {h} : file'[t] = file[t]
  BY <1>p, <1>h, ReceiveDoes DEF ReceiverInv
<1>2. /\ \/ Foreignness(p) /\ rpc' = "stopped" /\ UNCHANGED clean
         \/ ~Foreignness(p) /\ rpc' = "stopped" /\ clean' = [clean EXCEPT ![h] = FALSE]
            /\ UNCHANGED finished
         \/ ~Foreignness(p) /\ p.kind = "end" /\ finished' = finished \cup {h} /\ UNCHANGED clean
         \/ ~Foreignness(p) /\ p.kind # "end" /\ UNCHANGED <<finished, clean>>
      /\ UNCHANGED <<session, mod, enabled, owned, semantic, ring, dropped, wpc, work, out, sent>>
  BY <1>p, <1>h DEF Receive, Stop, kernel, rings, switches
<1>3. clean \in [Ids -> BOOLEAN] /\ session \in Ids /\ net \in Seq(Packet) /\ net' \in Seq(Packet)
  BY <1>1, TailPlaces DEF CleanInv, StreamInv, Shapes
<1>4. /\ Len(net) \in Nat \ {0} /\ DOMAIN net = 1..Len(net) /\ DOMAIN net' = 1..(Len(net) - 1)
      /\ p = net[1] /\ \A i \in 1..(Len(net) - 1) : net'[i] = net[i + 1]
  BY <1>p, <1>1, <1>3, TailPlaces
<1>5. Cleaner
  BY <1>1, <1>2, <1>3 DEF Cleaner
<1>6. Tidy' /\ Spotless'
  BY <1>2, <1>3, <1>5, TidySame, SpotlessSame DEF CleanInv
\* What is left of a session moves up by one place.
<1>7. ASSUME NEW s \in Ids
      PROVE  /\ \A i \in Under(s)' : i + 1 \in Under(s) \ {1} /\ net'[i] = net[i + 1]
             /\ \A j \in Under(s) \ {1} : j - 1 \in Under(s)' /\ net'[j - 1] = net[j]
  <2>1. ASSUME NEW i \in Under(s)' PROVE i + 1 \in Under(s) \ {1} /\ net'[i] = net[i + 1]
    <3>1. i \in 1..(Len(net) - 1) /\ net'[i].session = s
      BY <1>4, <2>1 DEF Under
    <3>2. i + 1 \in 2..Len(net) /\ net'[i] = net[i + 1]
      BY <1>4, <3>1
    <3> QED BY <1>4, <3>1, <3>2 DEF Under
  <2>2. ASSUME NEW j \in Under(s) \ {1} PROVE j - 1 \in Under(s)' /\ net'[j - 1] = net[j]
    <3>1. j \in 2..Len(net) /\ net[j].session = s
      BY <1>4, <2>2 DEF Under
    <3>2. j - 1 \in 1..(Len(net) - 1) /\ (j - 1) + 1 = j
      BY <1>4, <3>1
    <3>3. net'[j - 1] = net[j]
      BY <1>4, <3>2
    <3> QED BY <1>4, <3>1, <3>2, <3>3 DEF Under
  <2> QED BY <2>1, <2>2
<1>8. ASSUME NEW s \in Ids, s # h, Continues(s), file'[s] = file[s] PROVE Continues(s)'
  <2>1. 1 \notin Under(s)
    BY <1>4, <1>8, <1>h DEF Under
  <2>2. -1 \in Int /\ Under(s) \subseteq Int /\ Under(s)' \subseteq Int
    BY <1>4 DEF Under
  <2>3. \A i \in Under(s)' : i - (-1) \in Under(s) /\ net'[i] = net[i - (-1)]
    BY <1>7, <2>2
  <2>4. \A j \in Under(s) : j + (-1) \in Under(s)'
    BY <1>7, <2>1, <2>2
  <2> QED BY <1>2, <1>3, <1>8, <2>2, <2>3, <2>4, ShiftContinues
<1>9. ASSUME ~Foreignness(p), Continues(h)
      PROVE  /\ p.kind # "end" => Continues(h)'
             /\ p.kind = "end" => file'[h] = sent'[h]
  <2> DEFINE k == Len(file[h])
             n == Len(sent[h])
  <2>1. /\ k \in Nat /\ k + 1 \in DOMAIN sent[h] /\ p = sent[h][k + 1]
        /\ {net[i].seq : i \in Under(h) \ {1}} = (k + 1)..(n - 1)
    BY <1>p, <1>h, <1>1, <1>9, NextInOrder
  <2>2. /\ file'[h] = Append(file[h], p) /\ sent' = sent
        /\ file[h] \in Seq(Packet) /\ sent[h] \in Seq(Packet)
    BY <1>1, <1>2, <1>9 DEF StreamInv, Shapes
  <2>3. /\ Len(file'[h]) = k + 1 /\ DOMAIN file'[h] = 1..(k + 1) /\ DOMAIN file[h] = 1..k
        /\ file'[h][k + 1] = p /\ \A i \in 1..k : file'[h][i] = file[h][i]
    BY <1>1, <2>2, AppendProperties
  <2> HIDE DEF k, n
  <2>4. ASSUME NEW i \in DOMAIN file'[h] PROVE i \in DOMAIN sent'[h] /\ file'[h][i] = sent'[h][i]
    <3>1. CASE i = k + 1
      BY <2>1, <2>2, <2>3, <3>1
    <3>2. CASE i # k + 1
      <4>1. i \in 1..k
        BY <2>1, <2>3, <3>2, <2>4
      <4> QED BY <1>9, <2>2, <2>3, <4>1 DEF Continues
    <3> QED BY <3>1, <3>2
  <2>5. ASSUME p.kind # "end" PROVE Continues(h)'
    <3>1. {net'[i].seq : i \in Under(h)'} = {net[j].seq : j \in Under(h) \ {1}}
      <4>1. \A i \in Under(h)' : \E j \in Under(h) \ {1} : net'[i].seq = net[j].seq
        BY <1>1, <1>7
      <4>2. \A j \in Under(h) \ {1} : \E i \in Under(h)' : net'[i].seq = net[j].seq
        BY <1>1, <1>7
      <4> QED BY <4>1, <4>2
    <3>2. \A i, j \in Under(h)' : i < j => net'[i].seq < net'[j].seq
      <4> SUFFICES ASSUME NEW i \in Under(h)', NEW j \in Under(h)', i < j
                   PROVE  net'[i].seq < net'[j].seq
        OBVIOUS
      <4>1. i \in Nat /\ j \in Nat /\ i + 1 < j + 1
        BY <1>4 DEF Under
      <4>2. net[i + 1].seq < net[j + 1].seq
        BY <1>1, <1>7, <1>9, <4>1 DEF Continues
      <4> QED BY <1>1, <1>7, <4>2
    <3> QED BY <2>1, <2>2, <2>3, <2>4, <3>1, <3>2 DEF Continues, n
  <2>6. ASSUME p.kind = "end" PROVE file'[h] = sent'[h]
    <3>1. k + 1 = n
      BY <1>1, <2>1, <2>6 DEF StreamInv, Numbered, n
    <3>2. file'[h] \in Seq(Packet) /\ sent'[h] \in Seq(Packet) /\ Len(sent'[h]) = n
      BY <1>1, <2>2 DEF n
    <3>3. Len(file'[h]) = Len(sent'[h]) /\ \A i \in 1..Len(file'[h]) : file'[h][i] = sent'[h][i]
      BY <2>3, <2>4, <3>1, <3>2
    <3> HIDE DEF n
    <3> QED BY <3>2, <3>3, SeqEqual
  <2> QED BY <2>5, <2>6
<1>10. Carried'
  <2> SUFFICES ASSUME NEW s \in Ids, clean'[s]
               PROVE  IF s \in finished' THEN file'[s] = sent'[s]
                      ELSE rpc' = "recv" => Continues(s)'
    BY DEF Carried
  <2>1. clean[s] /\ (s \in finished => file[s] = sent[s]) /\ (s \notin finished => Continues(s))
    BY <1>1, <1>5 DEF Cleaner, CleanInv, Carried
  <2>2. CASE Foreignness(p)
    BY <1>1, <1>2, <2>1, <2>2
  <2>3. CASE ~Foreignness(p) /\ s # h
    BY <1>1, <1>2, <1>8, <2>1, <2>3
  <2>4. CASE ~Foreignness(p) /\ s = h
    <3>1. s \notin finished
      BY <1>h, <2>4 DEF Foreignness
    <3>2. ~(clean' = [clean EXCEPT ![h] = FALSE])
      BY <1>1, <1>3, <2>4
    <3>3. CASE p.kind = "end"
      BY <1>2, <1>9, <2>1, <2>4, <3>1, <3>2, <3>3
    <3>4. CASE p.kind # "end"
      BY <1>2, <1>9, <2>1, <2>4, <3>1, <3>2, <3>4
    <3> QED BY <3>3, <3>4
  <2> QED BY <2>2, <2>3, <2>4
<1> QED BY <1>5, <1>6, <1>10 DEF CleanInv, Cleaner

(***************************************************************************)
(* A step of the exporter sends nothing, or a packet that a clean session  *)
(* may send.                                                               *)
(***************************************************************************)
OutOrder ==
  \/ UNCHANGED wire
  \/ \E p \in Packet :
       /\ Transmit(p) /\ Up /\ p.session = session /\ p.seq = Len(Current)
       /\ clean'[session] =>
            /\ ~p.loss
            /\ p.kind = "begin" <=> Current = <<>>
            /\ p.kind = "stats" => p.a = 0
            /\ p.kind = "end" => p.a = 0 /\ p.b = 0 /\ Settled(Current)

LEMMA OutKeeps ==
  ASSUME StreamInv, ReceiverInv, CleanInv, Cleaner, UNCHANGED receiver, OutOrder
  PROVE  Spotless' /\ Carried'
<1>1. CASE UNCHANGED wire
  BY <1>1, SpotlessSame, CarriedSame DEF CleanInv, wire, receiver
<1>2. CASE ~UNCHANGED wire
  <2>1. PICK p \in Packet :
       /\ Transmit(p) /\ Up /\ p.session = session /\ p.seq = Len(Current)
       /\ clean'[session] =>
            /\ ~p.loss
            /\ p.kind = "begin" <=> Current = <<>>
            /\ p.kind = "stats" => p.a = 0
            /\ p.kind = "end" => p.a = 0 /\ p.b = 0 /\ Settled(Current)
    BY <1>2 DEF OutOrder
  <2>2. Carried'
    BY <2>1, TransmitCarried DEF CleanInv
  <2>3. Spotless'
    BY <2>1, TransmitSpotless DEF CleanInv
  <2> QED BY <2>2, <2>3
<1> QED BY <1>1, <1>2

\* A record of a tidy session finds room.
LEMMA RecordTidy ==
  ASSUME StreamInv, Tidy, NEW c \in Cpus, NEW big \in BOOLEAN, Record(c, big), ~big,
         Len(ring[c]) # Slots, clean[session], Up
  PROVE  \A d \in Cpus : dropped'[d] = 0 /\ \A i \in DOMAIN ring'[d] : ~ring'[d][i].big
<1>1. /\ ring \in [Cpus -> Seq([id : Nat, big : BOOLEAN])]
      /\ dropped \in [Cpus -> Nat] /\ made[c] \in Nat
  BY DEF StreamInv, Shapes
<1>2. Len(ring[c]) < Slots
  <2>1. Len(ring[c]) \in Nat /\ Len(ring[c]) <= Slots /\ Slots \in Nat
    BY <1>1, Sizes DEF StreamInv, Shapes
  <2> QED BY <2>1
<1> DEFINE new == Append(ring[c], [id |-> made[c] + 1, big |-> big])
<1>3. ring' = [ring EXCEPT ![c] = new] /\ dropped' = dropped
  BY <1>2 DEF Record
<1>4. \A d \in Cpus : dropped[d] = 0 /\ \A i \in DOMAIN ring[d] : ~ring[d][i].big
  BY DEF Tidy
<1>5. \A i \in DOMAIN new : ~new[i].big
  <2>1. [id |-> made[c] + 1, big |-> big] \in [id : Nat, big : BOOLEAN]
    BY <1>1
  <2>2. /\ DOMAIN new = 1..(Len(ring[c]) + 1) /\ DOMAIN ring[c] = 1..Len(ring[c])
        /\ Len(ring[c]) \in Nat
        /\ new[Len(ring[c]) + 1] = [id |-> made[c] + 1, big |-> big]
        /\ \A i \in 1..Len(ring[c]) : new[i] = ring[c][i]
    BY <1>1, <2>1, AppendProperties
  <2> HIDE DEF new
  <2>3. ASSUME NEW i \in DOMAIN new PROVE ~new[i].big
    <3>1. CASE i = Len(ring[c]) + 1
      BY <2>2, <3>1
    <3>2. CASE i # Len(ring[c]) + 1
      <4>1. i \in 1..Len(ring[c])
        BY <2>2, <2>3, <3>2
      <4> QED BY <1>4, <2>2, <4>1
    <3> QED BY <3>1, <3>2
  <2> QED BY <2>3
<1> HIDE DEF new
<1>6. ring'[c] = new /\ \A d \in Cpus \ {c} : ring'[d] = ring[d]
  BY <1>1, <1>3
<1> QED BY <1>3, <1>4, <1>5, <1>6

LEMMA EmitTidy ==
  ASSUME StreamInv, CleanInv, Emit
  PROVE  Tidy' /\ OutOrder
<1>1. PICK c \in Cpus, big \in BOOLEAN : Record(c, big) /\ SpoilIf(big \/ Len(ring[c]) = Slots)
  BY DEF Emit
<1>2. enabled /\ UNCHANGED <<session, mod, enabled, owned, semantic, wpc, work, out, sent, wire>>
  BY DEF Emit, wire, switches
<1>3. clean'[session] => clean[session] /\ ~big /\ Len(ring[c]) # Slots
  BY <1>1, Spoils DEF CleanInv, StreamInv, Shapes
<1>4. ASSUME clean'[session], Up
      PROVE  \A d \in Cpus : dropped'[d] = 0 /\ \A i \in DOMAIN ring'[d] : ~ring'[d][i].big
  BY <1>1, <1>3, <1>4, RecordTidy DEF CleanInv
<1>5. clean'[session] /\ Up => mod \in {"unloaded", "live"}
  BY <1>2, <1>3 DEF CleanInv, Tidy
<1>6. Tidy'
  BY <1>2, <1>3, <1>4, <1>5 DEF CleanInv, Tidy, Up, Current
<1> QED BY <1>2, <1>6 DEF OutOrder

LEMMA SwitchTidy ==
  ASSUME StreamInv, CleanInv, Toggle \/ Foreign \/ Invalidate
  PROVE  Tidy' /\ OutOrder
<1>1. UNCHANGED <<session, mod, ring, dropped, wpc, work, out, sent, wire>>
  BY DEF Toggle, Foreign, Invalidate, wire, rings
<1>2. clean \in [Ids -> BOOLEAN] /\ session \in Ids
  BY DEF CleanInv, StreamInv, Shapes
<1>3. CASE Foreign \/ Invalidate
  <2>1. ~clean'[session]
    BY <1>2, <1>3, SpoilsNow DEF Foreign, Invalidate
  <2> QED BY <1>1, <2>1 DEF CleanInv, Tidy, OutOrder
<1>4. CASE Toggle
  <2>1. clean'[session] => clean[session] /\ mod \in {"unloaded", "live"}
    BY <1>2, <1>4, Spoils DEF Toggle
  <2>2. UNCHANGED <<owned, semantic>>
    BY <1>4 DEF Toggle
  <2> QED BY <1>1, <2>1, <2>2 DEF CleanInv, Tidy, OutOrder, Up, Current
<1> QED BY <1>3, <1>4

LEMMA LoadTidy ==
  ASSUME StreamInv, CleanInv, Load
  PROVE  Tidy' /\ OutOrder
<1>1. mod = "unloaded" /\ UNCHANGED <<session, enabled, owned, ring, dropped, work>>
  BY DEF Load, rings
<1>2. Up /\ Shapes /\ Current = <<>> /\ out.seq = Len(Current) /\ wpc = "off"
  BY <1>1 DEF Up, StreamInv, Shapes, Numbered
<1>3. CASE mod' = "gone" /\ UNCHANGED <<wpc, wire>>
  BY <1>1, <1>2, <1>3 DEF CleanInv, Tidy, Up, OutOrder
<1>4. CASE mod' = "live" /\ wpc' = "queued" /\ Send("begin", NCpus, NCpus, 0)
           /\ UNCHANGED <<semantic, clean>>
  <2>1. NCpus \in 0..NCpus /\ NCpus \in Nat /\ 0 \in Nat /\ "begin" \in {"begin", "event", "stats"}
    BY Sizes
  <2>2. out'.oversized = out.oversized /\ out'.error = out.error
    BY <1>2, <1>4, <2>1, SendDoes
  <2>3. PICK p \in Packet : /\ Transmit(p) /\ p.session = session /\ p.kind = "begin"
                            /\ p.seq = out.seq /\ p.loss = out.oversized
    <3>1. \E p \in Packet : /\ Transmit(p) /\ p.session = session /\ p.kind = "begin"
                            /\ p.seq = out.seq /\ p.cpu = NCpus /\ p.a = NCpus /\ p.b = 0
                            /\ p.loss = out.oversized
      BY <1>2, <1>4, <2>1, SendDoes
    <3> QED BY <3>1
  <2>4. clean[session] => ~out.oversized
    BY <1>2 DEF CleanInv, Tidy
  <2>5. OutOrder
    BY <1>2, <1>4, <2>3, <2>4 DEF OutOrder
  <2>6. sent'[session] # <<>>
    <3>1. sent'[session] = Append(Current, p) /\ Current \in Seq(Packet)
      BY <1>2, <2>3, TransmitDoes
    <3>2. Len(sent'[session]) = Len(Current) + 1 /\ Len(Current) \in Nat
      BY <3>1, AppendProperties
    <3> QED BY <3>2
  <2>7. Tidy'
    BY <1>1, <1>2, <1>4, <2>2, <2>6 DEF CleanInv, Tidy, Up, Current
  <2> QED BY <2>5, <2>7
<1> QED BY <1>3, <1>4 DEF Load

LEMMA DrainStartTidy ==
  ASSUME StreamInv, CleanInv, DrainStart
  PROVE  Tidy' /\ OutOrder
<1>1. wpc = "queued" /\ UNCHANGED <<session, mod, enabled, owned, semantic, sent, wire>>
  BY DEF DrainStart, wire, switches
<1>2. /\ mod \in {"live", "stopping"} /\ Up /\ work.stat = 0 /\ work \in WorkType
      /\ clean \in [Ids -> BOOLEAN] /\ session \in Ids
  BY <1>1 DEF CleanInv, StreamInv, Shapes, Tidy, Up, WorkType
<1>3. CASE owned /\ semantic
  <2>1. wpc' = "run" /\ work' = NextCpu([work EXCEPT !.n = 0, !.empty = 0]) /\ UNCHANGED out
    BY <1>3 DEF DrainStart
  <2>2. work'.stat = 0
    BY <1>2, <2>1 DEF NextCpu, WorkType
  <2>3. CASE UNCHANGED <<rings, clean>>
    BY <1>1, <1>2, <2>1, <2>2, <2>3 DEF CleanInv, Tidy, OutOrder, Up, Current, rings
  <2>4. CASE enabled /\ \E c \in Cpus : Record(c, FALSE) /\ SpoilIf(Len(ring[c]) = Slots)
    <3>1. PICK c \in Cpus : Record(c, FALSE) /\ SpoilIf(Len(ring[c]) = Slots)
      BY <2>4
    <3>2. clean'[session] => clean[session] /\ Len(ring[c]) # Slots
      BY <1>2, <3>1, Spoils
    <3>3. ASSUME clean'[session]
          PROVE  \A d \in Cpus : dropped'[d] = 0 /\ \A i \in DOMAIN ring'[d] : ~ring'[d][i].big
      BY <1>2, <3>1, <3>2, <3>3, RecordTidy DEF CleanInv
    <3>4. clean'[session] => mod = "live"
      BY <1>2, <2>4, <3>2 DEF CleanInv, Tidy
    <3>5. Tidy'
      BY <1>1, <1>2, <2>1, <2>2, <3>2, <3>3, <3>4 DEF CleanInv, Tidy, Up, Current
    <3> QED BY <1>1, <3>5 DEF OutOrder
  <2> QED BY <1>3, <2>3, <2>4 DEF DrainStart
<1>4. CASE ~(owned /\ semantic)
  <2>1. wpc' = "off" /\ UNCHANGED <<work, rings, clean>>
    BY <1>4 DEF DrainStart
  <2>2. ~clean[session]
    BY <1>2, <1>4 DEF CleanInv, Tidy
  <2> QED BY <1>1, <1>2, <2>1, <2>2 DEF Tidy, OutOrder
<1> QED BY <1>3, <1>4

LEMMA VisitTidy ==
  ASSUME StreamInv, CleanInv, Break \/ NextRing \/ EmptyRing
  PROVE  Tidy' /\ OutOrder
<1>1. /\ wpc = "run"
      /\ UNCHANGED <<session, mod, enabled, owned, semantic, ring, dropped, sent, clean, wire>>
  BY DEF Break, NextRing, EmptyRing, wire, history, switches, rings
<1>2. /\ mod \in {"live", "stopping"} /\ work.stat = 0 /\ work \in WorkType
  BY <1>1 DEF CleanInv, StreamInv, Shapes, Tidy, WorkType
<1>3. work'.stat = 0
  BY <1>2 DEF Break, NextRing, EmptyRing, NextCpu, WorkType
<1>4. out'.oversized = out.oversized /\ out'.error = out.error
  <2>1. CASE Reschedule
    BY <2>1, RescheduleDoes DEF StreamInv
  <2>2. CASE UNCHANGED out
    BY <2>2
  <2> QED BY <2>1, <2>2 DEF Break, NextRing, EmptyRing
<1> QED BY <1>1, <1>2, <1>3, <1>4 DEF CleanInv, Tidy, OutOrder, Up, Current

LEMMA ConsumeTidy ==
  ASSUME StreamInv, CleanInv, Consume
  PROVE  Tidy' /\ OutOrder
<1>1. /\ wpc = "run"
      /\ UNCHANGED <<session, mod, enabled, owned, semantic, dropped, clean>>
  BY DEF Consume, history, switches
<1>2. /\ mod \in {"live", "stopping"} /\ Up /\ work.stat = 0 /\ work \in WorkType /\ Shapes
      /\ work.cpu \in Cpus /\ out.seq = Len(Current) /\ out \in OutType
  BY <1>1 DEF CleanInv, StreamInv, Shapes, Tidy, WorkType, OutType, Up, Numbered
<1> DEFINE c == work.cpu
           q == ring[c]
<1>3. /\ Head(q).id \in Nat /\ Head(q) = q[1] /\ 1 \in DOMAIN q /\ q # <<>>
      /\ \A d \in Cpus \ {c} : ring'[d] = ring[d]
      /\ DOMAIN ring'[c] = 1..(Len(q) - 1) /\ DOMAIN q = 1..Len(q) /\ Len(q) \in Nat
      /\ \A i \in 1..(Len(q) - 1) : ring'[c][i] = q[i + 1]
  BY <1>2, ConsumeRing DEF Consume
<1>4. ASSUME clean[session]
      PROVE  /\ mod = "live" /\ ~Head(q).big /\ ~out.oversized /\ ~out.error /\ owned /\ semantic
             /\ Current # <<>>
             /\ \A d \in Cpus : dropped[d] = 0 /\ \A i \in DOMAIN ring'[d] : ~ring'[d][i].big
  <2>1. /\ ~out.oversized /\ ~out.error /\ owned /\ semantic
        /\ \A d \in Cpus : dropped[d] = 0 /\ \A i \in DOMAIN ring[d] : ~ring[d][i].big
        /\ mod = "stopping" => \A d \in Cpus : ring[d] = <<>>
        /\ Current # <<>>
    BY <1>2, <1>4 DEF CleanInv, Tidy
  <2>2. mod = "live" /\ ~Head(q).big
    BY <1>2, <1>3, <2>1
  <2>3. ASSUME NEW d \in Cpus, NEW i \in DOMAIN ring'[d] PROVE ~ring'[d][i].big
    <3>1. CASE d = c
      <4>1. i \in 1..(Len(q) - 1) /\ i + 1 \in DOMAIN q
        BY <1>3, <2>3, <3>1
      <4>2. ring'[c][i] = q[i + 1]
        BY <1>3, <4>1
      <4> QED BY <1>2, <2>1, <3>1, <4>1, <4>2
    <3>2. CASE d # c
      BY <1>3, <2>1, <2>3, <3>2
    <3> QED BY <3>1, <3>2
  <2> QED BY <2>1, <2>2, <2>3
<1>5. CASE Head(q).big
  <2>1. ~clean[session] /\ UNCHANGED wire /\ wpc' = "off"
        /\ work' = [work EXCEPT !.empty = 0, !.n = @ + 1]
    BY <1>4, <1>5 DEF Consume
  <2>2. work'.stat = 0
    BY <1>2, <2>1 DEF WorkType
  <2> QED BY <1>1, <2>1, <2>2 DEF Tidy, OutOrder
<1>6. CASE ~Head(q).big
  <2>1. /\ Send("event", c, Head(q).id, 0)
        /\ work' = [work EXCEPT !.empty = 0, !.n = @ + 1, !.quota = @ + 1] /\ UNCHANGED wpc
    BY <1>6 DEF Consume
  <2>i. PICK id \in Nat : id = Head(q).id
    BY <1>3
  <2>2. Send("event", c, id, 0) /\ c \in 0..NCpus /\ "event" \in {"begin", "event", "stats"} /\ 0 \in Nat
    BY <1>2, <2>1, <2>i, Sizes
  <2> HIDE DEF c, q
  <2>3. out'.oversized = out.oversized /\ out'.error = out.error
    BY <1>2, <2>2, SendDoes
  <2>4. PICK p \in Packet : /\ Transmit(p) /\ p.session = session /\ p.kind = "event"
                            /\ p.seq = out.seq /\ p.loss = out.oversized
    <3>1. \E p \in Packet : /\ Transmit(p) /\ p.session = session /\ p.kind = "event"
                            /\ p.seq = out.seq /\ p.cpu = c /\ p.a = id /\ p.b = 0
                            /\ p.loss = out.oversized
      BY <1>2, <2>2, SendDoes
    <3> QED BY <3>1
  <2>5. OutOrder
    BY <1>1, <1>2, <1>4, <2>4 DEF OutOrder
  <2>6. sent'[session] # <<>>
    <3>1. sent'[session] = Append(Current, p) /\ Current \in Seq(Packet)
      BY <1>2, <2>4, TransmitDoes
    <3>2. Len(sent'[session]) = Len(Current) + 1 /\ Len(Current) \in Nat
      BY <3>1, AppendProperties
    <3> QED BY <3>2
  <2>7. work'.stat = 0
    BY <1>2, <2>1 DEF WorkType
  <2>8. Tidy'
    BY <1>1, <1>2, <1>4, <2>1, <2>3, <2>6, <2>7 DEF Tidy, Up, Current
  <2> QED BY <2>5, <2>8
<1> QED BY <1>5, <1>6

\* The statistics of a tidy session say that nothing was lost.
LEMMA StatTidy ==
  ASSUME StreamInv, CleanInv, DrainStat \/ FinalStat
  PROVE  Tidy' /\ OutOrder
<1>1. UNCHANGED <<session, enabled, owned, semantic, ring, dropped>>
  BY DEF DrainStat, FinalStat, rings, switches
<1>2. /\ Up /\ Shapes /\ work \in WorkType /\ out \in OutType /\ out.seq = Len(Current)
      /\ work.stat \in Cpus /\ clean \in [Ids -> BOOLEAN] /\ session \in Ids
      /\ \/ DrainStat /\ wpc = "stats" /\ mod \in {"live", "stopping"}
         \/ FinalStat /\ mod = "final" /\ wpc = "off"
      /\ (DrainStat => mod \in {"live", "stopping"})
      /\ (FinalStat => mod = "final")
  BY DEF DrainStat, FinalStat, CleanInv, StreamInv, Shapes, Tidy, WorkType, OutType, Up, Numbered
<1> DEFINE c == work.stat
           Next1 == /\ c + 1 < NCpus /\ work' = [work EXCEPT !.stat = @ + 1]
                    /\ UNCHANGED <<wpc, mod>>
           Done1 == /\ work' = [work EXCEPT !.stat = 0]
                    /\ \/ DrainStat /\ wpc' \in {"off", "queued"} /\ UNCHANGED mod
                       \/ FinalStat /\ mod' = "count" /\ UNCHANGED wpc
<1>3. /\ Cleaner
      /\ \/ /\ Send("stats", c, dropped[c], Len(ring[c])) /\ (Next1 \/ (Done1 /\ ~(c + 1 < NCpus)))
         \/ /\ UNCHANGED <<out, wire>> /\ Done1 /\ (FinalStat => mod # "final" \/ ~clean'[session])
  <2>1. CASE DrainStat
    <3>1. PICK room \in BOOLEAN :
            /\ IF room THEN Send("stats", c, dropped[c], Len(ring[c])) ELSE UNCHANGED <<out, wire>>
            /\ IF room /\ c + 1 < NCpus
               THEN work' = [work EXCEPT !.stat = @ + 1] /\ UNCHANGED <<wpc, mod>>
               ELSE work' = [work EXCEPT !.stat = 0] /\ Requeue /\ UNCHANGED mod
            /\ SpoilIf(~room /\ mod = "final")
      BY <2>1 DEF DrainStat, Stat, QueueRoom
    <3>2. Cleaner
      BY <1>2, <3>1, Spoils
    <3>3. Requeue => wpc' \in {"off", "queued"}
      BY DEF Requeue
    <3>4. mod # "final"
      BY <1>2, <2>1 DEF DrainStat, StreamInv, Shapes
    <3> QED BY <2>1, <3>1, <3>2, <3>3, <3>4
  <2>2. CASE FinalStat
    <3>1. PICK room \in BOOLEAN :
            /\ IF room THEN Send("stats", c, dropped[c], Len(ring[c])) ELSE UNCHANGED <<out, wire>>
            /\ IF room /\ c + 1 < NCpus
               THEN work' = [work EXCEPT !.stat = @ + 1] /\ UNCHANGED <<wpc, mod>>
               ELSE work' = [work EXCEPT !.stat = 0] /\ mod' = "count" /\ UNCHANGED wpc
            /\ SpoilIf(~room /\ mod = "final")
      BY <2>2 DEF FinalStat, Stat, QueueRoom
    <3>2. Cleaner /\ (clean'[session] => room)
      BY <1>2, <2>2, <3>1, Spoils DEF FinalStat
    <3> QED BY <2>2, <3>1, <3>2
  <2> QED BY <1>2, <2>1, <2>2
<1>4. clean'[session] => clean[session]
  BY <1>2, <1>3 DEF Cleaner
<1>5. ASSUME clean'[session]
      PROVE  /\ owned /\ semantic /\ ~out.oversized /\ ~out.error /\ Current # <<>>
             /\ \A d \in Cpus : dropped[d] = 0 /\ \A i \in DOMAIN ring[d] : ~ring[d][i].big
             /\ mod # "live" => ~enabled /\ \A d \in Cpus : ring[d] = <<>>
             /\ mod = "final" => \A d \in Cpus : d < c => SettledOn(Current, d)
  BY <1>2, <1>4, <1>5 DEF CleanInv, Tidy
<1>6. /\ mod' \in {"live", "stopping", "final", "count"}
      /\ mod' = "live" <=> mod = "live"
      /\ mod' \in {"final", "count"} <=> mod = "final"
      /\ wpc' # "stats" /\ mod' # "final" => work'.stat = 0
  <2>1. CASE Done1
    <3>1. work'.stat = 0
      BY <1>2, <2>1 DEF WorkType
    <3> QED BY <1>2, <2>1, <3>1
  <2>2. CASE Next1
    BY <1>2, <2>2
  <2> QED BY <1>3, <2>1, <2>2
<1>7. CASE UNCHANGED <<out, wire>> /\ Done1 /\ (FinalStat => mod # "final" \/ ~clean'[session])
  <2>1. clean'[session] => mod' \in {"live", "stopping"}
    <3>1. CASE mod = "final"
      <4>1. FinalStat
        BY <1>2, <3>1
      <4> QED BY <1>7, <3>1, <4>1
    <3>2. CASE mod # "final"
      <4>1. ~FinalStat /\ mod \in {"live", "stopping"}
        BY <1>2, <3>2
      <4> QED BY <1>7, <4>1
    <3> QED BY <3>1, <3>2
  <2>2. UNCHANGED sent
    BY <1>7 DEF wire
  <2> HIDE DEF Done1, Next1
  <2>3. Tidy'
    BY <1>1, <1>5, <1>6, <1>7, <2>1, <2>2 DEF Tidy, Up, Current
  <2> QED BY <1>7, <2>3 DEF OutOrder
<1>8. CASE Send("stats", c, dropped[c], Len(ring[c])) /\ (Next1 \/ (Done1 /\ ~(c + 1 < NCpus)))
  <2>1. PICK lost \in Nat, waiting \in Nat : lost = dropped[c] /\ waiting = Len(ring[c])
    <3>1. dropped[c] \in Nat /\ ring[c] \in Seq([id : Nat, big : BOOLEAN])
      BY <1>2 DEF Shapes
    <3>2. Len(ring[c]) \in Nat
      BY <3>1
    <3> QED BY <3>1, <3>2
  <2>2. Send("stats", c, lost, waiting) /\ c \in 0..NCpus /\ "stats" \in {"begin", "event", "stats"}
    BY <1>2, <1>8, <2>1, Sizes
  <2>3. out'.oversized = out.oversized /\ out'.error = out.error
    BY <1>2, <2>2, SendDoes
  <2>4. PICK p \in Packet : /\ Transmit(p) /\ p.session = session /\ p.kind = "stats"
                            /\ p.seq = out.seq /\ p.cpu = c /\ p.a = lost /\ p.b = waiting
                            /\ p.loss = out.oversized
    BY <1>2, <2>2, SendDoes
  <2>5. OutOrder
    BY <1>2, <1>5, <2>1, <2>4 DEF OutOrder
  <2>6. Current' = Append(Current, p) /\ Current \in Seq(Packet)
    BY <1>1, <1>2, <2>4, TransmitDoes DEF Current
  <2>7. Current' # <<>>
    <3>1. Len(Current') = Len(Current) + 1 /\ Len(Current) \in Nat
      BY <2>6, AppendProperties
    <3> QED BY <3>1
  <2>8. ASSUME clean'[session], mod = "final", NEW d \in Cpus, d <= c
        PROVE  SettledOn(Current', d)
    <3>1. CASE d = c
      <4>1. ring[c] = <<>> /\ waiting = 0
        BY <1>2, <1>5, <2>1, <2>8
      <4> QED BY <2>4, <2>6, <3>1, <4>1, SettledNow
    <3>2. CASE d # c
      <4>1. d < c
        BY <1>2, <2>8, <3>2 DEF Cpus
      <4>2. SettledOn(Current, d)
        BY <1>5, <2>8, <4>1
      <4> QED BY <2>4, <2>6, <3>2, <4>2, SettledStays
    <3> QED BY <3>1, <3>2
  <2>9. ASSUME clean'[session], mod' = "final", NEW d \in Cpus, d < work'.stat
        PROVE  SettledOn(Current', d)
    <3>1. mod = "final"
      BY <1>6, <2>9
    <3>e. Next1
      BY <1>2, <1>8, <2>9, <3>1
    <3>f. work'.stat = c + 1
      BY <1>2, <3>e DEF WorkType
    <3>2. d <= c
      BY <1>2, <2>9, <3>f DEF Cpus
    <3> QED BY <2>8, <2>9, <3>1, <3>2
  <2>10. ASSUME clean'[session], mod' = "count", NEW d \in Cpus
         PROVE  SettledOn(Current', d)
    <3>1. mod = "final" /\ ~(c + 1 < NCpus)
      BY <1>2, <1>6, <1>8, <2>10
    <3>2. d <= c
      BY <1>2, <3>1, Sizes DEF Cpus
    <3> QED BY <2>8, <2>10, <3>1, <3>2
  <2>11. clean'[session] /\ mod' \in {"count", "end"} => \A d \in Cpus : SettledOn(Current', d)
    BY <1>6, <2>10
  <2>12. Tidy'
    BY <1>1, <1>5, <1>6, <2>3, <2>7, <2>9, <2>11 DEF Tidy, Up, Settled
  <2> QED BY <2>5, <2>12
<1> QED BY <1>3, <1>7, <1>8

\* rmmod begins on a stopped and drained recording, or the session is not clean.
LEMMA UnloadTidy ==
  ASSUME StreamInv, CleanInv, Unload \/ Cancel
  PROVE  Tidy' /\ OutOrder
<1>1. UNCHANGED <<session, enabled, owned, semantic, ring, dropped, work, out, sent, wire>>
  BY DEF Unload, Cancel, wire, rings, switches
<1>2. clean \in [Ids -> BOOLEAN] /\ session \in Ids
  BY DEF CleanInv, StreamInv, Shapes
<1>3. CASE Unload
  <2>1. mod = "live" /\ mod' = "stopping" /\ UNCHANGED wpc
    BY <1>3 DEF Unload
  <2>2. clean'[session] => clean[session] /\ ~enabled /\ ring = NoRecords
    BY <1>2, <1>3, Spoils DEF Unload
  <2>3. ring = NoRecords => \A c \in Cpus : ring[c] = <<>>
    BY DEF NoRecords
  <2>4. Tidy'
    BY <1>1, <2>1, <2>2, <2>3 DEF CleanInv, Tidy, Up, Current
  <2> QED BY <1>1, <2>4 DEF OutOrder
<1>4. CASE Cancel
  <2>1. /\ mod = "stopping" /\ wpc \in {"off", "queued"} /\ mod' = "final" /\ wpc' = "off"
        /\ UNCHANGED clean
    BY <1>4 DEF Cancel, history
  <2>2. work.stat = 0
    BY <2>1 DEF CleanInv, Tidy
  <2>3. \A c \in Cpus : ~(c < 0)
    BY DEF Cpus
  <2>4. Tidy'
    BY <1>1, <2>1, <2>2, <2>3 DEF CleanInv, Tidy, Up, Current
  <2> QED BY <1>1, <2>4 DEF OutOrder
<1> QED BY <1>3, <1>4

LEMMA AllConsumed ==
  ASSUME \A c \in Cpus : ring[c] = <<>>
  PROVE  Left = 0
<1>1. \A c \in Cpus : DOMAIN ring[c] = {}
  OBVIOUS
<1> DEFINE places == Cpus \X (1..Slots)
           L == {r \in places : r[2] \in DOMAIN ring[r[1]]}
<1>2. ASSUME NEW r \in places PROVE r[2] \notin DOMAIN ring[r[1]]
  <2>1. r[1] \in Cpus
    BY <1>2
  <2> QED BY <1>1, <2>1
<1>3. L = {}
  BY <1>2
<1>4. Cardinality({}) = 0
  BY FS_EmptySet
<1> QED BY <1>3, <1>4 DEF Left

LEMMA CountTidy ==
  ASSUME StreamInv, CleanInv, Count
  PROVE  Tidy' /\ OutOrder
<1>1. /\ mod = "count" /\ mod' = "end" /\ out' = [out EXCEPT !.remaining = Left]
      /\ UNCHANGED <<session, enabled, owned, semantic, ring, dropped, wpc, work, sent, clean, wire>>
  BY DEF Count, wire, rings, switches
<1>2. out'.remaining = Left /\ out'.oversized = out.oversized /\ out'.error = out.error
  BY <1>1 DEF StreamInv, Shapes
<1>3. clean[session] => \A c \in Cpus : ring[c] = <<>>
  BY <1>1 DEF CleanInv, Tidy, Up
<1>4. clean[session] => Left = 0
  BY <1>3, AllConsumed
<1>5. Settled(Current)' <=> Settled(Current)
  BY <1>1 DEF Settled, SettledOn, Of, Current
<1>6. Tidy'
  BY <1>1, <1>2, <1>4, <1>5 DEF CleanInv, Tidy, Up, Current
<1> QED BY <1>1, <1>6 DEF OutOrder

\* The END of a clean session says that nothing is left and nothing went wrong.
LEMMA EndTidy ==
  ASSUME StreamInv, CleanInv, End
  PROVE  Tidy' /\ OutOrder
<1>1. mod = "end" /\ mod' = "gone" /\ work' = FreshWork /\ UNCHANGED <<session, wpc>>
  BY DEF End
<1>2. /\ Up /\ ~Up' /\ out.seq = Len(Current) /\ session \in Ids /\ Shapes
      /\ clean \in [Ids -> BOOLEAN] /\ out.remaining \in Nat
  BY <1>1 DEF StreamInv, Shapes, Up, Numbered, CleanInv
<1>3. Tidy'
  <2>1. work'.stat = 0
    BY <1>1 DEF FreshWork
  <2> QED BY <1>2, <2>1 DEF Tidy
<1> DEFINE flag == IF enabled \/ out.error \/ ~semantic THEN 1 ELSE 0
<1>4. PICK room \in BOOLEAN :
        /\ IF room THEN Transmit(Datagram("end", NCpus, out.remaining, flag)) ELSE UNCHANGED wire
        /\ SpoilIf(~room \/ enabled)
  BY DEF End, QueueRoom
<1>5. clean'[session] => clean[session] /\ ~enabled
  BY <1>2, <1>4, Spoils
<1>6. ASSUME clean'[session]
      PROVE  /\ flag = 0 /\ ~out.oversized /\ out.remaining = 0 /\ Settled(Current)
             /\ Current # <<>>
  BY <1>1, <1>2, <1>5, <1>6 DEF CleanInv, Tidy
<1>7. flag \in Nat
  OBVIOUS
<1> HIDE DEF flag
<1>8. CASE ~room
  BY <1>3, <1>4, <1>8 DEF OutOrder
<1>9. CASE room
  <2>1. PICK left \in Nat, bad \in Nat : left = out.remaining /\ bad = flag
    BY <1>2, <1>7
  <2>2. Transmit(Datagram("end", NCpus, left, bad))
    BY <1>4, <1>9, <2>1
  <2>3. NCpus \in 0..NCpus /\ "end" \in {"begin", "event", "stats", "end"}
    BY Sizes
  <2>4. Datagram("end", NCpus, left, bad) \in Packet
    BY <1>2, <2>3, DatagramIsPacket
  <2>5. LET p == Datagram("end", NCpus, left, bad)
        IN /\ p.session = session /\ p.kind = "end" /\ p.seq = out.seq
           /\ p.a = left /\ p.b = bad /\ p.loss = out.oversized
    BY DEF Datagram
  <2>6. PICK p \in Packet : /\ Transmit(p) /\ p.session = session /\ p.kind = "end"
                            /\ p.seq = out.seq /\ p.a = left /\ p.b = bad
                            /\ p.loss = out.oversized
    BY <2>2, <2>4, <2>5
  <2>7. OutOrder
    BY <1>2, <1>6, <2>1, <2>6 DEF OutOrder
  <2> QED BY <1>3, <2>7
<1> QED BY <1>8, <1>9

LEMMA CrashTidy ==
  ASSUME StreamInv, Crash
  PROVE  Tidy' /\ OutOrder
<1>1. mod' = "down" /\ Memory /\ UNCHANGED wire
  BY DEF Crash
<1>2. work'.stat = 0
  BY <1>1 DEF Memory, FreshWork
<1> QED BY <1>1, <1>2 DEF Tidy, Up, OutOrder

LEMMA BootTidy ==
  ASSUME StreamInv, CleanInv, Boot
  PROVE  Tidy' /\ OutOrder
<1>1. mod' = "unloaded" /\ Memory /\ UNCHANGED wire
  BY DEF Boot
<1>2. /\ work'.stat = 0 /\ owned' /\ semantic' /\ ~out'.oversized /\ ~out'.error
  BY <1>1 DEF Memory, FreshWork, FreshOut
<1>3. \A c \in Cpus : dropped'[c] = 0 /\ ring'[c] = <<>>
  BY <1>1, FreshMemory
<1>4. \A c \in Cpus : \A i \in DOMAIN ring'[c] : ~ring'[c][i].big
  BY <1>3
<1> QED BY <1>1, <1>2, <1>3, <1>4 DEF Tidy, OutOrder

LEMMA CleanInit == Init => CleanInv
<1> SUFFICES ASSUME Init PROVE CleanInv
  OBVIOUS
<1>1. /\ session = 1 /\ mod = "unloaded" /\ owned = TRUE /\ semantic = TRUE
      /\ ring = NoRecords /\ dropped = Zero /\ work = FreshWork /\ out = FreshOut
      /\ net = <<>> /\ sent = [s \in Ids |-> <<>>] /\ clean = [s \in Ids |-> TRUE]
      /\ finished = {} /\ file = [s \in Ids |-> <<>>] /\ wpc = "off"
  BY DEF Init, ExportInit, Ids
<1>2. clean \in [Ids -> BOOLEAN]
  BY <1>1
<1>3. /\ work.stat = 0 /\ ~out.oversized /\ ~out.error
      /\ \A c \in Cpus : dropped[c] = 0 /\ ring[c] = <<>>
  BY <1>1 DEF FreshWork, FreshOut, NoRecords, Zero
<1>4. \A c \in Cpus : \A i \in DOMAIN ring[c] : ~ring[c][i].big
  BY <1>3
<1>5. Tidy
  BY <1>1, <1>3, <1>4 DEF Tidy
<1>6. \A s \in Ids : sent[s] = <<>> /\ file[s] = <<>>
  BY <1>1
<1>7. Spotless
  BY <1>6 DEF Spotless, Fine
<1>8. ASSUME NEW s \in Ids PROVE Continues(s)
  <2>1. Under(s) = {}
    BY <1>1 DEF Under
  <2>2. Len(file[s])..(Len(sent[s]) - 1) = {}
    BY <1>6
  <2> QED BY <1>6, <2>1, <2>2 DEF Continues
<1>9. Carried
  BY <1>1, <1>8 DEF Carried
<1> QED BY <1>2, <1>5, <1>7, <1>9 DEF CleanInv

LEMMA CleanStep == StreamInv /\ ReceiverInv /\ CleanInv /\ [Next]_vars => CleanInv'
<1> SUFFICES ASSUME StreamInv, ReceiverInv, CleanInv, [Next]_vars PROVE CleanInv'
  OBVIOUS
<1>1. CASE ExportNext /\ UNCHANGED <<receiver, uploadVars>>
  <2>1. Cleaner
    BY <1>1, ExportCleaner DEF CleanInv, StreamInv, Shapes
  <2>2. Tidy' /\ OutOrder
    <3>1. CASE Emit \/ Toggle \/ Foreign \/ Invalidate \/ Load
      BY <3>1, EmitTidy, SwitchTidy, LoadTidy
    <3>2. CASE Worker
      BY <3>2, DrainStartTidy, VisitTidy, ConsumeTidy, StatTidy DEF Worker
    <3>3. CASE Unload \/ Exit
      BY <3>3, UnloadTidy, StatTidy, CountTidy, EndTidy DEF Exit
    <3>4. CASE Crash \/ Boot
      BY <3>4, CrashTidy, BootTidy
    <3> QED BY <1>1, <3>1, <3>2, <3>3, <3>4 DEF ExportNext
  <2>3. Spotless' /\ Carried'
    BY <1>1, <2>1, <2>2, OutKeeps
  <2> QED BY <2>1, <2>2, <2>3 DEF CleanInv, Cleaner
<1>2. CASE Disturb
  BY <1>2, DisturbCarries
<1>3. CASE Receive
  BY <1>3, ReceiveCarries
<1>4. CASE Unheard \/ Deadline \/ Finally \/ ReceiverDies \/ Upload \/ UNCHANGED vars
  BY <1>4, EndsCarry
<1> QED BY <1>1, <1>2, <1>3, <1>4 DEF Next

\* What check_stream asks for: no raise, in a stream numbered without a gap.
LEMMA FineRaisesNothing ==
  ASSUME NEW f \in Seq(Packet), Fine(f),
         \A i \in DOMAIN f : f[i].seq = i - 1 /\ (f[i].kind = "end" => i = Len(f))
  PROVE  ~Raises(f)
<1>1. Len(f) \in Nat /\ DOMAIN f = 1..Len(f)
  OBVIOUS
<1>2. ASSUME NEW i \in 2..Len(f) PROVE ~(f[i].seq <= f[i - 1].seq) /\ f[i - 1].kind # "end"
  <2>1. i \in DOMAIN f /\ i - 1 \in DOMAIN f /\ i - 1 # Len(f)
    BY <1>1
  <2>2. f[i].seq = i - 1 /\ f[i - 1].seq = (i - 1) - 1
    BY <2>1
  <2>3. ~(i - 1 <= (i - 1) - 1)
    BY <1>1
  <2> QED BY <2>1, <2>2, <2>3
<1>3. ASSUME NEW i \in DOMAIN f PROVE (f[i].kind = "begin") <=> (i = 1 /\ f[i].seq = 0)
  BY <1>1 DEF Fine
<1>4. ASSUME NEW c \in Cpus, NEW i \in Of(f, "stats", c), NEW j \in Of(f, "stats", c)
      PROVE  ~(f[j].a < f[i].a)
  <2>1. f[i].a = 0 /\ f[j].a = 0
    BY DEF Fine, Of
  <2> QED BY <2>1
<1> QED BY <1>2, <1>3, <1>4 DEF Raises

LEMMA CleanIsEnough == StreamInv /\ ReceiverInv /\ CleanInv => CleanIsComplete
<1> SUFFICES ASSUME StreamInv, ReceiverInv, CleanInv, NEW s \in finished, clean[s],
                    NEW c \in Cpus, truth[s][c] > 0
             PROVE  Complete(file[s])
  BY DEF CleanIsComplete
<1> DEFINE f == file[s]
<1>1. s \in Ids /\ f # <<>> /\ Last(f).kind = "end" /\ f \in Seq(Packet) /\ f = sent[s]
  BY DEF ReceiverInv, AnnouncedIsDurable, CleanInv, Carried
<1>2. /\ Fine(f)
      /\ \A i \in DOMAIN f : f[i].seq = i - 1 /\ (f[i].kind = "end" => i = Len(f))
  BY <1>1 DEF CleanInv, Spotless, StreamInv, Numbered
<1>3. \A i \in DOMAIN f : f[i].kind = "end" /\ f[i].a = 0 /\ ~f[i].loss => Delivered(s)
  BY <1>1 DEF StreamInv, Accounted
<1>4. truth[s][c] \in Nat
  BY <1>1 DEF StreamInv, Shapes
<1>5. \A n \in Nat : Delivered(s) /\ n = truth[s][c] /\ Quieted(f, c) => Exactly(f, c, n)
  BY <1>1 DEF Delivered
<1> HIDE DEF f
<1>6. Len(f) \in DOMAIN f /\ Last(f) = f[Len(f)] /\ Len(f) \in Nat
  BY <1>1 DEF Last
<1>7. ~Raises(f)
  BY <1>1, <1>2, FineRaisesNothing
<1>8. PICK p : p = Last(f) /\ p = f[Len(f)]
  BY <1>6
<1>9. p.kind = "end" /\ p.a = 0 /\ p.b = 0 /\ p.seq = Len(f) - 1 /\ ~p.loss /\ Settled(f)
  BY <1>1, <1>2, <1>6, <1>8 DEF Fine
<1>10. Delivered(s)
  BY <1>3, <1>6, <1>8, <1>9
<1>11. Quieted(f, c)
  <2>1. PICK i \in Of(f, "stats", c) :
          f[i].b = 0 /\ \A j \in Of(f, "stats", c) \cup Of(f, "event", c) : j <= i
    BY <1>9 DEF Settled, SettledOn
  <2>2. f[i].a = 0
    BY <1>2, <2>1 DEF Fine, Of
  <2> QED BY <2>1, <2>2 DEF Quieted
<1>12. \E i \in DOMAIN f : f[i].kind = "event"
  <2>1. Exactly(f, c, truth[s][c])
    BY <1>4, <1>5, <1>10, <1>11
  <2>2. 1 \in 1..truth[s][c]
    BY <1>4
  <2>3. Of(f, "event", c) # {}
    BY <2>1, <2>2 DEF Exactly
  <2> QED BY <2>3 DEF Of
<1>13. (Len(f) - 1) + 1 = Len(f)
  BY <1>6
<1>14. \A i \in DOMAIN f : ~f[i].loss /\ (f[i].kind = "stats" => f[i].a = 0)
  BY <1>2 DEF Fine
<1>15. /\ Last(f).kind = "end" /\ Last(f).a = 0 /\ Last(f).b = 0
       /\ Last(f).seq + 1 = Len(f)
  BY <1>8, <1>9, <1>13
<1> QED BY <1>1, <1>7, <1>9, <1>12, <1>14, <1>15 DEF Complete, f

(***************************************************************************)
(* Nothing stands in the way of a clean session: for any number of CPUs,   *)
(* records and sessions, whatever the operator, the scheduling and the     *)
(* rest of the kernel do, a session without a fault that made records and  *)
(* that the receiver announces passes check_stream (transport_complete).   *)
(***************************************************************************)
THEOREM CleanSessionsAreComplete == Spec => []CleanIsComplete
<1>1. Init => CleanInv
  BY CleanInit
<1>2. CleanInv /\ StreamInv /\ ReceiverInv /\ [Next]_vars => CleanInv'
  BY CleanStep
<1>3. StreamInv /\ ReceiverInv /\ CleanInv => CleanIsComplete
  BY CleanIsEnough
<1> QED BY <1>1, <1>2, <1>3, StreamInvariant, PTL DEF Spec

=============================================================================
