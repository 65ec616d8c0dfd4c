------------------------- MODULE SessionStoreProofs -------------------------
(***************************************************************************)
(* The store of a session, for every segment length, number of checkpoints *)
(* kept, durability, and any number of transactions, crashes and failed    *)
(* file operations: the types, the checkpoints (PointerCorrect,            *)
(* FallbackKept) and, for the faults that Tolerated allows, recovery       *)
(* (RecoveryCorrect, WriterCorrect) and the refinement of the abstract log *)
(* (LogImplemented).                                                       *)
(*                                                                         *)
(* PointerUsable is not inductive: that the pointer may move to the new    *)
(* checkpoint needs that file to be whole when its installation ends, and  *)
(* that retention may remove a file needs the one CURRENT names to be      *)
(* among the newest, from the preflight's check to the last removal        *)
(* (PointerInv).  Only finitely many checkpoints exist, so that "among the *)
(* newest" can be counted.                                                 *)
(*                                                                         *)
(* RecoveryAccepts is not inductive.  That the next transaction continues  *)
(* the chain needs the writer's head to be the journal's (HeadInv,         *)
(* ProposalInv); that a crash leaves a chain needs frames to be appended   *)
(* only behind a whole segment (SegmentInv); that a power loss reaches     *)
(* nothing a checkpoint is anchored in needs everything before the current *)
(* segment to be synced (Files) and the anchors to be (Anchors, Holds).    *)
(* The refinement then needs that the journal has no gap behind the        *)
(* acknowledged log (Covers) and that no hash is used twice (Fresh).       *)
(***************************************************************************)
EXTENDS SessionStore, TLAPS, FiniteSetTheorems, SequenceTheorems, WellFoundedInduction

\* files of frames, whose names have a bound
Journals(segs) ==
    /\ DOMAIN segs \in SUBSET Nat
    /\ \A s \in DOMAIN segs : segs[s] \in Seq(Frames)

\* An entry is a transaction frame at a place of one of the segments.
LEMMA EntriesDef ==
    ASSUME NEW segs, Journals(segs)
    PROVE  /\ \A s \in DOMAIN segs : \A i \in 1..Len(segs[s]) :
                segs[s][i].kind = "txn" => <<s, i>> \in Entries(segs)
           /\ \A p \in Entries(segs) :
                /\ p = <<p[1], p[2]>>
                /\ p[1] \in DOMAIN segs /\ p[1] \in Nat
                /\ p[2] \in 1..Len(segs[p[1]]) /\ p[2] \in Nat
                /\ FrameAt(segs, p) = segs[p[1]][p[2]]
                /\ FrameAt(segs, p).kind = "txn"
                /\ FrameAt(segs, p) \in Frames
<1>1. \A s \in DOMAIN segs : DOMAIN segs[s] = 1..Len(segs[s]) /\ segs[s] \in Seq(Frames)
  BY LenProperties DEF Journals
<1>2. \A s \in DOMAIN segs : \A i \in 1..Len(segs[s]) :
                segs[s][i].kind = "txn" => <<s, i>> \in Entries(segs)
  BY <1>1 DEF Entries, Positions, FrameAt
<1>3. ASSUME NEW p \in Entries(segs)
      PROVE  /\ p = <<p[1], p[2]>>
                /\ p[1] \in DOMAIN segs /\ p[1] \in Nat
                /\ p[2] \in 1..Len(segs[p[1]]) /\ p[2] \in Nat
                /\ FrameAt(segs, p) = segs[p[1]][p[2]]
                /\ FrameAt(segs, p).kind = "txn"
                /\ FrameAt(segs, p) \in Frames
  <2>1. PICK s \in DOMAIN segs : p \in {s} \X DOMAIN segs[s]
    BY DEF Entries, Positions
  <2>2. p = <<s, p[2]>> /\ p[1] = s /\ p[2] \in 1..Len(segs[s])
    BY <2>1, <1>1
  <2>3. s \in Nat /\ p[2] \in Nat
    BY <2>2, <1>1, LenProperties DEF Journals
  <2>4. FrameAt(segs, p).kind = "txn" /\ segs[s][p[2]] \in Frames
    BY <2>2, <1>1, ElementOfSeq DEF Entries
  <2> QED BY <2>2, <2>3, <2>4 DEF FrameAt
<1> QED BY <1>2, <1>3

\* The smaller-than relation of the naturals, and its least elements.
LessThan == {p \in Nat \X Nat : p[1] < p[2]}

\* So that sets of naturals have least elements.
LEMMA LessThanWellFounded == IsWellFoundedOn(LessThan, Nat)
BY NatLessThanWellFounded DEF OpToRel, LessThan

\* A nonempty set of naturals has a least element,
LEMMA LeastNat == ASSUME NEW S \in SUBSET Nat, S # {} PROVE \E m \in S : \A k \in S : m <= k
<1>1. PICK m \in S : \A k \in S : ~(<<k, m>> \in LessThan)
  BY LessThanWellFounded, WFMin
<1>2. ASSUME NEW k \in S PROVE m <= k
  <2>1. <<k, m>> \in Nat \X Nat /\ <<k, m>>[1] = k /\ <<k, m>>[2] = m
    OBVIOUS
  <2>2. ~(k < m)
    BY <1>1, <2>1 DEF LessThan
  <2> QED BY <2>2
<1> QED BY <1>2

\* and a greatest one when it has a bound.
LEMMA GreatestNat ==
  ASSUME NEW S \in SUBSET Nat, S # {}, NEW b \in Nat, \A k \in S : k <= b
  PROVE \E m \in S : \A k \in S : k <= m
<1> DEFINE D == {d \in Nat : b - d \in S}
<1>1. \A k \in S : k \in Nat /\ b - k \in Nat /\ b - (b - k) = k
  OBVIOUS
<1>2. D \in SUBSET Nat /\ D # {}
  BY <1>1
<1>3. PICK d \in D : \A e \in D : d <= e
  BY <1>2, LeastNat
<1>4. b - d \in S /\ d \in Nat
  OBVIOUS
<1>5. ASSUME NEW k \in S PROVE k <= b - d
  <2>1. d <= b - k
    BY <1>1, <1>3
  <2> QED BY <2>1, <1>1, <1>4
<1> QED BY <1>4, <1>5

Bounded(segs) == \E b \in Nat : \A s \in DOMAIN segs : s <= b

IsLast(segs, p) == p \in Entries(segs) /\ \A q \in Entries(segs) : q = p \/ Before(q, p)

\* A journal with entries has a last one.
LEMMA LastExists ==
    ASSUME NEW segs, Journals(segs), Bounded(segs), Entries(segs) # {}
    PROVE  \E p \in Entries(segs) : IsLast(segs, p)
<1> DEFINE S == {p[1] : p \in Entries(segs)}
<1>1. S \in SUBSET Nat /\ S # {}
  BY EntriesDef
<1>2. PICK b \in Nat : \A s \in DOMAIN segs : s <= b
  BY DEF Bounded
<1>3. \A s \in S : s <= b
  BY <1>2, EntriesDef
<1>4. PICK s \in S : \A r \in S : r <= s
  <2> HIDE DEF S
  <2> QED BY <1>1, <1>3, GreatestNat
<1> DEFINE I == {p[2] : p \in {q \in Entries(segs) : q[1] = s}}
<1>5. I \in SUBSET Nat /\ I # {} /\ \A i \in I : i <= Len(segs[s])
  BY EntriesDef
<1>6. s \in DOMAIN segs /\ Len(segs[s]) \in Nat
  BY EntriesDef, LenProperties DEF Journals
<1>7. PICK i \in I : \A j \in I : j <= i
  <2> HIDE DEF I
  <2> QED BY <1>5, <1>6, GreatestNat
<1>8. PICK p \in Entries(segs) : p[1] = s /\ p[2] = i
  BY <1>7
<1>9. ASSUME NEW q \in Entries(segs) PROVE q = p \/ Before(q, p)
  <2>1. q[1] <= s
    BY <1>4
  <2>2. CASE q[1] < s
    BY <2>2, <1>8 DEF Before
  <2>3. CASE q[1] = s
    <3>1. q[2] <= i
      BY <1>7, <2>3
    <3>2. q = <<q[1], q[2]>> /\ p = <<p[1], p[2]>> /\ q[2] \in Nat /\ p[2] \in Nat
      BY EntriesDef
    <3> QED BY <2>3, <1>8, <3>1, <3>2 DEF Before
  <2>4. q[1] \in Nat /\ s \in Nat
    BY EntriesDef, <1>8
  <2> QED BY <2>1, <2>2, <2>3, <2>4
<1> QED BY <1>9 DEF IsLast

\* JournalHead is the sequence and the hash of the last entry.
LEMMA HeadIsLast ==
    ASSUME NEW segs, Journals(segs), NEW p \in Entries(segs), IsLast(segs, p)
    PROVE  JournalHead(segs) = [seq |-> FrameAt(segs, p).seq, hash |-> FrameAt(segs, p).hash]
<1>1. ASSUME NEW q \in Entries(segs), IsLast(segs, q) PROVE q = p
  <2>1. CASE Before(p, q) /\ Before(q, p)
    BY <2>1, EntriesDef DEF Before
  <2> QED BY <1>1, <2>1 DEF IsLast
<1>2. (CHOOSE q \in Entries(segs) : \A r \in Entries(segs) : r = q \/ Before(r, q)) = p
  BY <1>1 DEF IsLast
<1> QED BY <1>2 DEF JournalHead

\* A journal with entries has a head.
LEMMA HeadTyped ==
    ASSUME NEW segs, Journals(segs), Bounded(segs), Entries(segs) # {}
    PROVE  JournalHead(segs) \in Points
<1>1. PICK p \in Entries(segs) : IsLast(segs, p)
  BY LastExists
<1>2. FrameAt(segs, p).seq \in Nat /\ FrameAt(segs, p).hash \in Nat
  BY EntriesDef DEF Frames
<1> QED BY <1>1, <1>2, HeadIsLast DEF Points

Kept(f, g) ==
    /\ g.kind = f.kind /\ g.seq = f.seq /\ g.hash = f.hash /\ g.prev = f.prev
    /\ f.synced => g.synced

\* one segment is replaced by another sequence of frames
Replaced(segs, s, seg) == [segs EXCEPT ![s] = seg]
WithFrame(segs, s, f) == [segs EXCEPT ![s] = Append(@, f)]
Truncated(segs, s, k, end) == [segs EXCEPT ![s] = SubSeq(@, 1, k) \o end]
Without(segs, s) == [t \in DOMAIN segs \ {s} |-> segs[t]]

\* Replacing one segment leaves the others.
LEMMA SegmentReplaced ==
    ASSUME NEW segs, Journals(segs), Bounded(segs), NEW s \in DOMAIN segs, NEW seg \in Seq(Frames),
           NEW new, new = Replaced(segs, s, seg)
    PROVE  /\ DOMAIN new = DOMAIN segs
           /\ Journals(new) /\ Bounded(new)
           /\ new[s] = seg
           /\ \A r \in DOMAIN segs : r # s => new[r] = segs[r]
<1> QED BY DEF Replaced, Journals, Bounded

\* Where the next frame of a segment goes.
End(segs, s) == <<s, Len(segs[s]) + 1>>

\* An appended frame is a new entry when it is a transaction, and none when it is not.
LEMMA AppendEntries ==
    ASSUME NEW segs, Journals(segs), Bounded(segs), NEW s \in DOMAIN segs, NEW f \in Frames,
           NEW new, new = WithFrame(segs, s, f)
    PROVE  /\ DOMAIN new = DOMAIN segs
           /\ Journals(new) /\ Bounded(new)
           /\ \A r \in DOMAIN segs : r # s => new[r] = segs[r]
           /\ f.kind # "txn" => Entries(new) = Entries(segs)
           /\ f.kind = "txn" => Entries(new) = Entries(segs) \cup {End(segs, s)}
           /\ \A p \in Entries(segs) : FrameAt(new, p) = FrameAt(segs, p)
           /\ FrameAt(new, End(segs, s)) = f
<1> DEFINE last == <<s, Len(segs[s]) + 1>>
<1>0. last = End(segs, s)
  BY DEF End
<1>1. segs[s] \in Seq(Frames)
  BY DEF Journals
<1>2. /\ Append(segs[s], f) \in Seq(Frames)
      /\ Len(Append(segs[s], f)) = Len(segs[s]) + 1
      /\ \A i \in 1..Len(segs[s]) : Append(segs[s], f)[i] = segs[s][i]
      /\ Append(segs[s], f)[Len(segs[s]) + 1] = f
      /\ Len(segs[s]) \in Nat
  BY <1>1, AppendProperties, LenProperties
<1>3. /\ DOMAIN new = DOMAIN segs
      /\ Journals(new) /\ Bounded(new)
      /\ new[s] = Append(segs[s], f)
      /\ \A r \in DOMAIN segs : r # s => new[r] = segs[r]
  <2> DEFINE seg == Append(segs[s], f)
  <2>1. seg \in Seq(Frames) /\ new = Replaced(segs, s, seg)
    BY <1>2 DEF WithFrame, Replaced
  <2> HIDE DEF seg
  <2>2. /\ DOMAIN new = DOMAIN segs
        /\ Journals(new) /\ Bounded(new)
        /\ new[s] = seg
        /\ \A r \in DOMAIN segs : r # s => new[r] = segs[r]
    BY <2>1, SegmentReplaced
  <2> QED BY <2>2 DEF seg
<1>4. ASSUME NEW p \in Entries(segs)
      PROVE  p \in Entries(new) /\ FrameAt(new, p) = FrameAt(segs, p)
  <2>1. /\ p = <<p[1], p[2]>> /\ p[1] \in DOMAIN segs /\ p[2] \in 1..Len(segs[p[1]])
        /\ FrameAt(segs, p) = segs[p[1]][p[2]] /\ FrameAt(segs, p).kind = "txn"
    BY EntriesDef
  <2>2. p[2] \in 1..Len(new[p[1]]) /\ new[p[1]][p[2]] = segs[p[1]][p[2]]
    BY <2>1, <1>2, <1>3
  <2>3. <<p[1], p[2]>> \in Entries(new)
    BY <2>1, <2>2, <1>3, EntriesDef
  <2> QED BY <2>1, <2>2, <2>3 DEF FrameAt
<1>5. FrameAt(new, last) = f
  BY <1>2, <1>3 DEF FrameAt
<1>6. f.kind = "txn" => last \in Entries(new)
  BY <1>2, <1>3, EntriesDef
<1>7. ASSUME NEW p \in Entries(new), p \notin Entries(segs) PROVE p = last /\ f.kind = "txn"
  <2>1. /\ p = <<p[1], p[2]>> /\ p[1] \in DOMAIN new /\ p[2] \in 1..Len(new[p[1]])
        /\ new[p[1]][p[2]].kind = "txn"
    BY <1>3, EntriesDef
  <2>2. ~(p[2] \in 1..Len(segs[p[1]]) /\ segs[p[1]][p[2]] = new[p[1]][p[2]])
    BY <2>1, <1>3, <1>7, EntriesDef
  <2>3. p[1] = s
    BY <2>1, <2>2, <1>3
  <2>4. p[2] = Len(segs[s]) + 1
    BY <2>1, <2>2, <2>3, <1>2, <1>3
  <2> QED BY <2>1, <2>3, <2>4, <1>2, <1>3
<1>8. Entries(new) = Entries(segs) \cup {p \in {last} : f.kind = "txn"}
  BY <1>4, <1>6, <1>7
<1> QED BY <1>0, <1>3, <1>4, <1>5, <1>8

\* An fsync marks every frame of a segment and changes nothing else of it.
LEMMA SyncProperties ==
    ASSUME NEW seg \in Seq(Frames)
    PROVE  /\ Sync(seg) \in Seq(Frames) /\ Len(Sync(seg)) = Len(seg)
           /\ \A i \in 1..Len(seg) : Sync(seg)[i].synced /\ Kept(seg[i], Sync(seg)[i])
<1>1. DOMAIN seg = 1..Len(seg) /\ Len(seg) \in Nat
  BY LenProperties
<1>2. ASSUME NEW i \in 1..Len(seg)
      PROVE  /\ Sync(seg)[i] \in Frames
             /\ Sync(seg)[i].synced /\ Kept(seg[i], Sync(seg)[i])
  <2>1. seg[i] \in Frames
    BY ElementOfSeq
  <2>2. seg[i] = [kind |-> seg[i].kind, seq |-> seg[i].seq, hash |-> seg[i].hash,
                  prev |-> seg[i].prev, synced |-> seg[i].synced]
    BY <2>1 DEF Frames
  <2>3. Sync(seg)[i] = [kind |-> seg[i].kind, seq |-> seg[i].seq, hash |-> seg[i].hash,
                  prev |-> seg[i].prev, synced |-> TRUE]
    BY <1>1, <2>2, Zenon DEF Sync
  <2> QED BY <2>1, <2>3 DEF Frames, Kept
<1>3. Sync(seg) = [i \in 1..Len(seg) |-> Sync(seg)[i]]
  BY <1>1 DEF Sync
<1>4. Sync(seg) \in Seq(Frames)
  BY <1>1, <1>2, <1>3, IsASeq
<1> QED BY <1>1, <1>2, <1>3, <1>4, LenProperties

\* The same, as the journal sees it.
LEMMA SyncEntries ==
    ASSUME NEW segs, Journals(segs), Bounded(segs), NEW s \in DOMAIN segs,
           NEW new, new = Replaced(segs, s, Sync(segs[s]))
    PROVE  /\ DOMAIN new = DOMAIN segs
           /\ Journals(new) /\ Bounded(new)
           /\ new[s] = Sync(segs[s])
           /\ \A r \in DOMAIN segs : r # s => new[r] = segs[r]
           /\ Entries(new) = Entries(segs)
           /\ \A p \in Entries(segs) : Kept(FrameAt(segs, p), FrameAt(new, p))
           /\ \A p \in Entries(segs) : p[1] = s => FrameAt(new, p).synced
<1>1. segs[s] \in Seq(Frames)
  BY DEF Journals
<1>2. /\ Sync(segs[s]) \in Seq(Frames) /\ Len(Sync(segs[s])) = Len(segs[s])
      /\ \A i \in 1..Len(segs[s]) : Sync(segs[s])[i].synced /\ Kept(segs[s][i], Sync(segs[s])[i])
  BY <1>1, SyncProperties
<1>3. /\ DOMAIN new = DOMAIN segs
      /\ Journals(new) /\ Bounded(new)
      /\ new[s] = Sync(segs[s])
      /\ \A r \in DOMAIN segs : r # s => new[r] = segs[r]
  BY <1>2, SegmentReplaced
<1>4. \A r \in DOMAIN segs : /\ Len(new[r]) = Len(segs[r])
                             /\ \A i \in 1..Len(segs[r]) : Kept(segs[r][i], new[r][i])
  BY <1>2, <1>3 DEF Kept
<1>5. ASSUME NEW p \in Entries(segs)
      PROVE  /\ p \in Entries(new) /\ Kept(FrameAt(segs, p), FrameAt(new, p))
             /\ p[1] = s => FrameAt(new, p).synced
  <2>1. /\ p = <<p[1], p[2]>> /\ p[1] \in DOMAIN segs /\ p[2] \in 1..Len(segs[p[1]])
        /\ FrameAt(segs, p) = segs[p[1]][p[2]] /\ FrameAt(segs, p).kind = "txn"
    BY EntriesDef
  <2>2. Kept(FrameAt(segs, p), FrameAt(new, p)) /\ (p[1] = s => FrameAt(new, p).synced)
    BY <2>1, <1>2, <1>3, <1>4 DEF FrameAt
  <2>3. new[p[1]][p[2]].kind = "txn" /\ p[2] \in 1..Len(new[p[1]])
    BY <2>1, <2>2, <1>4 DEF FrameAt, Kept
  <2>4. <<p[1], p[2]>> \in Entries(new)
    BY <2>1, <2>3, <1>3, EntriesDef
  <2> QED BY <2>1, <2>2, <2>4
<1>6. ASSUME NEW p \in Entries(new) PROVE p \in Entries(segs)
  <2>1. /\ p = <<p[1], p[2]>> /\ p[1] \in DOMAIN segs /\ p[2] \in 1..Len(segs[p[1]])
        /\ new[p[1]][p[2]].kind = "txn"
    BY <1>3, <1>4, EntriesDef
  <2>2. segs[p[1]][p[2]].kind = "txn"
    BY <2>1, <1>4 DEF Kept
  <2>3. <<p[1], p[2]>> \in Entries(segs)
    BY <2>1, <2>2, EntriesDef
  <2> QED BY <2>1, <2>3
<1>7. Entries(new) = Entries(segs)
  BY <1>5, <1>6
<1> QED BY <1>3, <1>5, <1>7

\* A crash leaves the first frames of a segment, and perhaps one torn frame behind them.
LEMMA TruncatedSegment ==
    ASSUME NEW seg \in Seq(Frames), NEW k \in Nat, k <= Len(seg), NEW end \in {<< >>, <<Torn>>}
    PROVE  LET cut == SubSeq(seg, 1, k) \o end IN
           /\ cut \in Seq(Frames)
           /\ Len(cut) = k + Len(end) /\ Len(end) \in {0, 1}
           /\ \A i \in 1..k : cut[i] = seg[i]
           /\ end # << >> => cut[k + 1] = Torn
<1>1. Torn \in Frames
  BY DEF Torn, Frames, FrameKinds, Seals, NoHash
<1>2. end \in Seq(Frames)
  <2>1. << >> \in Seq(Frames)
    BY EmptySeq
  <2>2. Append(<< >>, Torn) \in Seq(Frames) /\ Append(<< >>, Torn) = <<Torn>>
    BY <1>1, <2>1, AppendProperties
  <2> QED BY <2>1, <2>2
<1>3. /\ SubSeq(seg, 1, k) \in Seq(Frames) /\ Len(SubSeq(seg, 1, k)) = k
      /\ \A i \in 1..k : SubSeq(seg, 1, k)[i] = seg[i]
  BY SubSeqProperties, LenProperties
<1>4. /\ Len(end) \in {0, 1} /\ Len(end) \in Nat
      /\ end # << >> => end = <<Torn>> /\ Len(end) = 1 /\ end[1] = Torn
  OBVIOUS
<1> DEFINE cut == SubSeq(seg, 1, k) \o end
<1>5. /\ cut \in Seq(Frames) /\ Len(cut) = k + Len(end)
      /\ \A i \in 1..(k + Len(end)) : cut[i] = IF i <= k THEN SubSeq(seg, 1, k)[i] ELSE end[i - k]
  BY <1>2, <1>3, ConcatProperties
<1>6. \A i \in 1..k : cut[i] = seg[i]
  <2> HIDE DEF cut
  <2> QED BY <1>3, <1>4, <1>5
<1>7. end # << >> => cut[k + 1] = Torn
  <2> HIDE DEF cut
  <2>1. end # << >> => k + 1 \in 1..(k + Len(end)) /\ ~(k + 1 <= k) /\ (k + 1) - k = 1
    BY <1>4
  <2> QED BY <1>4, <1>5, <2>1
<1> QED BY <1>4, <1>5, <1>6, <1>7

\* The same, as the journal sees it.
LEMMA TruncateEntries ==
    ASSUME NEW segs, Journals(segs), Bounded(segs), NEW s \in DOMAIN segs,
           NEW k \in Nat, k <= Len(segs[s]), NEW end \in {<< >>, <<Torn>>},
           NEW new, new = Truncated(segs, s, k, end)
    PROVE  /\ DOMAIN new = DOMAIN segs
           /\ Journals(new) /\ Bounded(new)
           /\ \A r \in DOMAIN segs : r # s => new[r] = segs[r]
           /\ Entries(new) = {p \in Entries(segs) : p[1] = s => p[2] <= k}
           /\ \A p \in Entries(new) : FrameAt(new, p) = FrameAt(segs, p)
<1> DEFINE cut == SubSeq(segs[s], 1, k) \o end
<1>0. new = Replaced(segs, s, cut)
  BY DEF Replaced, Truncated
<1>1. segs[s] \in Seq(Frames)
  BY DEF Journals
<1>2. /\ cut \in Seq(Frames)
      /\ Len(cut) = k + Len(end) /\ Len(end) \in {0, 1}
      /\ \A i \in 1..k : cut[i] = segs[s][i]
      /\ end # << >> => cut[k + 1] = Torn
  BY <1>1, TruncatedSegment
<1>3. end = << >> => Len(end) = 0
  OBVIOUS
<1> HIDE DEF cut
<1>4. /\ DOMAIN new = DOMAIN segs
      /\ Journals(new) /\ Bounded(new)
      /\ new[s] = cut
      /\ \A r \in DOMAIN segs : r # s => new[r] = segs[r]
  BY <1>0, <1>2, SegmentReplaced
<1>5. Torn.kind # "txn"
  BY DEF Torn
<1>6. ASSUME NEW p \in Entries(new)
      PROVE  /\ p \in Entries(segs) /\ (p[1] = s => p[2] <= k)
             /\ FrameAt(new, p) = FrameAt(segs, p)
  <2>1. /\ p = <<p[1], p[2]>> /\ p[1] \in DOMAIN segs /\ p[2] \in 1..Len(new[p[1]])
        /\ FrameAt(new, p) = new[p[1]][p[2]] /\ FrameAt(new, p).kind = "txn"
    BY <1>4, EntriesDef
  <2>2. ASSUME p[1] = s, ~(p[2] <= k) PROVE FALSE
    <3>0. p[2] \in 1..(k + Len(end)) /\ p[2] > k /\ Len(end) \in {0, 1}
      BY <2>1, <2>2, <1>2, <1>4
    <3>1. p[2] = k + 1 /\ Len(end) = 1
      <4> DEFINE n == Len(end)  i == p[2]
      <4>1. n \in {0, 1} /\ i \in 1..(k + n) /\ i > k
        BY <3>0
      <4> HIDE DEF n, i
      <4>2. i = k + 1 /\ n = 1
        BY <4>1
      <4> QED BY <4>2 DEF n, i
    <3>2. cut[p[2]].kind = Torn.kind
      BY <3>1, <1>2, <1>3
    <3> QED BY <3>2, <2>1, <2>2, <1>4, <1>5
  <2>3. /\ p[2] \in 1..Len(segs[p[1]]) /\ segs[p[1]][p[2]] = new[p[1]][p[2]]
    BY <2>1, <2>2, <1>2, <1>4, <1>1, LenProperties
  <2>4. <<p[1], p[2]>> \in Entries(segs)
    BY <2>1, <2>3, EntriesDef
  <2> QED BY <2>1, <2>2, <2>3, <2>4 DEF FrameAt
<1>7. ASSUME NEW p \in Entries(segs), p[1] = s => p[2] <= k
      PROVE  p \in Entries(new)
  <2>1. /\ p = <<p[1], p[2]>> /\ p[1] \in DOMAIN segs /\ p[2] \in 1..Len(segs[p[1]])
        /\ segs[p[1]][p[2]].kind = "txn"
    BY EntriesDef
  <2>2. p[2] \in 1..Len(new[p[1]]) /\ segs[p[1]][p[2]] = new[p[1]][p[2]]
    BY <2>1, <1>7, <1>2, <1>4, <1>1, LenProperties
  <2>3. <<p[1], p[2]>> \in Entries(new)
    BY <2>1, <2>2, <1>4, EntriesDef
  <2> QED BY <2>1, <2>3
<1>8. Entries(new) = {p \in Entries(segs) : p[1] = s => p[2] <= k}
  BY <1>6, <1>7
<1> QED BY <1>4, <1>6, <1>8 DEF cut

\* Removing a segment removes its entries.
LEMMA RemoveEntries ==
    ASSUME NEW segs, Journals(segs), Bounded(segs), NEW s \in DOMAIN segs,
           NEW new, new = Without(segs, s)
    PROVE  /\ Journals(new) /\ Bounded(new)
           /\ Entries(new) = {p \in Entries(segs) : p[1] # s}
           /\ \A p \in Entries(new) : FrameAt(new, p) = FrameAt(segs, p)
<1>1. /\ DOMAIN new = DOMAIN segs \ {s} /\ \A r \in DOMAIN new : new[r] = segs[r]
      /\ Journals(new) /\ Bounded(new)
  BY DEF Without, Journals, Bounded
<1>2. ASSUME NEW p \in Entries(new)
      PROVE  /\ p \in Entries(segs) /\ p[1] # s /\ FrameAt(new, p) = FrameAt(segs, p)
  <2>1. /\ p = <<p[1], p[2]>> /\ p[1] \in DOMAIN new /\ p[2] \in 1..Len(new[p[1]])
        /\ FrameAt(new, p) = new[p[1]][p[2]] /\ new[p[1]][p[2]].kind = "txn"
    BY <1>1, EntriesDef
  <2>2. <<p[1], p[2]>> \in Entries(segs)
    BY <2>1, <1>1, EntriesDef
  <2> QED BY <2>1, <2>2, <1>1 DEF FrameAt
<1>3. ASSUME NEW p \in Entries(segs), p[1] # s PROVE p \in Entries(new)
  <2>1. /\ p = <<p[1], p[2]>> /\ p[1] \in DOMAIN segs /\ p[2] \in 1..Len(segs[p[1]])
        /\ segs[p[1]][p[2]].kind = "txn"
    BY EntriesDef
  <2>2. <<p[1], p[2]>> \in Entries(new)
    BY <2>1, <1>1, <1>3, EntriesDef
  <2> QED BY <2>1, <2>2
<1>4. Entries(new) = {p \in Entries(segs) : p[1] # s}
  BY <1>2, <1>3
<1> QED BY <1>1, <1>2, <1>4

\* A created segment is empty, and one that exists is left alone.
LEMMA CreateEntries ==
    ASSUME NEW segs, Journals(segs), Bounded(segs), NEW s \in Nat,
           NEW new, new = CreateFile(segs, s, << >>)
    PROVE  /\ Journals(new) /\ Bounded(new)
           /\ DOMAIN new = DOMAIN segs \cup {s}
           /\ \A r \in DOMAIN segs : new[r] = segs[r]
           /\ s \notin DOMAIN segs => new[s] = << >>
           /\ Entries(new) = Entries(segs)
           /\ \A p \in Entries(segs) : FrameAt(new, p) = FrameAt(segs, p)
<1>1. /\ DOMAIN new = DOMAIN segs \cup {s}
      /\ \A r \in DOMAIN segs : new[r] = segs[r]
      /\ s \notin DOMAIN segs => new[s] = << >>
  BY DEF CreateFile
<1>2. Journals(new)
  <2>1. << >> \in Seq(Frames)
    BY EmptySeq
  <2>2. \A r \in DOMAIN new : new[r] \in Seq(Frames)
    BY <1>1, <2>1 DEF Journals
  <2>3. DOMAIN new \in SUBSET Nat
    BY <1>1 DEF Journals
  <2> QED BY <2>2, <2>3 DEF Journals
<1>3. Bounded(new)
  <2>1. PICK b \in Nat : \A r \in DOMAIN segs : r <= b
    BY DEF Bounded
  <2>2. b + s \in Nat /\ \A r \in DOMAIN new : r <= b + s
    BY <2>1, <1>1 DEF Journals
  <2> QED BY <2>2 DEF Bounded
<1>4. ASSUME NEW p \in Entries(new)
      PROVE  /\ p \in Entries(segs)
  <2>1. /\ p = <<p[1], p[2]>> /\ p[1] \in DOMAIN new /\ p[2] \in 1..Len(new[p[1]])
        /\ new[p[1]][p[2]].kind = "txn"
    BY <1>2, EntriesDef
  <2>2. p[1] \in DOMAIN segs
    <3>1. Len(<< >>) = 0
      OBVIOUS
    <3> QED BY <3>1, <2>1, <1>1
  <2>3. <<p[1], p[2]>> \in Entries(segs)
    BY <2>1, <2>2, <1>1, EntriesDef
  <2> QED BY <2>1, <2>3
<1>5. ASSUME NEW p \in Entries(segs) PROVE p \in Entries(new) /\ FrameAt(new, p) = FrameAt(segs, p)
  <2>1. /\ p = <<p[1], p[2]>> /\ p[1] \in DOMAIN segs /\ p[2] \in 1..Len(segs[p[1]])
        /\ segs[p[1]][p[2]].kind = "txn"
    BY EntriesDef
  <2>2. <<p[1], p[2]>> \in Entries(new)
    BY <2>1, <1>1, <1>2, EntriesDef
  <2> QED BY <2>1, <2>2, <1>1 DEF FrameAt
<1> QED BY <1>1, <1>2, <1>3, <1>4, <1>5

FilesInv ==
    /\ Bounded(segments)
    /\ pc # "down" => current \in DOMAIN segments /\ Entries(segments) # {}
    /\ pc = "switch" => current + 1 \in DOMAIN segments

\* no theorem: what does not concern the segments
LEMMA FramesTyped ==
    /\ \A n, h, p \in Nat : Transaction(n, h, p) \in Frames
    /\ \A reason \in Seals : Terminal(reason) \in Frames
    /\ Torn \in Frames
  BY DEF Transaction, Terminal, Torn, Frames, FrameKinds, Seals, NoHash

\* A new session has one segment, one checkpoint and one transaction.
LEMMA TypeInit == Init => TypeOK /\ FilesInv
<1> SUFFICES ASSUME Init PROVE TypeOK /\ FilesInv
  OBVIOUS
<1> DEFINE first == Synced(Transaction(1, 1, NoHash))  seal == Synced(Terminal("segment sealed"))
<1>1. first \in Frames /\ seal \in Frames /\ first.kind = "txn"
  BY DEF Synced, Transaction, Terminal, Frames, FrameKinds, Seals, NoHash
<1> HIDE DEF first, seal
<1>2. segments = << <<first, seal>>, << >> >> \/ segments = << <<first>> >>
  BY DEF Init, FirstFrames, first, seal
<1>3. << >> \in Seq(Frames) /\ <<first>> \in Seq(Frames) /\ <<first, seal>> \in Seq(Frames)
  BY <1>1
<1>4. Journals(segments) /\ Bounded(segments)
  <2>1. CASE segments = << <<first, seal>>, << >> >>
    <3>1. DOMAIN segments = {1, 2} /\ segments[1] = <<first, seal>> /\ segments[2] = << >>
      BY <2>1
    <3>2. Bounded(segments)
      <4>1. 2 \in Nat /\ \A s \in DOMAIN segments : s <= 2
        BY <3>1
      <4> QED BY <4>1 DEF Bounded
    <3>3. \A s \in DOMAIN segments : segments[s] \in Seq(Frames)
      BY <3>1, <1>3
    <3>4. DOMAIN segments \in SUBSET Nat
      BY <3>1
    <3> QED BY <3>2, <3>3, <3>4 DEF Journals
  <2>2. CASE segments = << <<first>> >>
    <3>1. DOMAIN segments = {1} /\ segments[1] = <<first>>
      BY <2>2
    <3> QED BY <3>1, <1>3 DEF Journals, Bounded
  <2> QED BY <2>1, <2>2, <1>2
<1>5. FilesInv
  BY <1>4 DEF Init, FilesInv
<1>6. candidate \in Frames /\ writing \in Frames
  BY FramesTyped DEF Init, NoHash
<1>7. acked \in Seq(Nat)
  BY DEF Init
<1>8. \A n \in DOMAIN snapshots : snapshots[n] \in [hash: Nat, complete: BOOLEAN]
  BY DEF Init
<1> QED BY <1>4, <1>5, <1>6, <1>7, <1>8 DEF Init, TypeOK, Journals, Steps, Flows, Points

\* What Propose writes next.
LEMMA Proposed ==
    ASSUME TypeOK, NEW who \in Flows, NEW point \in Points, Propose(who, point)
    PROVE  /\ candidate' = Transaction(point.seq + 1, proposals + 1, point.hash)
           /\ candidate' \in Frames /\ writing' = candidate' /\ flow' = who /\ pc' = "write"
           /\ proposals' = proposals + 1 /\ proposals' \in Nat
<1>1. point.seq + 1 \in Nat /\ point.hash \in Nat
  BY DEF Points
<1>2. proposals + 1 \in Nat
  BY DEF TypeOK
<1> QED BY <1>1, <1>2, FramesTyped DEF Propose

\* A step that leaves the files and the loaded session alone
LEMMA TypeOpen == ASSUME TypeOK, FilesInv, Open PROVE TypeOK' /\ FilesInv'
<1>1. Journals(segments) /\ Bounded(segments)
  BY DEF TypeOK, FilesInv, Journals
<1>2. journalCurrent \in DOMAIN segments
  BY DEF Open, Accepts, Scannable
<1>3. Entries(segments) # {}
  BY DEF Open, Accepts, Anchored, Retained
<1> DEFINE seg == segments[journalCurrent]
<1>a. seg \in Seq(Frames)
  BY <1>1, <1>2 DEF Journals
<1>4. /\ Journals(segments') /\ Bounded(segments')
      /\ DOMAIN segments' = DOMAIN segments /\ Entries(segments') # {}
  <2>1. CASE ~CrashTail(segments[journalCurrent])
    BY <2>1, <1>1, <1>3 DEF Open
  <2>2. CASE CrashTail(seg)
    <3> DEFINE k == Len(seg) - 1
               cut == Truncated(segments, journalCurrent, k, << >>)
    <3>1. k \in Nat /\ k <= Len(seg) /\ seg[k + 1].kind = "torn"
      BY <2>2, <1>a, LenProperties DEF CrashTail
    <3>2. /\ DOMAIN cut = DOMAIN segments
          /\ Journals(cut) /\ Bounded(cut)
          /\ Entries(cut) = {p \in Entries(segments) : p[1] = journalCurrent => p[2] <= k}
      BY <1>1, <1>2, <3>1, TruncateEntries
    <3>3. SubSeq(seg, 1, k) \o << >> = ValidPrefix(seg)
      <4>1. SubSeq(seg, 1, k) \in Seq(Frames)
        BY <1>a, <3>1, SubSeqProperties
      <4> QED BY <4>1, <2>2, ConcatEmptySeq DEF ValidPrefix
    <3>4. segments' = Replaced(cut, journalCurrent, Sync(cut[journalCurrent]))
      BY <2>2, <1>2, <3>3, <3>2 DEF Open, Replaced, Truncated
    <3> HIDE DEF cut
    <3>5. /\ Journals(segments') /\ Bounded(segments')
          /\ DOMAIN segments' = DOMAIN cut /\ Entries(segments') = Entries(cut)
      BY <3>4, <3>2, <1>2, SyncEntries
    <3>6. \A p \in Entries(segments) : p[1] = journalCurrent => p[2] <= k
      BY <3>1, EntriesDef, <1>1
    <3> QED BY <3>2, <3>5, <3>6, <1>3
  <2> QED BY <2>1, <2>2
<1>5. head' \in Points
  <2>1. head' = JournalHead(segments)
    BY DEF Open
  <2>2. JournalHead(segments) \in Points
    BY <1>1, <1>3, HeadTyped
  <2> QED BY <2>1, <2>2
<1>6. candidate' \in Frames /\ writing' = candidate' /\ proposals' \in Nat
  BY <1>5, Proposed DEF Open, Flows
<1>7. frames' \in Nat
  <2>1. segments'[journalCurrent] \in Seq(Frames)
    BY <1>4, <1>2 DEF Journals
  <2> QED BY <2>1, LenProperties DEF Open
<1>8. FilesInv'
  BY <1>4, <1>2 DEF FilesInv, Open, Propose
<1> QED BY <1>4, <1>5, <1>6, <1>7, <1>8 DEF Open, Propose, TypeOK, Journals, Steps, Flows

\* Each action keeps the types: a transaction is proposed,
LEMMA TypeSubmit == ASSUME TypeOK, FilesInv, Submit PROVE TypeOK' /\ FilesInv'
<1>1. head \in Points
  BY DEF TypeOK
<1>2. /\ candidate' \in Frames /\ writing' = candidate' /\ proposals' \in Nat
      /\ flow' = "commit" /\ pc' = "write"
  BY <1>1, Proposed DEF Submit, Flows
<1> QED BY <1>2 DEF Submit, disk, TypeOK, FilesInv, Steps, Flows, Bounded, Entries, Positions, FrameAt

\* Where Goto may go.
LEMMA AppendedTyped ==
    ASSUME TypeOK, Appended
    PROVE  /\ frames' \in Nat /\ writing' \in Frames /\ flow' = flow /\ candidate' = candidate
           /\ pc' \in {"reply", "write", "create"}
<1>1. frames + 1 \in Nat /\ writing \in Frames
  BY DEF TypeOK
<1>2. Terminal("segment sealed") \in Frames
  BY FramesTyped DEF Seals
<1> QED BY <1>1, <1>2 DEF Appended, Goto

\* (what an append error leaves)
LEMMA AppendFailedTyped ==
    ASSUME TypeOK, AppendFailed
    PROVE  /\ availability' \in {"available", "unavailable"}
           /\ flow' = flow /\ candidate' = candidate /\ pc' \in {"down", "idle"}
  BY DEF AppendFailed, EndCheckpoint, Goto, TypeOK

\* appended,
LEMMA TypeWrite == ASSUME TypeOK, FilesInv, Write PROVE TypeOK' /\ FilesInv'
<1>1. Journals(segments) /\ Bounded(segments) /\ current \in DOMAIN segments /\ writing \in Frames
      /\ Entries(segments) # {}
  BY DEF TypeOK, FilesInv, Journals, Write
<1>2. segments' = WithFrame(segments, current, writing) /\ current' = current
  BY DEF Write, WithFrame
<1>3. /\ Journals(segments') /\ Bounded(segments') /\ DOMAIN segments' = DOMAIN segments
      /\ Entries(segments) \subseteq Entries(segments')
  BY <1>1, <1>2, AppendEntries
<1>4. /\ frames' \in Nat /\ writing' \in Frames /\ flow' = flow /\ candidate' = candidate
      /\ pc' \in {"reply", "write", "create", "flush"}
  BY AppendedTyped DEF Write, Goto, TypeOK
<1>5. UNCHANGED <<journalCurrent, snapshots, snapshotCurrent, head, current,
                  spared, availability, acked, proposals, crashes, faults>>
  BY DEF Write, bounds
<1> QED BY <1>1, <1>3, <1>4, <1>5 DEF TypeOK, FilesInv, Journals, Steps

\* flushed,
LEMMA TypeFlush == ASSUME TypeOK, FilesInv, Flush PROVE TypeOK' /\ FilesInv'
<1>1. Journals(segments) /\ Bounded(segments) /\ current \in DOMAIN segments
      /\ Entries(segments) # {}
  BY DEF TypeOK, FilesInv, Journals, Flush
<1>2. segments' = Replaced(segments, current, Sync(segments[current]))
  BY DEF Flush, Replaced
<1>3. /\ Journals(segments') /\ Bounded(segments') /\ DOMAIN segments' = DOMAIN segments
      /\ Entries(segments') # {}
  BY <1>1, <1>2, SyncEntries
<1>4. /\ frames' \in Nat /\ writing' \in Frames /\ flow' = flow /\ candidate' = candidate
      /\ pc' \in {"reply", "write", "create"}
  BY AppendedTyped DEF Flush
<1>5. UNCHANGED <<journalCurrent, snapshots, snapshotCurrent, head, current,
                  spared, availability, acked, proposals, crashes, faults>>
  BY DEF Flush, bounds
<1> QED BY <1>1, <1>3, <1>4, <1>5 DEF TypeOK, FilesInv, Journals, Steps

\* (the journal with the next segment)
LEMMA CreatedTyped ==
    ASSUME TypeOK, FilesInv
    PROVE  /\ Journals(Created) /\ Bounded(Created)
           /\ DOMAIN Created = DOMAIN segments \cup {current + 1}
           /\ Entries(Created) = Entries(segments)
<1>1. Journals(segments) /\ Bounded(segments) /\ current + 1 \in Nat
  BY DEF TypeOK, FilesInv, Journals
<1> QED BY <1>1, CreateEntries DEF Created

\* put behind a new segment
LEMMA TypeCreate == ASSUME TypeOK, FilesInv, Create PROVE TypeOK' /\ FilesInv'
<1>1. /\ Journals(segments') /\ Bounded(segments')
      /\ DOMAIN segments' = DOMAIN segments \cup {current + 1}
      /\ Entries(segments') # {} /\ current \in DOMAIN segments
  BY CreatedTyped DEF Create, FilesInv
<1>2. /\ availability' \in {"available", "unavailable"}
      /\ flow' = flow /\ candidate' = candidate /\ pc' \in {"down", "idle", "switch"}
  BY AppendFailedTyped DEF Create, Goto, TypeOK
<1>3. UNCHANGED <<journalCurrent, snapshots, snapshotCurrent, writing, head,
                  current, frames, spared, acked, proposals, crashes, faults>>
  BY DEF Create, bounds
<1> QED BY <1>1, <1>2, <1>3 DEF TypeOK, FilesInv, Journals, Steps

\* that CURRENT is switched to,
LEMMA TypeSwitch == ASSUME TypeOK, FilesInv, Switch PROVE TypeOK' /\ FilesInv'
<1>1. /\ current + 1 \in DOMAIN segments /\ current' = current + 1 /\ journalCurrent' = current + 1
      /\ frames' = 0 /\ pc' \in {"down", "idle", "reply"}
      /\ UNCHANGED <<segments, snapshots, snapshotCurrent, writing, head, flow, candidate,
                     spared, availability, acked, proposals, crashes, faults>>
  BY DEF Switch, FilesInv, EndCheckpoint, Goto, bounds
<1>2. current + 1 \in Nat /\ Entries(segments) # {}
  BY DEF TypeOK, FilesInv, Switch
<1> QED BY <1>1, <1>2 DEF TypeOK, FilesInv, Steps

\* (the recovered log is a sequence of hashes)
LEMMA LogTyped == ASSUME TypeOK, FilesInv, pc # "down" PROVE RecoveredLog \in Seq(Nat)
<1>1. JournalHead(segments) \in Points
  BY HeadTyped DEF TypeOK, FilesInv, Journals
<1>2. JournalHead(segments).seq \in Nat
  BY <1>1 DEF Points
<1>3. ASSUME NEW n \in 1..JournalHead(segments).seq PROVE RecoveredLog[n] \in Nat
  <2> DEFINE frame == {t \in Retained(segments) : t.seq = n}
  <2>1. RecoveredLog[n] = CASE frame # {} -> (CHOOSE t \in frame : TRUE).hash
              [] frame = {} /\ n \in DOMAIN acked -> acked[n]
              [] OTHER -> NoHash
    BY DEF RecoveredLog
  <2>2. ASSUME NEW t \in frame PROVE t.hash \in Nat
    <3>1. PICK p \in Entries(segments) : t = FrameAt(segments, p)
      BY DEF Retained
    <3>2. t \in Frames
      BY <3>1, EntriesDef DEF TypeOK, Journals
    <3> QED BY <3>2 DEF Frames
  <2>3. n \in DOMAIN acked => acked[n] \in Nat
    BY ElementOfSeq, LenProperties DEF TypeOK
  <2>4. frame # {} => (CHOOSE t \in frame : TRUE) \in frame
    OBVIOUS
  <2> HIDE DEF frame
  <2>5. CASE frame # {}
    BY <2>1, <2>2, <2>4, <2>5
  <2>6. CASE frame = {} /\ n \in DOMAIN acked
    BY <2>1, <2>3, <2>6
  <2>7. CASE frame = {} /\ n \notin DOMAIN acked
    BY <2>1, <2>7 DEF NoHash
  <2> QED BY <2>5, <2>6, <2>7
<1>4. RecoveredLog = [n \in 1..JournalHead(segments).seq |-> RecoveredLog[n]]
  BY DEF RecoveredLog
<1> DEFINE n == JournalHead(segments).seq  log == RecoveredLog
<1>5. n \in Nat /\ (\A i \in 1..n : log[i] \in Nat) /\ log = [i \in 1..n |-> log[i]]
  BY <1>2, <1>3, <1>4
<1> HIDE DEF n, log
<1>6. log \in Seq(Nat)
  BY <1>5
<1> QED BY <1>6 DEF log

\* acknowledged;
LEMMA TypeReply == ASSUME TypeOK, FilesInv, Reply PROVE TypeOK' /\ FilesInv'
<1>1. acked' \in Seq(Nat)
  BY LogTyped DEF Reply
<1>2. head' \in Points
  BY DEF Reply, Points, TypeOK, Frames
<1>3. /\ pc' \in {"install", "idle"}
      /\ UNCHANGED <<segments, journalCurrent, snapshots, snapshotCurrent, writing, current, frames,
                     flow, candidate, spared, availability, proposals, crashes, faults>>
  BY DEF Reply, Goto, disk, bounds
<1>4. pc = "reply"
  BY DEF Reply
<1> QED BY <1>1, <1>2, <1>3, <1>4 DEF TypeOK, FilesInv, Steps

\* the session is closed;
LEMMA TypeClose == ASSUME TypeOK, FilesInv, Close PROVE TypeOK' /\ FilesInv'
<1>1. /\ pc = "idle" /\ pc' = "install" /\ flow' = "close"
      /\ UNCHANGED <<segments, journalCurrent, snapshots, snapshotCurrent, writing, current, frames,
                     head, candidate, spared, availability, acked, proposals, crashes, faults>>
  BY DEF Close, disk, bounds
<1> QED BY <1>1 DEF TypeOK, FilesInv, Steps, Flows

\* (the checkpoints, written whole or in part)
LEMMA SnapshotsTyped ==
    ASSUME TypeOK
    PROVE  \A files \in {snapshots, Written, TornSnapshot} :
              /\ DOMAIN files \in SUBSET Nat
              /\ \A n \in DOMAIN files : files[n] \in [hash: Nat, complete: BOOLEAN]
<1>1. head.seq \in Nat /\ head.hash \in Nat
  BY DEF TypeOK, Points
<1>2. Checkpoint \in [hash: Nat, complete: BOOLEAN]
  BY <1>1 DEF Checkpoint
<1>3. [hash |-> NoHash, complete |-> FALSE] \in [hash: Nat, complete: BOOLEAN]
  BY DEF NoHash
<1>4. ASSUME NEW c \in [hash: Nat, complete: BOOLEAN]
      PROVE  LET files == CreateFile(snapshots, head.seq, c) IN
              /\ DOMAIN files \in SUBSET Nat
              /\ \A n \in DOMAIN files : files[n] \in [hash: Nat, complete: BOOLEAN]
  BY <1>1 DEF CreateFile, TypeOK
<1> QED BY <1>2, <1>3, <1>4 DEF Written, TornSnapshot, TypeOK

\* a checkpoint is installed, named and checked,
LEMMA TypeCheckpoint ==
    ASSUME TypeOK, FilesInv, Install \/ Pointer \/ Preflight PROVE TypeOK' /\ FilesInv'
<1>1. snapshots' \in {snapshots, Written}
  BY DEF Install, Pointer, Preflight, disk
<1>2. snapshotCurrent' \in Nat
  BY DEF Install, Pointer, Preflight, disk, TypeOK, Points
<1>3. /\ pc # "down" /\ pc' \in {"pointer", "idle", "down", "preflight", "prune snapshots"}
      /\ UNCHANGED <<segments, journalCurrent, writing, current, frames, flow,
                     head, candidate, availability, acked, proposals, crashes, faults>>
  BY DEF Install, Pointer, Preflight, disk, bounds, Goto, InstallFailed, EndCheckpoint
<1>4. /\ DOMAIN snapshots' \in SUBSET Nat
      /\ \A n \in DOMAIN snapshots' : snapshots'[n] \in [hash: Nat, complete: BOOLEAN]
  BY <1>1, SnapshotsTyped
<1>5. spared' \in SUBSET Nat
  BY DEF Install, Pointer, Preflight, TypeOK
<1> QED BY <1>2, <1>3, <1>4, <1>5 DEF TypeOK, FilesInv, Steps

\* old checkpoints
LEMMA TypePruneSnapshots == ASSUME TypeOK, FilesInv, PruneSnapshots PROVE TypeOK' /\ FilesInv'
<1>1. /\ DOMAIN snapshots' \in SUBSET Nat
      /\ \A n \in DOMAIN snapshots' : snapshots'[n] \in [hash: Nat, complete: BOOLEAN]
  <2>1. \/ snapshots' = snapshots
        \/ \E n \in Older : snapshots' = [m \in DOMAIN snapshots \ {n} |-> snapshots[m]]
    BY DEF PruneSnapshots
  <2> QED BY <2>1, SnapshotsTyped
<1>2. /\ pc # "down" /\ pc' \in {"prune segments", "prune snapshots", "idle", "down"}
      /\ UNCHANGED <<segments, journalCurrent, snapshotCurrent, writing, current, frames, flow,
                     head, candidate, spared, availability, acked, proposals, crashes, faults>>
  BY DEF PruneSnapshots, bounds, Goto, EndCheckpoint
<1> QED BY <1>1, <1>2 DEF TypeOK, FilesInv, Steps

\* and old segments are removed;
LEMMA TypePruneSegments == ASSUME TypeOK, FilesInv, PruneSegments PROVE TypeOK' /\ FilesInv'
<1>1. Journals(segments) /\ Bounded(segments) /\ current \in DOMAIN segments
      /\ Entries(segments) # {}
  BY DEF TypeOK, FilesInv, Journals, PruneSegments
<1>2. /\ Journals(segments') /\ Bounded(segments') /\ current \in DOMAIN segments'
      /\ Entries(segments') # {}
  <2>1. CASE UNCHANGED segments
    BY <2>1, <1>1
  <2>2. CASE ~UNCHANGED segments
    <3>1. PICK s \in Reclaimable : segments' = Without(segments, s)
      BY <2>2 DEF PruneSegments, Without
    <3>2. AnchorSegments(segments, Floor) # {}
      BY <2>2 DEF PruneSegments, MayReclaim
    <3>3. /\ s \in DOMAIN segments /\ s # current
          /\ \A a \in AnchorSegments(segments, Floor) : s < a
      BY DEF Reclaimable
    <3>4. /\ Journals(segments') /\ Bounded(segments')
          /\ Entries(segments') = {p \in Entries(segments) : p[1] # s}
      BY <3>1, <3>3, <1>1, RemoveEntries
    <3>5. PICK p \in Entries(segments) : p[1] \in AnchorSegments(segments, Floor)
      BY <3>2 DEF AnchorSegments
    <3>6. p[1] # s
      BY <3>3, <3>5, <1>1, EntriesDef
    <3> QED BY <3>1, <3>3, <3>4, <3>6, <1>1 DEF Without
  <2> QED BY <2>1, <2>2
<1>3. /\ pc' \in {"prune segments", "write", "idle", "down"} /\ writing' \in Frames
      /\ UNCHANGED <<journalCurrent, snapshots, snapshotCurrent, current, frames, flow,
                     head, candidate, spared, availability, acked, proposals, crashes, faults>>
  BY FramesTyped DEF PruneSegments, bounds, Goto, EndCheckpoint, TypeOK, Seals
<1>4. current' = current /\ pc' # "switch"
  BY <1>3
<1> QED BY <1>2, <1>3, <1>4 DEF TypeOK, FilesInv, Steps, Journals

\* (an append that was interrupted)
LEMMA TornTyped ==
    ASSUME TypeOK, FilesInv, pc # "down"
    PROVE  /\ Journals(TornAppend) /\ Bounded(TornAppend)
           /\ DOMAIN TornAppend = DOMAIN segments
           /\ Entries(TornAppend) = Entries(segments)
<1>1. Journals(segments) /\ Bounded(segments) /\ current \in DOMAIN segments /\ Torn \in Frames
  BY FramesTyped DEF TypeOK, FilesInv, Journals
<1>2. Torn.kind # "txn"
  BY DEF Torn
<1>3. TornAppend = WithFrame(segments, current, Torn)
  BY DEF TornAppend, WithFrame
<1> QED BY <1>1, <1>2, <1>3, AppendEntries

\* a file operation fails,
LEMMA TypeFault == ASSUME TypeOK, FilesInv, Fault PROVE TypeOK' /\ FilesInv'
<1>1. /\ faults' \in Nat
      /\ UNCHANGED <<writing, head, current, frames, acked, proposals, crashes>>
      /\ \/ (AppendFault \/ CheckpointFault) /\ UNCHANGED spared
         \/ RemovalFault
  BY DEF Fault, TypeOK
<1>2. CASE AppendFault /\ UNCHANGED spared
  <2>1. pc # "down" /\ segments' \in {segments, TornAppend, Created}
    BY <1>2 DEF AppendFault
  <2>0. /\ Journals(segments) /\ Bounded(segments) /\ Entries(segments) # {}
        /\ current \in DOMAIN segments
    BY <2>1 DEF FilesInv, TypeOK, Journals
  <2>2. /\ Journals(segments') /\ Bounded(segments') /\ Entries(segments') # {}
        /\ current \in DOMAIN segments'
    <3>1. /\ Journals(TornAppend) /\ Bounded(TornAppend)
          /\ DOMAIN TornAppend = DOMAIN segments /\ Entries(TornAppend) = Entries(segments)
      BY <2>1, TornTyped
    <3>2. /\ Journals(Created) /\ Bounded(Created)
          /\ current \in DOMAIN Created /\ Entries(Created) = Entries(segments)
      BY <2>0, CreatedTyped
    <3> QED BY <2>0, <2>1, <3>1, <3>2
  <2>3. journalCurrent' \in Nat
    <3>1. journalCurrent \in Nat /\ current + 1 \in Nat
      BY DEF TypeOK
    <3> QED BY <3>1, <1>2 DEF AppendFault
  <2>4. /\ availability' \in {"available", "unavailable"}
        /\ flow' = flow /\ candidate' = candidate /\ pc' \in {"down", "idle"}
        /\ UNCHANGED <<snapshots, snapshotCurrent>>
    BY <1>2, AppendFailedTyped DEF AppendFault
  <2> QED BY <1>1, <1>2, <2>2, <2>3, <2>4 DEF TypeOK, FilesInv, Steps, Journals
<1>3. CASE CheckpointFault /\ UNCHANGED spared
  <2>1. /\ snapshots' \in {snapshots, TornSnapshot, Written}
        /\ snapshotCurrent' \in {snapshotCurrent, head.seq}
        /\ pc # "down" /\ pc' \in {"idle", "down"} /\ UNCHANGED <<flow, candidate>>
        /\ UNCHANGED <<segments, journalCurrent, availability>>
    BY <1>3 DEF CheckpointFault, InstallFailed, EndCheckpoint, Goto
  <2>2. snapshotCurrent' \in Nat
    BY <2>1 DEF TypeOK, Points
  <2>3. /\ DOMAIN snapshots' \in SUBSET Nat
        /\ \A n \in DOMAIN snapshots' : snapshots'[n] \in [hash: Nat, complete: BOOLEAN]
    BY <2>1, SnapshotsTyped
  <2> QED BY <1>1, <1>3, <2>1, <2>2, <2>3 DEF TypeOK, FilesInv, Steps
<1>4. CASE RemovalFault
  <2>1. /\ pc # "down" /\ pc # "switch"
        /\ UNCHANGED <<segments, journalCurrent, snapshots, snapshotCurrent, pc, flow, candidate,
                       availability>>
    BY <1>4 DEF RemovalFault, disk
  <2>2. spared' \in SUBSET Nat
    <3>1. Older \in SUBSET Nat /\ Reclaimable \in SUBSET Nat /\ spared \in SUBSET Nat
      BY DEF Older, Reclaimable, TypeOK
    <3>2. \E n \in Older \cup Reclaimable : spared' = spared \cup {n}
      BY <1>4 DEF RemovalFault
    <3> QED BY <3>1, <3>2
  <2> QED BY <1>1, <2>1, <2>2 DEF TypeOK, FilesInv, Bounded, Entries, Positions, FrameAt
<1> QED BY <1>1, <1>2, <1>3, <1>4

\* the process
LEMMA TypeCrash == ASSUME TypeOK, FilesInv, Crash PROVE TypeOK' /\ FilesInv'
<1>1. /\ crashes' \in Nat /\ pc # "down" /\ pc' = "down"
      /\ UNCHANGED <<journalCurrent, snapshotCurrent, flow, candidate, writing, head, current,
                     frames, spared, availability, acked, proposals, faults>>
      /\ segments' \in {segments, TornAppend} /\ snapshots' \in {snapshots, TornSnapshot}
  BY DEF Crash, TypeOK, memory
<1>2. Journals(segments') /\ Bounded(segments')
  BY <1>1, TornTyped DEF FilesInv, TypeOK, Journals
<1>3. /\ DOMAIN snapshots' \in SUBSET Nat
      /\ \A n \in DOMAIN snapshots' : snapshots'[n] \in [hash: Nat, complete: BOOLEAN]
  BY <1>1, SnapshotsTyped
<1> QED BY <1>1, <1>2, <1>3 DEF TypeOK, FilesInv, Steps, Journals

\* or the host crashes.
LEMMA TypeHostCrash == ASSUME TypeOK, FilesInv, HostCrash PROVE TypeOK' /\ FilesInv'
<1>1. /\ crashes' \in Nat /\ pc' = "down"
      /\ UNCHANGED <<journalCurrent, snapshots, snapshotCurrent, flow, candidate, writing, head, current,
                     frames, spared, availability, acked, proposals, faults>>
  <2>1. crashes + 1 \in Nat
    BY DEF TypeOK
  <2> QED BY <2>1 DEF HostCrash, memory
<1>2. Journals(segments') /\ Bounded(segments')
  <2>1. PICK s \in DOMAIN segments : \E k \in 0..(Len(segments[s]) - 1) :
          \E end \in {<< >>, <<Torn>>} :
                segments' = [segments EXCEPT ![s] = SubSeq(@, 1, k) \o end]
    BY DEF HostCrash
  <2>2. PICK k \in 0..(Len(segments[s]) - 1), end \in {<< >>, <<Torn>>} :
                segments' = Truncated(segments, s, k, end)
    BY <2>1 DEF Truncated
  <2>3. Journals(segments) /\ Bounded(segments)
    BY DEF TypeOK, FilesInv, Journals
  <2>4. Len(segments[s]) \in Nat
    BY <2>3, LenProperties DEF Journals
  <2>5. k \in Nat /\ k <= Len(segments[s])
    BY <2>4
  <2> QED BY <2>2, <2>3, <2>5, TruncateEntries
<1> QED BY <1>1, <1>2 DEF TypeOK, FilesInv, Steps, Journals

\* Every step keeps the types.
LEMMA TypeNext == TypeOK /\ FilesInv /\ [Next]_vars => TypeOK' /\ FilesInv'
<1> SUFFICES ASSUME TypeOK, FilesInv, [Next]_vars PROVE TypeOK' /\ FilesInv'
  OBVIOUS
<1>1. CASE UNCHANGED vars
  BY <1>1 DEF vars, disk, memory, bounds, TypeOK, FilesInv, Bounded, Entries, Positions, FrameAt
<1> QED
  BY <1>1, TypeOpen, TypeSubmit, TypeClose, TypeWrite, TypeFlush, TypeCreate, TypeSwitch, TypeReply,
     TypeCheckpoint, TypePruneSnapshots, TypePruneSegments, TypeFault, TypeCrash, TypeHostCrash
     DEF Next, Work

\* Files and the loaded session keep their types, and the journal is never empty.
THEOREM TypeCorrect == Spec => []TypeOK
<1> DEFINE Inv == TypeOK /\ FilesInv
<1>1. Init => Inv
  BY TypeInit
<1>2. Inv /\ [Next]_vars => Inv'
  BY TypeNext
<1>3. Inv => TypeOK
  OBVIOUS
<1> HIDE DEF Inv
<1> QED BY <1>1, <1>2, <1>3, PTL DEF Spec


\* What the steps of a checkpoint rely on from one another.
PointerInv ==
    /\ IsFiniteSet(DOMAIN snapshots)
    /\ snapshotCurrent \in CompleteSnapshots(snapshots)
    /\ pc = "pointer" => head.seq \in CompleteSnapshots(snapshots)
    /\ pc = "prune snapshots" =>
          /\ snapshotCurrent \in Newest(DOMAIN snapshots, Keep)
          /\ CompleteSnapshots(snapshots) = DOMAIN snapshots

-----------------------------------------------------------------------------

\* A file is created without disturbing the others.
LEMMA CreateFileKeeps ==
    ASSUME NEW files, NEW name, NEW contents, IsFiniteSet(DOMAIN files)
    PROVE  LET new == CreateFile(files, name, contents) IN
           /\ IsFiniteSet(DOMAIN new)
           /\ name \in DOMAIN new
           /\ \A n \in DOMAIN files : n \in DOMAIN new /\ new[n] = files[n]
  BY FS_AddElement DEF CreateFile

\* A new checkpoint, or what a crash leaves of one, takes no complete one away.
LEMMA CompleteKept ==
    ASSUME IsFiniteSet(DOMAIN snapshots), NEW files,
           files \in {snapshots, TornSnapshot, Written}
    PROVE  /\ IsFiniteSet(DOMAIN files)
           /\ CompleteSnapshots(snapshots) \subseteq CompleteSnapshots(files)
  BY CreateFileKeeps DEF TornSnapshot, Written, CompleteSnapshots

\* Removing files leaves a file among the newest that was there before.
LEMMA NewestKept ==
    ASSUME NEW S, IsFiniteSet(S), NEW T \in SUBSET S, NEW n \in T, n \in Newest(S, Keep)
    PROVE  n \in Newest(T, Keep)
<1> DEFINE Newer(R) == {m \in R : m > n}
<1>1. IsFiniteSet(Newer(S)) /\ Newer(T) \in SUBSET Newer(S)
  BY FS_Subset
<1>2. /\ Cardinality(Newer(T)) <= Cardinality(Newer(S))
      /\ Cardinality(Newer(S)) \in Nat
      /\ Cardinality(Newer(T)) \in Nat
  BY <1>1, FS_Subset, FS_CardinalityType
<1>3. Cardinality(Newer(S)) < Keep
  BY DEF Newest
<1> HIDE DEF Newer
<1>4. Cardinality(Newer(T)) < Keep
  BY <1>2, <1>3, LimitsAssumption
<1>. QED  BY <1>4 DEF Newer, Newest

\* A created session satisfies the invariant.
LEMMA PointerInit == Init => PointerInv
<1>. SUFFICES ASSUME Init PROVE PointerInv
  OBVIOUS
<1>1. DOMAIN snapshots = {1} /\ snapshots[1].complete /\ snapshotCurrent = 1 /\ pc = "down"
  BY DEF Init
<1>. QED  BY <1>1, FS_Singleton DEF PointerInv, CompleteSnapshots

-----------------------------------------------------------------------------
(* One lemma per step that moves checkpoint files or the pointer. *)

\* A step that leaves files, pointer and head alone, and does not enter a step
\* of the checkpoint that relies on them.
LEMMA ElsewhereKeeps ==
    ASSUME PointerInv, UNCHANGED <<snapshots, snapshotCurrent>>,
           pc' \notin {"pointer", "prune snapshots"}
    PROVE  PointerInv'
  BY DEF PointerInv, CompleteSnapshots

\* An installation ends at "pointer" only with the whole file on disk.
LEMMA InstallKeeps == ASSUME PointerInv, Install PROVE PointerInv'
<1>1. snapshots' \in {snapshots, TornSnapshot, Written} /\ snapshotCurrent' = snapshotCurrent
  BY DEF Install
<1>2. /\ IsFiniteSet(DOMAIN snapshots')
      /\ snapshotCurrent' \in CompleteSnapshots(snapshots')
  BY <1>1, CompleteKept DEF PointerInv
<1>3. pc' # "prune snapshots"
  BY DEF Install, Goto, InstallFailed
<1>4. ASSUME pc' = "pointer" PROVE head'.seq \in CompleteSnapshots(snapshots')
  <2>1. Written[head.seq] = Checkpoint /\ snapshots' = Written /\ head' = head
    BY <1>4 DEF Install, Goto, InstallFailed
  <2>2. head.seq \in DOMAIN Written
    BY DEF Written, CreateFile
  <2>. QED  BY <2>1, <2>2 DEF CompleteSnapshots, Checkpoint
<1>. QED  BY <1>2, <1>3, <1>4 DEF PointerInv

\* The preflight lets a pass begin only when CURRENT names a newest file.
LEMMA PreflightKeeps == ASSUME PointerInv, Preflight PROVE PointerInv'
<1>1. UNCHANGED <<snapshots, snapshotCurrent>> /\ pc' # "pointer"
  BY DEF Preflight, disk, Goto, EndCheckpoint
<1>2. pc' = "prune snapshots" => /\ snapshotCurrent \in Newest(DOMAIN snapshots, Keep)
                                 /\ CompleteSnapshots(snapshots) = DOMAIN snapshots
  BY DEF Preflight, MayPrune, Goto, EndCheckpoint
<1>. QED  BY <1>1, <1>2 DEF PointerInv, CompleteSnapshots, Newest

\* Retention removes an older file and never the one CURRENT names.
LEMMA PruneSnapshotsKeeps == ASSUME PointerInv, PruneSnapshots PROVE PointerInv'
<1>1. CASE Older \subseteq spared
  BY <1>1, ElsewhereKeeps DEF PruneSnapshots, EndCheckpoint, Goto
<1>2. CASE ~(Older \subseteq spared)
  <2>0. /\ snapshotCurrent \in CompleteSnapshots(snapshots)
        /\ snapshotCurrent \in Newest(DOMAIN snapshots, Keep)
        /\ CompleteSnapshots(snapshots) = DOMAIN snapshots
    BY DEF PointerInv, PruneSnapshots
  <2>1. PICK n \in Older : snapshots' = [m \in DOMAIN snapshots \ {n} |-> snapshots[m]]
    BY <1>2 DEF PruneSnapshots
  <2>2. /\ DOMAIN snapshots' \in SUBSET DOMAIN snapshots
        /\ snapshotCurrent \in DOMAIN snapshots'
        /\ snapshots'[snapshotCurrent] = snapshots[snapshotCurrent]
        /\ snapshotCurrent \in Newest(DOMAIN snapshots, Keep)
        /\ \A m \in DOMAIN snapshots' : snapshots'[m] = snapshots[m] /\ snapshots[m].complete
    BY <2>0, <2>1 DEF Older, CompleteSnapshots
  <2>3. /\ IsFiniteSet(DOMAIN snapshots')
        /\ snapshotCurrent \in Newest(DOMAIN snapshots', Keep)
    BY <2>2, FS_Subset, NewestKept DEF PointerInv
  <2>4. snapshotCurrent' = snapshotCurrent /\ pc' = "prune snapshots"
    BY <1>2 DEF PruneSnapshots, Goto
  <2>. QED  BY <2>2, <2>3, <2>4 DEF PointerInv, CompleteSnapshots
<1>. QED  BY <1>1, <1>2

\* A failed checkpoint leaves a whole file behind the pointer in every case.
LEMMA CheckpointFaultKeeps ==
    ASSUME PointerInv, CheckpointFault PROVE PointerInv'
<1>1. pc' \notin {"pointer", "prune snapshots"}
  BY DEF CheckpointFault, InstallFailed, EndCheckpoint, Goto
<1>2. snapshots' \in {snapshots, TornSnapshot, Written}
  BY DEF CheckpointFault
<1>3. /\ IsFiniteSet(DOMAIN snapshots')
      /\ CompleteSnapshots(snapshots) \subseteq CompleteSnapshots(snapshots')
  BY <1>2, CompleteKept DEF PointerInv
<1>4. snapshotCurrent' \in CompleteSnapshots(snapshots)
  BY DEF CheckpointFault, PointerInv
<1>. QED  BY <1>1, <1>3, <1>4 DEF PointerInv

\* A crash may leave an incomplete checkpoint file, never a removed one.
LEMMA CrashKeeps == ASSUME PointerInv, Crash PROVE PointerInv'
<1>1. /\ pc' = "down" /\ snapshotCurrent' = snapshotCurrent
      /\ snapshots' \in {snapshots, TornSnapshot, Written}
  BY DEF Crash
<1>. QED  BY <1>1, CompleteKept DEF PointerInv

\* Every step preserves the invariant.
LEMMA PointerNext == PointerInv /\ [Next]_vars => PointerInv'
<1>. SUFFICES ASSUME PointerInv, [Next]_vars PROVE PointerInv'
  OBVIOUS
<1>1. CASE Open \/ Submit \/ Close
  BY <1>1, ElsewhereKeeps DEF Open, Submit, Close, Propose, disk
<1>2. CASE Write \/ Flush
  BY <1>2, ElsewhereKeeps DEF Write, Flush, Appended, Goto
<1>3. CASE Create \/ Switch
  BY <1>3, ElsewhereKeeps DEF Create, Switch, AppendFailed, EndCheckpoint, Goto
<1>4. CASE Reply
  BY <1>4, ElsewhereKeeps DEF Reply, Goto, disk
<1>5. CASE Pointer
  BY <1>5 DEF Pointer, Goto, PointerInv, CompleteSnapshots
<1>6. CASE PruneSegments
  BY <1>6, ElsewhereKeeps DEF PruneSegments, EndCheckpoint, Goto
<1>7. CASE Fault
  <2>1. CASE AppendFault
    BY <2>1, ElsewhereKeeps DEF AppendFault, AppendFailed, EndCheckpoint, Goto
  <2>2. CASE RemovalFault
    BY <2>2 DEF RemovalFault, disk, PointerInv, CompleteSnapshots, Newest
  <2>. QED  BY <1>7, <2>1, <2>2, CheckpointFaultKeeps DEF Fault
<1>8. CASE HostCrash
  BY <1>8, ElsewhereKeeps DEF HostCrash
<1>9. CASE UNCHANGED vars
  BY <1>9 DEF vars, disk, memory, PointerInv, CompleteSnapshots, Newest
<1>. QED
  BY <1>1, <1>2, <1>3, <1>4, <1>5, <1>6, <1>7, <1>8, <1>9, InstallKeeps,
     PreflightKeeps, PruneSnapshotsKeeps, CrashKeeps DEF Next, Work

\* A retention pass removes a file only while Keep newer ones stay.
LEMMA OlderHasNewer ==
    ASSUME IsFiniteSet(DOMAIN snapshots), NEW n \in Older
    PROVE  Cardinality({m \in DOMAIN snapshots : m > n}) >= Keep
<1>1. IsFiniteSet({m \in DOMAIN snapshots : m > n})
  BY FS_Subset
<1>2. Cardinality({m \in DOMAIN snapshots : m > n}) \in Nat
  BY <1>1, FS_CardinalityType
<1>3. ~(Cardinality({m \in DOMAIN snapshots : m > n}) < Keep)
  BY DEF Older, Newest
<1>. QED  BY <1>2, <1>3, LimitsAssumption

\* No step leaves fewer than Keep complete checkpoints where there were as many.
LEMMA FallbackStep ==
    ASSUME TypeOK, PointerInv, [Next]_vars
    PROVE  Cardinality(CompleteSnapshots(snapshots'))
             >= Least(Keep, Cardinality(CompleteSnapshots(snapshots)))
<1> DEFINE old == CompleteSnapshots(snapshots)  new == CompleteSnapshots(snapshots')
<1>1. IsFiniteSet(DOMAIN snapshots) /\ IsFiniteSet(DOMAIN snapshots')
  BY PointerNext DEF PointerInv
<1>2. /\ IsFiniteSet(old) /\ IsFiniteSet(new)
      /\ Cardinality(old) \in Nat /\ Cardinality(new) \in Nat
  BY <1>1, FS_Subset, FS_CardinalityType DEF CompleteSnapshots
<1>3. CASE old \subseteq new
  <2>1. Cardinality(old) <= Cardinality(new)
    BY <1>2, <1>3, FS_Subset
  <2>. QED  BY <1>2, <2>1, LimitsAssumption DEF Least
<1>4. CASE \E n \in Older : /\ pc = "prune snapshots"
                            /\ snapshots' = [m \in DOMAIN snapshots \ {n} |-> snapshots[m]]
  <2>1. PICK n \in Older : /\ pc = "prune snapshots"
                           /\ snapshots' = [m \in DOMAIN snapshots \ {n} |-> snapshots[m]]
    BY <1>4
  <2> DEFINE newer == {m \in DOMAIN snapshots : m > n}
  <2>2. newer \subseteq new
    <3>1. n \in Nat
      BY DEF Older, TypeOK
    <3>2. ASSUME NEW m \in newer PROVE m \in DOMAIN snapshots' /\ snapshots'[m].complete
      <4>1. m \in DOMAIN snapshots /\ m # n
        BY <3>1 DEF TypeOK
      <4>2. CompleteSnapshots(snapshots) = DOMAIN snapshots
        BY <2>1 DEF PointerInv
      <4>3. snapshots[m].complete
        BY <4>1, <4>2 DEF CompleteSnapshots
      <4>. QED  BY <2>1, <4>1, <4>3
    <3>. QED  BY <3>2 DEF CompleteSnapshots
  <2>3. Cardinality(newer) >= Keep
    BY <1>1, OlderHasNewer
  <2>4. Cardinality(newer) <= Cardinality(new) /\ Cardinality(newer) \in Nat
    BY <1>2, <2>2, FS_Subset, FS_CardinalityType
  <2>5. Cardinality(new) >= Keep
    BY <1>2, <2>3, <2>4, LimitsAssumption
  <2>. QED  BY <1>2, <2>5, LimitsAssumption DEF Least
<1>5. (old \subseteq new) \/ \E n \in Older : /\ pc = "prune snapshots"
                            /\ snapshots' = [m \in DOMAIN snapshots \ {n} |-> snapshots[m]]
  <2>1. \/ snapshots' \in {snapshots, TornSnapshot, Written}
        \/ \E n \in Older : /\ pc = "prune snapshots"
                            /\ snapshots' = [m \in DOMAIN snapshots \ {n} |-> snapshots[m]]
    BY DEF vars, disk, Next, Work, Open, Submit, Close, Write, Flush, Create, Switch, Reply,
           Install, Pointer, Preflight, PruneSnapshots, PruneSegments, Fault, AppendFault,
           CheckpointFault, RemovalFault, Crash, HostCrash
  <2>. QED  BY <2>1, <1>1, CompleteKept
<1>. QED  BY <1>3, <1>4, <1>5

\* Retention and failures leave Keep usable checkpoints wherever there were that
\* many, so an unreadable newest one always has a fallback.
THEOREM FallbackKept == Spec => RetentionKeepsFallback
<1>1. TypeOK /\ PointerInv /\ [Next]_vars =>
        [Cardinality(CompleteSnapshots(snapshots'))
           >= Least(Keep, Cardinality(CompleteSnapshots(snapshots)))]_vars
  BY FallbackStep
<1>. QED  BY <1>1, TypeCorrect, PointerInit, PointerNext, PTL DEF Spec, RetentionKeepsFallback

\* snapshot/CURRENT names a complete checkpoint in every reachable state: after
\* any crash, any failed operation and any number of retention passes.
THEOREM PointerCorrect == Spec => []PointerUsable
<1>1. PointerInv => PointerUsable
  BY DEF PointerInv, PointerUsable
<1>. QED  BY <1>1, PointerInit, PointerNext, PTL DEF Spec

------------------------------------------------------------------------------
(* Recovery: what any crash or error leaves is accepted, and continues the  *)
(* log.                                                                     *)

\* What the two properties need of the faults: an error of a boundary append, of a directory's
\* fsync or of a segment's removal breaks them (see the runs that expect a violation), and so
\* does a power loss when transactions are not flushed.
Tolerated ==
    /\ Faulty \subseteq {"append", "checkpoint"}
    /\ HostCrashes => Durability = "flush"

\* The steps of Journal.append and Journal.rotate.
Appending == {"write", "flush", "create", "switch", "reply"}

\* The steps concern the transaction, not the boundary of a checkpoint.
Committing == pc \in Appending /\ writing.kind # "checkpoint boundary"

\* Every frame of the segment is covered by an fsync.
Sealed(seg) == \A i \in 1..Len(seg) : seg[i].synced

\* Transaction n has hash h in the journal, where no fault can take it away.
Holds(segs, n, h) ==
    \E p \in Entries(segs) :
        /\ FrameAt(segs, p).seq = n /\ FrameAt(segs, p).hash = h
        /\ HostCrashes => FrameAt(segs, p).synced

\* Sequences grow along the journal.
Ordered(segs) ==
    /\ \A p \in Entries(segs) : FrameAt(segs, p).seq > 0
    /\ \A p, q \in Entries(segs) : Before(p, q) => FrameAt(segs, p).seq < FrameAt(segs, q).seq

\* Transaction n has hash h in the journal.
Logged(segs, n, h) ==
    \E p \in Entries(segs) : FrameAt(segs, p).seq = n /\ FrameAt(segs, p).hash = h

\* The journal ends in the same transaction.
HeadKept(segs, new) == JournalHead(new) = JournalHead(segs)

\* new has lost at most what is older than floor and a newest part that nothing
\* protected.
Shrunk(segs, new, floor) ==
    /\ \A n, h : Logged(new, n, h) => Logged(segs, n, h)
    /\ \A n \in Nat : \A h :
          n >= floor /\ n <= JournalHead(new).seq /\ Logged(segs, n, h) => Logged(new, n, h)
    /\ \A n \in Nat : \A h : n >= floor /\ Holds(segs, n, h) => Holds(new, n, h)
    /\ JournalHead(new).seq <= JournalHead(segs).seq

------------------------------------------------------------------------------
(* Chains: what a change of the entries does to the journal.                *)

\* The order of the entries is a strict total order.
LEMMA BeforeProperties ==
    ASSUME NEW segs, Journals(segs)
    PROVE  /\ \A p \in Entries(segs) : ~Before(p, p)
           /\ \A p, q \in Entries(segs) : p = q \/ Before(p, q) \/ Before(q, p)
           /\ \A p, q, r \in Entries(segs) : Before(p, q) /\ Before(q, r) => Before(p, r)
<1>1. \A p \in Entries(segs) : p[1] \in Nat /\ p[2] \in Nat /\ p = <<p[1], p[2]>>
  BY EntriesDef
<1>2. \A p \in Entries(segs) : ~Before(p, p)
  BY <1>1 DEF Before
<1>3. ASSUME NEW p \in Entries(segs), NEW q \in Entries(segs), ~Before(p, q), ~Before(q, p)
      PROVE  p = q
  <2>1. p[1] = q[1] /\ p[2] = q[2]
    BY <1>1, <1>3 DEF Before
  <2> QED BY <2>1, <1>1
<1>4. \A p, q, r \in Entries(segs) : Before(p, q) /\ Before(q, r) => Before(p, r)
  BY <1>1 DEF Before
<1> QED BY <1>2, <1>3, <1>4

\* A journal whose entries are an interval of another one is chained and ordered as
\* that one is.
LEMMA IntervalChain ==
    ASSUME NEW segs, Journals(segs), Chained(segs), Ordered(segs), NEW new,
           Entries(new) \subseteq Entries(segs),
           \A p \in Entries(new) : Kept(FrameAt(segs, p), FrameAt(new, p)),
           \A p, q \in Entries(new) : \A r \in Entries(segs) :
              Before(p, r) /\ Before(r, q) => r \in Entries(new)
    PROVE  Chained(new) /\ Ordered(new)
<1>1. ASSUME NEW p \in Entries(new), NEW q \in Entries(new), Adjacent(new, p, q)
      PROVE  Adjacent(segs, p, q)
  BY <1>1 DEF Adjacent
<1>2. Chained(new)
  <2> SUFFICES ASSUME NEW p \in Entries(new), NEW q \in Entries(new), Adjacent(new, p, q)
               PROVE  /\ FrameAt(new, q).seq = FrameAt(new, p).seq + 1
                      /\ FrameAt(new, q).prev = FrameAt(new, p).hash
    BY DEF Chained
  <2>1. /\ FrameAt(segs, q).seq = FrameAt(segs, p).seq + 1
        /\ FrameAt(segs, q).prev = FrameAt(segs, p).hash
    BY <1>1 DEF Chained
  <2> QED BY <2>1 DEF Kept
<1>3. Ordered(new)
  BY DEF Ordered, Kept
<1> QED BY <1>2, <1>3

\* A journal that still holds the last entry has the same head.
LEMMA SameHead ==
    ASSUME NEW segs, Journals(segs), NEW new, Journals(new),
           Entries(new) \subseteq Entries(segs),
           \A p \in Entries(new) : Kept(FrameAt(segs, p), FrameAt(new, p)),
           NEW last \in Entries(new), IsLast(segs, last)
    PROVE  JournalHead(new) = JournalHead(segs)
<1>1. IsLast(new, last) /\ last \in Entries(segs)
  BY DEF IsLast
<1>2. FrameAt(new, last).seq = FrameAt(segs, last).seq /\ FrameAt(new, last).hash = FrameAt(segs, last).hash
  BY DEF Kept
<1> QED BY <1>1, <1>2, HeadIsLast

\* A change of the files that keeps every transaction keeps what is said of the journal.
LEMMA SameEntries ==
    ASSUME NEW segs, Journals(segs), Bounded(segs), Entries(segs) # {}, NEW new, Journals(new),
           Entries(new) = Entries(segs),
           \A p \in Entries(new) : Kept(FrameAt(segs, p), FrameAt(new, p))
    PROVE  /\ Chained(segs) /\ Ordered(segs) => Chained(new) /\ Ordered(new)
           /\ JournalHead(new) = JournalHead(segs)
           /\ \A n, h : Holds(segs, n, h) => Holds(new, n, h)
           /\ Shrunk(segs, new, 0)
<1>1. Chained(segs) /\ Ordered(segs) => Chained(new) /\ Ordered(new)
  BY IntervalChain
<1>2. PICK last \in Entries(segs) : IsLast(segs, last)
  BY LastExists
<1>3. JournalHead(new) = JournalHead(segs)
  BY <1>2, SameHead
<1>4. \A n, h : Holds(segs, n, h) => Holds(new, n, h)
  BY DEF Holds, Kept
<1>5. \A n, h : Logged(new, n, h) <=> Logged(segs, n, h)
  BY DEF Logged, Kept
<1>6. JournalHead(new).seq = JournalHead(segs).seq /\ JournalHead(segs).seq \in Nat
  BY <1>3, HeadTyped DEF Points
<1>7. Shrunk(segs, new, 0)
  BY <1>4, <1>5, <1>6 DEF Shrunk
<1> QED BY <1>1, <1>3, <1>4, <1>7

\* An appended transaction is the last entry and the head.
LEMMA AppendedLast ==
    ASSUME NEW segs, Journals(segs), Bounded(segs), Entries(segs) # {},
           NEW s \in DOMAIN segs, \A p \in Entries(segs) : p[1] <= s,
           NEW f \in Frames, f.kind = "txn",
           NEW new, new = WithFrame(segs, s, f)
    PROVE  /\ IsLast(new, End(segs, s))
           /\ \A p \in Entries(segs) : Before(p, End(segs, s))
           /\ JournalHead(new) = [seq |-> f.seq, hash |-> f.hash]
<1>1. /\ Journals(new) /\ Entries(new) = Entries(segs) \cup {End(segs, s)}
      /\ FrameAt(new, End(segs, s)) = f
  BY AppendEntries
<1>2. ASSUME NEW p \in Entries(segs) PROVE Before(p, End(segs, s))
  <2>1. p[1] <= s /\ p[1] \in Nat /\ s \in Nat /\ p[2] \in 1..Len(segs[p[1]])
    BY EntriesDef DEF Journals
  <2>2. Len(segs[s]) \in Nat
    BY LenProperties DEF Journals
  <2>3. End(segs, s)[1] = s /\ End(segs, s)[2] = Len(segs[s]) + 1
    BY DEF End
  <2>4. CASE p[1] < s
    BY <2>4, <2>3 DEF Before
  <2>5. CASE p[1] = s
    BY <2>5, <2>1, <2>2, <2>3 DEF Before
  <2> QED BY <2>1, <2>4, <2>5
<1>3. IsLast(new, End(segs, s))
  BY <1>1, <1>2 DEF IsLast
<1> QED BY <1>1, <1>2, <1>3, HeadIsLast

\* A transaction that names the head as its predecessor continues the chain.
LEMMA AppendedChain ==
    ASSUME NEW segs, Journals(segs), Bounded(segs), Entries(segs) # {}, Chained(segs), Ordered(segs),
           NEW s \in DOMAIN segs, \A p \in Entries(segs) : p[1] <= s,
           NEW f \in Frames, f.kind = "txn",
           f.seq = JournalHead(segs).seq + 1, f.prev = JournalHead(segs).hash,
           NEW new, new = WithFrame(segs, s, f)
    PROVE  /\ Chained(new) /\ Ordered(new)
           /\ \A n, h : Holds(segs, n, h) => Holds(new, n, h)
<1> DEFINE end == End(segs, s)
<1>1. /\ Journals(new) /\ Entries(new) = Entries(segs) \cup {end}
      /\ FrameAt(new, end) = f /\ \A p \in Entries(segs) : FrameAt(new, p) = FrameAt(segs, p)
  BY AppendEntries
<1>2. \A p \in Entries(segs) : Before(p, end)
  BY AppendedLast
<1>3. PICK last \in Entries(segs) : IsLast(segs, last)
  BY LastExists
<1>4. /\ f.seq = FrameAt(segs, last).seq + 1 /\ f.prev = FrameAt(segs, last).hash
      /\ FrameAt(segs, last).seq \in Nat
  BY SMTT(60), <1>3, HeadIsLast, EntriesDef DEF Frames
<1> HIDE DEF end
<1>5. \A p, q \in Entries(new) : Before(p, q) => p \in Entries(segs)
  BY <1>1, <1>2, BeforeProperties
<1>6. \A p \in Entries(segs) : p = last \/ Before(p, last)
  BY <1>3 DEF IsLast
<1>7. Chained(new)
  <2> SUFFICES ASSUME NEW p \in Entries(new), NEW q \in Entries(new), Adjacent(new, p, q)
               PROVE  /\ FrameAt(new, q).seq = FrameAt(new, p).seq + 1
                      /\ FrameAt(new, q).prev = FrameAt(new, p).hash
    BY DEF Chained
  <2>1. p \in Entries(segs)
    BY <1>5 DEF Adjacent
  <2>2. CASE q \in Entries(segs)
    <3>1. Adjacent(segs, p, q)
      BY <1>1 DEF Adjacent
    <3> QED BY <3>1, <2>1, <2>2, <1>1 DEF Chained
  <2>3. CASE q = end
    <3>1. p = last
      BY <2>1, <2>3, <1>1, <1>2, <1>6 DEF Adjacent
    <3> QED BY <3>1, <2>3, <1>1, <1>4
  <2> QED BY <2>2, <2>3, <1>1
<1>8. Ordered(new)
  <2>1. ASSUME NEW p \in Entries(segs) PROVE FrameAt(segs, p).seq < f.seq /\ FrameAt(segs, p).seq \in Nat
    <3>1. FrameAt(segs, p).seq \in Nat
      BY EntriesDef DEF Frames
    <3>2. FrameAt(segs, p).seq <= FrameAt(segs, last).seq
      BY <3>1, <1>4, <1>6 DEF Ordered
    <3> QED BY <3>1, <3>2, <1>4
  <2>2. f.seq > 0
    BY <1>4
  <2> QED BY <2>1, <2>2, <1>1, <1>5 DEF Ordered
<1>9. \A n, h : Holds(segs, n, h) => Holds(new, n, h)
  BY <1>1 DEF Holds
<1> QED BY <1>7, <1>8, <1>9

------------------------------------------------------------------------------
(* Segments: what a change of one file does to it.                          *)

\* What create_exclusive writes is whole.
LEMMA EmptySegment == WellFormed(<< >>) /\ ~CrashTail(<< >>) /\ Sealed(<< >>)
  BY DEF WellFormed, CrashTail, Sealed

\* An append behind a whole segment leaves whole what was whole.
LEMMA AppendedSegment ==
    ASSUME NEW seg \in Seq(Frames), WellFormed(seg), ~CrashTail(seg), NEW f \in Frames
    PROVE  /\ WellFormed(Append(seg, f))
           /\ CrashTail(Append(seg, f)) => f.kind = "torn"
<1> DEFINE new == Append(seg, f)
<1>1. /\ Len(new) = Len(seg) + 1 /\ Len(seg) \in Nat
      /\ \A i \in 1..Len(seg) : new[i] = seg[i]
      /\ new[Len(seg) + 1] = f
  BY AppendProperties, LenProperties
<1> HIDE DEF new
<1>2. ASSUME NEW i \in 1..(Len(new) - 1) PROVE new[i].kind # "torn"
  <2>1. i \in 1..Len(seg) /\ new[i] = seg[i]
    BY <1>1
  <2>2. CASE i = Len(seg)
    <3>1. seg # << >>
      BY <2>1, <2>2
    <3> QED BY <3>1, <2>1, <2>2 DEF CrashTail
  <2>3. CASE i # Len(seg)
    BY <2>1, <2>3, <1>1 DEF WellFormed
  <2> QED BY <2>2, <2>3
<1>3. CrashTail(new) => f.kind = "torn"
  BY <1>1 DEF CrashTail
<1>4. WellFormed(new)
  BY <1>2 DEF WellFormed
<1> QED BY <1>3, <1>4 DEF new

\* An fsync changes no frame.
LEMMA SyncedSegment ==
    ASSUME NEW seg \in Seq(Frames), WellFormed(seg)
    PROVE  /\ WellFormed(Sync(seg)) /\ Sealed(Sync(seg))
           /\ CrashTail(Sync(seg)) <=> CrashTail(seg)
<1>1. /\ Len(Sync(seg)) = Len(seg) /\ Len(seg) \in Nat /\ Sync(seg) \in Seq(Frames)
      /\ \A i \in 1..Len(seg) : Sync(seg)[i].synced /\ Sync(seg)[i].kind = seg[i].kind
  BY SyncProperties, LenProperties DEF Kept
<1>2. Sync(seg) = << >> <=> seg = << >>
  BY <1>1
<1>3. WellFormed(Sync(seg))
  BY <1>1 DEF WellFormed
<1>4. Sealed(Sync(seg))
  BY <1>1 DEF Sealed
<1>5. seg # << >> => Len(seg) \in 1..Len(seg)
  BY <1>1
<1>6. CrashTail(Sync(seg)) <=> CrashTail(seg)
  BY <1>1, <1>2, <1>5 DEF CrashTail
<1> QED BY <1>3, <1>4, <1>6

\* A segment cut anywhere is whole up to the cut.
LEMMA CutSegment ==
    ASSUME NEW seg \in Seq(Frames), WellFormed(seg), NEW k \in Nat, k < Len(seg),
           NEW end \in {<< >>, <<Torn>>}
    PROVE  /\ WellFormed(SubSeq(seg, 1, k) \o end)
           /\ end = << >> => ~CrashTail(SubSeq(seg, 1, k) \o end)
<1> DEFINE cut == SubSeq(seg, 1, k) \o end
<1>1. /\ cut \in Seq(Frames)
      /\ Len(cut) = k + Len(end) /\ Len(end) \in {0, 1}
      /\ \A i \in 1..k : cut[i] = seg[i]
  <2>1. k <= Len(seg)
    BY LenProperties
  <2> QED BY <2>1, TruncatedSegment
<1>2. Len(seg) \in Nat /\ \A i \in 1..k : seg[i].kind # "torn"
  BY LenProperties DEF WellFormed
<1>3. end = << >> => Len(end) = 0
  OBVIOUS
<1> HIDE DEF cut
<1> DEFINE n == Len(end)
<1>4. n \in {0, 1} /\ Len(cut) = k + n /\ (end = << >> => n = 0)
  <2>1. n \in {0, 1}
    BY <1>1
  <2>2. Len(cut) = k + n
    BY <1>1
  <2> QED BY <2>1, <2>2, <1>3
<1> HIDE DEF n
<1>5. WellFormed(cut)
  <2>1. \A i \in 1..(Len(cut) - 1) : i \in 1..k
    BY <1>4
  <2> QED BY <2>1, <1>1, <1>2 DEF WellFormed
<1>6. ASSUME end = << >>, CrashTail(cut) PROVE FALSE
  <2>1. Len(cut) = k /\ cut # << >>
    BY <1>4, <1>6 DEF CrashTail
  <2>2. k \in 1..k
    BY <2>1, <1>1
  <2> QED BY <2>1, <2>2, <1>1, <1>2, <1>6 DEF CrashTail
<1> QED BY <1>5, <1>6 DEF cut

------------------------------------------------------------------------------
(* The inductive invariant.                                                 *)

\* The segments are whole but for an incomplete tail of the one CURRENT names, nothing is
\* behind that one, and everything before it survives a power loss.
Files(segs, named) ==
    /\ named \in DOMAIN segs
    /\ \A s \in DOMAIN segs :
          /\ WellFormed(segs[s])
          /\ CrashTail(segs[s]) => s = named
          /\ s > named => segs[s] = << >>
          /\ HostCrashes /\ s < named => Sealed(segs[s])

\* Every complete checkpoint is anchored in what no fault takes away.
Anchors(segs, snaps) == \A n \in CompleteSnapshots(snaps) : Holds(segs, n, snaps[n].hash)

\* What the files satisfy at every step.
DiskInv ==
    /\ Files(segments, journalCurrent)
    /\ Chained(segments) /\ Ordered(segments)
    /\ Anchors(segments, snapshots)

\* How the loaded journal stands to the files.
SegmentInv ==
    /\ pc # "down" => current = journalCurrent
    /\ pc \in Appending \/ (pc # "down" /\ availability = "available")
         => ~CrashTail(segments[journalCurrent])
    /\ HostCrashes /\ pc \in {"create", "switch"} => Sealed(segments[journalCurrent])

\* The transaction is not written yet.
Proposing == pc = "write" /\ writing.kind = "txn"

\* How the transaction being committed stands to the journal, before and after its write.
ProposalInv ==
    /\ pc \in Appending => writing.kind \in {"txn"} \cup Seals
    /\ pc = "reply" => writing.kind # "checkpoint boundary"
    /\ Proposing => /\ writing = candidate
                    /\ writing.seq = JournalHead(segments).seq + 1
                    /\ writing.prev = JournalHead(segments).hash
    /\ Committing /\ ~Proposing =>
          /\ JournalHead(segments) = [seq |-> candidate.seq, hash |-> candidate.hash]
          /\ ~(pc = "flush" /\ writing.kind = "txn") => Holds(segments, candidate.seq, candidate.hash)

\* How the committed state the actor holds stands to the journal and to the checkpoint.
HeadInv ==
    /\ pc # "down" /\ ~(Committing /\ flow = "recovery") => Holds(segments, head.seq, head.hash)
    /\ pc # "down" /\ ~Committing /\ availability = "available" => head = JournalHead(segments)
    /\ pc \in {"preflight", "prune snapshots", "prune segments"} => snapshotCurrent = head.seq
    /\ pc = "prune segments" => CompleteSnapshots(snapshots) = DOMAIN snapshots

\* What the loaded session satisfies at every step.
SessionInv == SegmentInv /\ ProposalInv /\ HeadInv

\* A pass spares a segment only where the removal of one may fail.
SparedInv == pc = "prune segments" /\ "segment removal" \notin Faulty => spared = {}

\* What the types and the checkpoints need.
Base == TypeOK /\ FilesInv /\ PointerInv /\ SparedInv

\* The inductive invariant of recovery, relative to Base.
RecoveryInv == DiskInv /\ SessionInv

------------------------------------------------------------------------------
(* Files: how the segments stay in order.                                   *)

\* Base, as the lemmas about the journal ask for it.
LEMMA BaseFacts ==
    ASSUME Base
    PROVE  /\ Journals(segments) /\ Bounded(segments)
           /\ pc # "down" => Entries(segments) # {} /\ current \in DOMAIN segments
  BY DEF Base, TypeOK, FilesInv, Journals

\* No entry is behind the segment CURRENT names.
LEMMA EntriesUpTo ==
    ASSUME NEW segs, Journals(segs), NEW named, Files(segs, named)
    PROVE  \A p \in Entries(segs) : p[1] <= named
<1> SUFFICES ASSUME NEW p \in Entries(segs) PROVE p[1] <= named
  OBVIOUS
<1>1. p[1] \in DOMAIN segs /\ p[1] \in Nat /\ p[2] \in 1..Len(segs[p[1]])
  BY EntriesDef
<1>2. named \in Nat
  BY DEF Files, Journals
<1>3. segs[p[1]] # << >>
  BY <1>1
<1>4. ~(p[1] > named)
  BY <1>1, <1>3 DEF Files
<1> QED BY <1>1, <1>2, <1>4

\* Files after a change of one segment.
LEMMA FilesReplaced ==
    ASSUME NEW segs, NEW named \in Nat, Files(segs, named), NEW new,
           DOMAIN new = DOMAIN segs,
           \A r \in DOMAIN segs : r # named => new[r] = segs[r],
           WellFormed(new[named])
    PROVE  Files(new, named)
  BY DEF Files

\* Files after an append to the segment CURRENT names.
LEMMA FilesAppended ==
    ASSUME NEW segs, Journals(segs), Bounded(segs), NEW named, Files(segs, named),
           ~CrashTail(segs[named]), NEW f \in Frames,
           NEW new, new = WithFrame(segs, named, f)
    PROVE  /\ Files(new, named)
           /\ CrashTail(new[named]) => f.kind = "torn"
<1>1. named \in DOMAIN segs /\ named \in Nat /\ segs[named] \in Seq(Frames) /\ WellFormed(segs[named])
  BY DEF Files, Journals
<1>2. /\ DOMAIN new = DOMAIN segs
      /\ \A r \in DOMAIN segs : r # named => new[r] = segs[r]
  BY <1>1, AppendEntries
<1>3. new[named] = Append(segs[named], f)
  BY <1>1 DEF WithFrame
<1>4. /\ WellFormed(Append(segs[named], f))
      /\ CrashTail(Append(segs[named], f)) => f.kind = "torn"
  BY <1>1, AppendedSegment
<1>5. WellFormed(new[named]) /\ (CrashTail(new[named]) => f.kind = "torn")
  BY <1>3, <1>4
<1> QED BY <1>1, <1>2, <1>5, FilesReplaced

\* Files after an fsync of the segment CURRENT names.
LEMMA FilesSynced ==
    ASSUME NEW segs, Journals(segs), Bounded(segs), NEW named, Files(segs, named),
           NEW new, new = Replaced(segs, named, Sync(segs[named]))
    PROVE  /\ Files(new, named)
           /\ CrashTail(new[named]) <=> CrashTail(segs[named])
           /\ Sealed(new[named])
           /\ HostCrashes => \A p \in Entries(new) : FrameAt(new, p).synced
<1>1. named \in DOMAIN segs /\ named \in Nat /\ segs[named] \in Seq(Frames) /\ WellFormed(segs[named])
  BY DEF Files, Journals
<1>2. /\ DOMAIN new = DOMAIN segs /\ Journals(new)
      /\ new[named] = Sync(segs[named])
      /\ \A r \in DOMAIN segs : r # named => new[r] = segs[r]
  BY <1>1, SyncEntries
<1>3. /\ WellFormed(Sync(segs[named])) /\ Sealed(Sync(segs[named]))
      /\ CrashTail(Sync(segs[named])) <=> CrashTail(segs[named])
  BY <1>1, SyncedSegment
<1>4. Files(new, named)
  BY <1>1, <1>2, <1>3, FilesReplaced
<1>5. ASSUME HostCrashes, NEW p \in Entries(new) PROVE FrameAt(new, p).synced
  <2>1. /\ p[1] \in DOMAIN new /\ p[1] \in Nat /\ p[2] \in 1..Len(new[p[1]])
        /\ FrameAt(new, p) = new[p[1]][p[2]]
    BY <1>2, EntriesDef
  <2>2. p[1] <= named
    BY <1>2, <1>4, EntriesUpTo
  <2>3. Sealed(new[p[1]])
    BY <1>1, <1>2, <1>3, <1>4, <1>5, <2>1, <2>2 DEF Files
  <2> QED BY <2>1, <2>3 DEF Sealed
<1> QED BY <1>2, <1>3, <1>4, <1>5

\* Files after the end of the segment CURRENT names is lost.
LEMMA FilesCut ==
    ASSUME NEW segs, Journals(segs), Bounded(segs), NEW named, Files(segs, named),
           NEW k \in Nat, k < Len(segs[named]), NEW end \in {<< >>, <<Torn>>},
           NEW new, new = Truncated(segs, named, k, end)
    PROVE  /\ Files(new, named)
           /\ end = << >> => ~CrashTail(new[named])
<1>1. named \in DOMAIN segs /\ named \in Nat /\ segs[named] \in Seq(Frames) /\ WellFormed(segs[named])
  BY DEF Files, Journals
<1>2. k <= Len(segs[named])
  BY <1>1, LenProperties
<1>3. /\ DOMAIN new = DOMAIN segs
      /\ \A r \in DOMAIN segs : r # named => new[r] = segs[r]
  BY <1>1, <1>2, TruncateEntries
<1>4. new[named] = SubSeq(segs[named], 1, k) \o end
  BY <1>1 DEF Truncated
<1>5. /\ WellFormed(SubSeq(segs[named], 1, k) \o end)
      /\ end = << >> => ~CrashTail(SubSeq(segs[named], 1, k) \o end)
  BY <1>1, CutSegment
<1>6. WellFormed(new[named]) /\ (end = << >> => ~CrashTail(new[named]))
  BY <1>4, <1>5
<1> QED BY <1>1, <1>3, <1>6, FilesReplaced

\* Files after a new empty segment, named by CURRENT or not yet.
LEMMA FilesCreated ==
    ASSUME NEW segs, Journals(segs), Bounded(segs), NEW named, Files(segs, named),
           NEW new, new = CreateFile(segs, named + 1, << >>)
    PROVE  Files(new, named) /\ new[named] = segs[named]
<1>1. named \in DOMAIN segs /\ named \in Nat /\ named + 1 \in Nat
  BY DEF Files, Journals
<1>2. /\ DOMAIN new = DOMAIN segs \cup {named + 1}
      /\ \A r \in DOMAIN segs : new[r] = segs[r]
      /\ named + 1 \notin DOMAIN segs => new[named + 1] = << >>
  <2> DEFINE next == named + 1
  <2>1. next \in Nat /\ new = CreateFile(segs, next, << >>)
    BY <1>1
  <2> HIDE DEF next
  <2>2. /\ DOMAIN new = DOMAIN segs \cup {next}
        /\ \A r \in DOMAIN segs : new[r] = segs[r]
        /\ next \notin DOMAIN segs => new[next] = << >>
    BY <2>1 DEF CreateFile
  <2> QED BY <2>2 DEF next
<1>3. ASSUME NEW s \in DOMAIN new
      PROVE  /\ WellFormed(new[s])
             /\ CrashTail(new[s]) => s = named
             /\ s > named => new[s] = << >>
             /\ HostCrashes /\ s < named => Sealed(new[s])
  <2>1. CASE s \in DOMAIN segs
    <3>1. new[s] = segs[s]
      BY <2>1, <1>2
    <3> QED BY <2>1, <3>1 DEF Files
  <2>2. CASE s \notin DOMAIN segs
    <3>1. s = named + 1 /\ new[s] = << >> /\ ~(s < named)
      BY <1>1, <1>2, <2>2
    <3> QED BY <3>1, EmptySegment
  <2> QED BY <2>1, <2>2
<1> QED BY <1>1, <1>2, <1>3 DEF Files

\* What a step of the induction starts from.
Pre == Tolerated /\ Base /\ RecoveryInv

\* Nothing that was safe is lost.
Keeps(old, new) == \A n, h : Holds(old, n, h) => Holds(new, n, h)

\* Steps that leave the files alone.
LEMMA DiskKept ==
    ASSUME DiskInv, UNCHANGED <<segments, journalCurrent>>,
           \A n \in CompleteSnapshots(snapshots') :
              \/ n \in CompleteSnapshots(snapshots) /\ snapshots'[n] = snapshots[n]
              \/ Holds(segments, n, snapshots'[n].hash)
    PROVE  DiskInv'
<1>1. Files(segments', journalCurrent') /\ Chained(segments') /\ Ordered(segments')
  BY DEF DiskInv
<1>2. Anchors(segments', snapshots')
  BY DEF DiskInv, Anchors
<1> QED BY <1>1, <1>2 DEF DiskInv

\* Anchors stay where nothing safe is lost.
LEMMA AnchorsKept ==
    ASSUME Anchors(segments, snapshots), Keeps(segments, segments'), UNCHANGED snapshots
    PROVE  Anchors(segments', snapshots')
  BY DEF Anchors, Keeps

------------------------------------------------------------------------------
(* The initial state.                                                       *)

\* The files of a created session.
LEMMA RecoveryInit ==
    ASSUME Init
    PROVE  /\ RecoveryInv
           /\ Holds(segments, 1, 1) /\ \A n, h : Logged(segments, n, h) => n = 1 /\ h = 1
<1> DEFINE first == Synced(Transaction(1, 1, NoHash))  seal == Synced(Terminal("segment sealed"))
<1>1. /\ first.kind = "txn" /\ first.seq = 1 /\ first.hash = 1 /\ first.synced
      /\ seal.kind = "segment sealed" /\ seal.synced
      /\ first \in Frames /\ seal \in Frames
  BY DEF Synced, Transaction, Terminal, Frames, FrameKinds, Seals, NoHash
<1> HIDE DEF first, seal
<1>2. Journals(segments)
  BY TypeInit DEF TypeOK, Journals
<1>3. \/ segments = << <<first, seal>>, << >> >> /\ journalCurrent = 2
      \/ segments = << <<first>> >> /\ journalCurrent = 1
  BY DEF Init, FirstFrames, first, seal
<1>4. /\ segments[1] \in {<<first, seal>>, <<first>>} /\ 1 \in DOMAIN segments
      /\ \A s \in DOMAIN segments : s # 1 => s = 2 /\ journalCurrent = 2 /\ segments[s] = << >>
  BY <1>3
<1>a. /\ Len(segments[1]) \in {1, 2} /\ segments[1][1] = first
      /\ Len(segments[1]) = 2 => segments[1][2] = seal
  <2>1. CASE segments[1] = <<first, seal>>
    BY <2>1
  <2>2. CASE segments[1] = <<first>>
    BY <2>2
  <2> QED BY <2>1, <2>2, <1>4
<1> DEFINE len == Len(segments[1])
<1>b. ASSUME NEW i \in 1..len
      PROVE  /\ segments[1][i].kind # "torn" /\ segments[1][i].synced
             /\ segments[1][i].kind = "txn" => i = 1
  <2>1. i = 1 \/ (i = 2 /\ len = 2)
    <3>1. len \in {1, 2}
      BY <1>a
    <3> HIDE DEF len
    <3> QED BY <3>1
  <2>2. CASE i = 1
    BY <2>2, <1>a, <1>1
  <2>3. CASE i = 2 /\ len = 2
    <3>1. segments[1][i] = seal
      BY <2>3, <1>a
    <3> QED BY <3>1, <1>1
  <2> QED BY <2>1, <2>2, <2>3
<1>c. len \in Nat /\ len \in 1..len /\ 1 \in 1..len
  BY <1>a
<1>5. Files(segments, journalCurrent)
  <2>1. journalCurrent \in DOMAIN segments /\ journalCurrent \in {1, 2}
    BY <1>3
  <2>2. ASSUME NEW s \in DOMAIN segments
        PROVE  /\ WellFormed(segments[s])
               /\ CrashTail(segments[s]) => s = journalCurrent
               /\ s > journalCurrent => segments[s] = << >>
               /\ HostCrashes /\ s < journalCurrent => Sealed(segments[s])
    <3>1. CASE s = 1
      <4>1. WellFormed(segments[1]) /\ ~CrashTail(segments[1]) /\ Sealed(segments[1])
        <5>1. WellFormed(segments[1])
          <6>1. \A i \in 1..(len - 1) : i \in 1..len
            BY <1>c
          <6> QED BY <6>1, <1>b DEF WellFormed
        <5>2. ~CrashTail(segments[1])
          BY <1>b, <1>c DEF CrashTail
        <5> QED BY <5>1, <5>2, <1>b DEF Sealed
      <4> QED BY <3>1, <4>1, <2>1
    <3>2. CASE s # 1
      BY <1>4, <3>2, EmptySegment
    <3> QED BY <3>1, <3>2
  <2> QED BY <2>1, <2>2 DEF Files
<1>6. Entries(segments) = {<<1, 1>>} /\ FrameAt(segments, <<1, 1>>) = first
  <2>1. <<1, 1>> \in Entries(segments) /\ FrameAt(segments, <<1, 1>>) = first
    <3>1. segments[1][1].kind = "txn" /\ 1 \in DOMAIN segments /\ 1 \in 1..Len(segments[1])
      BY <1>1, <1>4, <1>a, <1>c
    <3>2. <<1, 1>> \in Entries(segments)
      <4>1. \A s \in DOMAIN segments : \A i \in 1..Len(segments[s]) :
              segments[s][i].kind = "txn" => <<s, i>> \in Entries(segments)
        BY <1>2, EntriesDef
      <4> QED BY <3>1, <4>1, Zenon
    <3>3. FrameAt(segments, <<1, 1>>) = segments[1][1]
      BY DEF FrameAt
    <3> QED BY <3>2, <3>3, <1>a
  <2>2. ASSUME NEW p \in Entries(segments) PROVE p = <<1, 1>>
    <3>1. /\ p = <<p[1], p[2]>> /\ p[1] \in DOMAIN segments /\ p[2] \in 1..Len(segments[p[1]])
          /\ segments[p[1]][p[2]].kind = "txn"
      BY <1>2, EntriesDef
    <3>2. p[1] = 1
      <4>1. Len(<< >>) = 0
        OBVIOUS
      <4> QED BY <3>1, <4>1, <1>4
    <3>3. p[2] = 1
      BY <3>1, <3>2, <1>b
    <3> QED BY <3>1, <3>2, <3>3
  <2> QED BY <2>1, <2>2
<1>7. Chained(segments) /\ Ordered(segments)
  <2>1. ~Before(<<1, 1>>, <<1, 1>>)
    BY DEF Before
  <2>2. \A p \in Entries(segments) : p = <<1, 1>> /\ FrameAt(segments, p).seq = 1
    BY <1>1, <1>6
  <2>3. Chained(segments)
    BY <2>1, <2>2 DEF Chained, Adjacent
  <2> QED BY <2>1, <2>2, <2>3 DEF Ordered
<1>11. Holds(segments, 1, 1) /\ \A n, h : Logged(segments, n, h) => n = 1 /\ h = 1
  BY <1>1, <1>6 DEF Holds, Logged
<1>8. Anchors(segments, snapshots)
  <2>1. Holds(segments, 1, 1)
    BY <1>11
  <2>2. \A n \in CompleteSnapshots(snapshots) : n = 1 /\ snapshots[n].hash = 1
    BY DEF CompleteSnapshots, Init
  <2> QED BY <2>1, <2>2 DEF Anchors
<1>9. pc = "down"
  BY DEF Init
<1>10. SessionInv
  BY <1>9 DEF SessionInv, SegmentInv, ProposalInv, HeadInv, Proposing, Committing, Appending
<1> QED BY <1>5, <1>7, <1>8, <1>10, <1>11 DEF RecoveryInv, DiskInv

------------------------------------------------------------------------------
(* Opening and proposing.                                                   *)

\* A proposal extends the head of the journal.
LEMMA ProposedInv ==
    ASSUME TypeOK, NEW who \in {"recovery", "commit"}, NEW point \in Points, Propose(who, point),
           point = JournalHead(segments'),
           who = "commit" => Holds(segments', head'.seq, head'.hash)
    PROVE  ProposalInv' /\ HeadInv'
<1>1. /\ candidate' = Transaction(point.seq + 1, proposals + 1, point.hash)
      /\ writing' = candidate' /\ flow' = who /\ pc' = "write"
  BY Proposed DEF Flows
<1>2. /\ writing'.kind = "txn" /\ writing'.seq = JournalHead(segments').seq + 1
      /\ writing'.prev = JournalHead(segments').hash
  BY <1>1 DEF Transaction
<1>3. Proposing' /\ Committing'
  BY <1>1, <1>2 DEF Proposing, Committing, Appending
<1>4. ProposalInv'
  BY <1>1, <1>2, <1>3 DEF ProposalInv
<1>5. HeadInv'
  BY <1>1, <1>3 DEF HeadInv
<1> QED BY <1>4, <1>5

\* Opening truncates an incomplete tail and loses no transaction.
LEMMA OpenedJournal ==
    ASSUME Pre, Open
    PROVE  /\ Journals(segments) /\ Bounded(segments) /\ Entries(segments) # {}
           /\ Files(segments', journalCurrent) /\ ~CrashTail(segments'[journalCurrent])
           /\ Chained(segments') /\ Ordered(segments')
           /\ JournalHead(segments') = JournalHead(segments)
           /\ Keeps(segments, segments') /\ Shrunk(segments, segments', 0)
<1> DEFINE J == journalCurrent  seg == segments[J]
<1>1. /\ Journals(segments) /\ Bounded(segments) /\ Files(segments, J)
      /\ Chained(segments) /\ Ordered(segments) /\ Anchors(segments, snapshots)
  BY BaseFacts DEF Pre, RecoveryInv, DiskInv
<1>2. Entries(segments) # {}
  BY DEF Open, Accepts, Anchored, Retained
<1>3. J \in DOMAIN segments /\ J \in Nat /\ seg \in Seq(Frames)
  BY <1>1 DEF Files, Journals
<1>4. /\ Files(segments', J) /\ ~CrashTail(segments'[J])
      /\ Chained(segments') /\ Ordered(segments')
      /\ JournalHead(segments') = JournalHead(segments)
      /\ Keeps(segments, segments') /\ Shrunk(segments, segments', 0)
  <2>1. CASE ~CrashTail(seg)
    <3>1. JournalHead(segments).seq \in Nat
      BY <1>1, <1>2, HeadTyped DEF Points
    <3> QED BY <2>1, <3>1, <1>1 DEF Open, Keeps, Shrunk
  <2>2. CASE CrashTail(seg)
    <3> DEFINE k == Len(seg) - 1
               cut == Truncated(segments, J, k, << >>)
    <3>1. k \in Nat /\ k < Len(seg) /\ k <= Len(seg) /\ seg[k + 1].kind = "torn" /\ Len(seg) = k + 1
      BY <2>2, <1>3, LenProperties DEF CrashTail
    <3>2. /\ DOMAIN cut = DOMAIN segments
          /\ Journals(cut) /\ Bounded(cut)
          /\ Entries(cut) = {p \in Entries(segments) : p[1] = J => p[2] <= k}
          /\ \A p \in Entries(cut) : FrameAt(cut, p) = FrameAt(segments, p)
      BY <1>1, <1>3, <3>1, TruncateEntries
    <3>3. Files(cut, J) /\ ~CrashTail(cut[J])
      BY <1>1, <1>3, <3>1, FilesCut
    <3>4. SubSeq(seg, 1, k) \o << >> = ValidPrefix(seg)
      <4>1. SubSeq(seg, 1, k) \in Seq(Frames)
        BY <1>3, <3>1, SubSeqProperties
      <4> QED BY <4>1, <2>2, ConcatEmptySeq DEF ValidPrefix
    <3>5. segments' = Replaced(cut, J, Sync(cut[J]))
      BY <2>2, <1>3, <3>4, <3>2 DEF Open, Replaced, Truncated
    <3>6. \A p \in Entries(segments) : p[1] = J => p[2] <= k
      <4> SUFFICES ASSUME NEW p \in Entries(segments), p[1] = J PROVE p[2] <= k
        OBVIOUS
      <4>1. p[2] \in 1..Len(seg) /\ seg[p[2]].kind = "txn" /\ p[2] \in Nat
        BY <1>1, EntriesDef
      <4>2. p[2] # k + 1
        BY <4>1, <3>1
      <4> HIDE DEF k
      <4> QED BY <4>1, <4>2, <3>1
    <3> HIDE DEF cut, k
    <3>7. Entries(cut) = Entries(segments)
      BY <3>2, <3>6
    <3>8. /\ Journals(segments') /\ Bounded(segments')
          /\ Entries(segments') = Entries(cut)
          /\ \A p \in Entries(cut) : Kept(FrameAt(cut, p), FrameAt(segments', p))
      BY <3>5, <3>2, <1>3, SyncEntries
    <3>9. Files(segments', J) /\ ~CrashTail(segments'[J])
      BY <3>2, <3>3, <3>5, <1>3, FilesSynced
    <3>10. /\ Entries(segments') = Entries(segments)
           /\ \A p \in Entries(segments') : Kept(FrameAt(segments, p), FrameAt(segments', p))
      BY <3>2, <3>7, <3>8
    <3>11. /\ Chained(segments') /\ Ordered(segments')
           /\ JournalHead(segments') = JournalHead(segments)
           /\ \A n, h : Holds(segments, n, h) => Holds(segments', n, h)
           /\ Shrunk(segments, segments', 0)
      BY <1>1, <1>2, <3>8, <3>10, SameEntries
    <3> QED BY <3>9, <3>11 DEF Keeps
  <2> QED BY <2>1, <2>2
<1> QED BY <1>1, <1>2, <1>4

\* Recovery.load keeps the invariant.
LEMMA RecoverOpen == ASSUME Pre, Open PROVE RecoveryInv'
<1> DEFINE J == journalCurrent
<1>1. /\ Journals(segments) /\ Bounded(segments) /\ Entries(segments) # {}
      /\ Anchors(segments, snapshots)
  BY OpenedJournal DEF Pre, RecoveryInv, DiskInv
<1>4. /\ Files(segments', J) /\ ~CrashTail(segments'[J])
      /\ Chained(segments') /\ Ordered(segments')
      /\ JournalHead(segments') = JournalHead(segments)
      /\ Keeps(segments, segments')
  BY OpenedJournal
<1> HIDE DEF J
<1>5. DiskInv'
  <2>1. UNCHANGED <<journalCurrent, snapshots>>
    BY DEF Open
  <2>2. Anchors(segments', snapshots')
    BY <1>1, <1>4, <2>1, AnchorsKept
  <2> QED BY <2>1, <2>2, <1>4 DEF DiskInv, J
<1>6. ProposalInv' /\ HeadInv'
  <2>1. head' = JournalHead(segments') /\ head' \in Points
    <3>1. JournalHead(segments) \in Points
      BY <1>1, HeadTyped
    <3> QED BY <3>1, <1>4 DEF Open
  <2> QED BY <2>1, ProposedInv DEF Open, Pre, Base
<1>7. SegmentInv'
  <2>1. pc' = "write" /\ current' = J /\ journalCurrent' = J
    BY DEF Open, Propose, J
  <2> QED BY <2>1, <1>4 DEF SegmentInv
<1> QED BY <1>5, <1>6, <1>7 DEF RecoveryInv, SessionInv

\* A submitted commit extends the head the actor holds, which is the journal's.
LEMMA RecoverSubmit == ASSUME Pre, Submit PROVE RecoveryInv'
<1>1. UNCHANGED <<segments, journalCurrent, snapshots, head, current>> /\ pc = "idle"
      /\ pc' = "write" /\ availability = "available" /\ Propose("commit", head)
  BY DEF Submit, Propose, disk
<1>2. DiskInv'
  BY <1>1, DiskKept DEF Pre, RecoveryInv
<1>3. ~Committing
  BY <1>1 DEF Committing, Appending
<1>4. head = JournalHead(segments) /\ Holds(segments, head.seq, head.hash)
  BY <1>1, <1>3 DEF Pre, RecoveryInv, SessionInv, HeadInv
<1>5. ProposalInv' /\ HeadInv'
  <2>1. head \in Points
    BY DEF Pre, Base, TypeOK
  <2> QED BY <1>1, <1>4, <2>1, ProposedInv DEF Pre, Base
<1>6. SegmentInv'
  BY <1>1 DEF Pre, RecoveryInv, SessionInv, SegmentInv
<1> QED BY <1>2, <1>5, <1>6 DEF RecoveryInv, SessionInv

------------------------------------------------------------------------------
(* Journal.append and Journal.rotate.                                       *)

\* What a step of an append finds: a whole current segment and, once the transaction is
\* written, a journal that ends in it.
LEMMA AppendingFacts ==
    ASSUME Pre, pc \in Appending
    PROVE  /\ Journals(segments) /\ Bounded(segments) /\ Entries(segments) # {}
           /\ current = journalCurrent /\ current \in DOMAIN segments /\ current \in Nat
           /\ Files(segments, current) /\ ~CrashTail(segments[current])
           /\ Chained(segments) /\ Ordered(segments) /\ Anchors(segments, snapshots)
           /\ writing \in Frames /\ writing.kind \in {"txn"} \cup Seals
<1>1. pc # "down"
  BY DEF Appending
<1>2. Journals(segments) /\ Bounded(segments) /\ Entries(segments) # {} /\ current \in DOMAIN segments
  BY <1>1, BaseFacts DEF Pre
<1>3. current = journalCurrent /\ ~CrashTail(segments[current]) /\ writing.kind \in {"txn"} \cup Seals
  BY <1>1 DEF Pre, RecoveryInv, SessionInv, SegmentInv, ProposalInv
<1>4. Files(segments, current) /\ Chained(segments) /\ Ordered(segments) /\ Anchors(segments, snapshots)
  BY <1>3 DEF Pre, RecoveryInv, DiskInv
<1> QED BY <1>2, <1>3, <1>4 DEF Journals, Pre, Base, TypeOK

\* A frame is kept as it is.
LEMMA KeptSelf == \A f : Kept(f, f)
  BY DEF Kept

\* The last transaction of the journal is safe once it is synced.
LEMMA HeadHeld ==
    ASSUME NEW segs, Journals(segs), Bounded(segs), Entries(segs) # {},
           HostCrashes => \A p \in Entries(segs) : FrameAt(segs, p).synced
    PROVE  Holds(segs, JournalHead(segs).seq, JournalHead(segs).hash)
<1>1. PICK p \in Entries(segs) : IsLast(segs, p)
  BY LastExists
<1>2. /\ JournalHead(segs).seq = FrameAt(segs, p).seq
      /\ JournalHead(segs).hash = FrameAt(segs, p).hash
  BY <1>1, HeadIsLast
<1> QED BY <1>2 DEF Holds

\* The end of an append, when the frame is written and, if it must be, synced.
LEMMA AppendedInv ==
    ASSUME Pre, pc \in {"write", "flush"}, Appended,
           UNCHANGED <<journalCurrent, snapshots, snapshotCurrent, head, current, availability>>,
           DiskInv', ~CrashTail(segments'[current]), Keeps(segments, segments'),
           HostCrashes => Sealed(segments'[current]),
           writing.kind # "checkpoint boundary" =>
              /\ JournalHead(segments') = [seq |-> candidate.seq, hash |-> candidate.hash]
              /\ Holds(segments', candidate.seq, candidate.hash),
           writing.kind = "checkpoint boundary" => JournalHead(segments') = JournalHead(segments)
    PROVE  RecoveryInv'
<1>1. /\ current = journalCurrent /\ writing.kind \in {"txn"} \cup Seals /\ pc \in Appending
      /\ pc # "down"
  BY AppendingFacts DEF Appending
<1>2. /\ flow' = flow /\ candidate' = candidate
      /\ \/ writing.kind = "txn" /\ pc' = "reply" /\ writing' = writing
         \/ writing.kind = "txn" /\ pc' = "write" /\ writing' = Terminal("segment sealed")
         \/ writing.kind \in Seals /\ pc' = "create" /\ writing' = writing
  BY DEF Appended, Goto
<1>3. Terminal("segment sealed").kind = "segment sealed"
  BY DEF Terminal
<1>4. pc' \in Appending /\ writing'.kind \in {"txn"} \cup Seals
  BY <1>1, <1>2, <1>3 DEF Appending, Seals
<1>5. writing'.kind = "checkpoint boundary" <=> writing.kind = "checkpoint boundary"
  BY <1>2, <1>3 DEF Seals
<1>6. (Committing' <=> Committing) /\ ~Proposing'
  BY <1>1, <1>2, <1>3, <1>4, <1>5 DEF Committing, Proposing, Seals
<1>7. SegmentInv'
  BY <1>1, <1>2 DEF SegmentInv
<1>8. ProposalInv'
  <2>1. pc' = "reply" => writing'.kind # "checkpoint boundary"
    BY <1>2
  <2>2. Committing => writing.kind # "checkpoint boundary"
    BY DEF Committing
  <2> QED BY <1>2, <1>4, <1>6, <2>1, <2>2 DEF ProposalInv
<1>9. HeadInv'
  <2>1. /\ ~(Committing /\ flow = "recovery") => Holds(segments, head.seq, head.hash)
        /\ ~Committing /\ availability = "available" => head = JournalHead(segments)
    BY <1>1 DEF Pre, RecoveryInv, SessionInv, HeadInv
  <2>2. ~Committing => writing.kind = "checkpoint boundary"
    BY <1>1 DEF Committing
  <2>3. ~(Committing /\ flow = "recovery") => Holds(segments', head.seq, head.hash)
    BY <2>1 DEF Keeps
  <2> QED BY <1>2, <1>6, <2>1, <2>2, <2>3 DEF HeadInv
<1> QED BY <1>7, <1>8, <1>9 DEF RecoveryInv, SessionInv

\* The write of a frame that is still to be synced.
LEMMA WrittenInv ==
    ASSUME Pre, pc = "write", Goto("flush"), UNCHANGED writing,
           UNCHANGED <<journalCurrent, snapshots, snapshotCurrent, head, current, availability>>,
           DiskInv', ~CrashTail(segments'[current]), Keeps(segments, segments'),
           writing.kind = "txn" =>
              JournalHead(segments') = [seq |-> candidate.seq, hash |-> candidate.hash],
           writing.kind # "txn" => JournalHead(segments') = JournalHead(segments)
    PROVE  RecoveryInv'
<1>1. /\ current = journalCurrent /\ writing.kind \in {"txn"} \cup Seals /\ pc \in Appending
      /\ pc # "down"
  BY AppendingFacts DEF Appending
<1>2. flow' = flow /\ candidate' = candidate /\ pc' = "flush"
  BY DEF Goto
<1>3. (Committing' <=> Committing) /\ ~Proposing' /\ pc' \in Appending
  BY <1>1, <1>2 DEF Committing, Proposing, Appending
<1>4. SegmentInv'
  BY <1>1, <1>2 DEF SegmentInv
<1>5. ProposalInv'
  <2>1. writing.kind # "txn" /\ Committing =>
          /\ JournalHead(segments) = [seq |-> candidate.seq, hash |-> candidate.hash]
          /\ Holds(segments, candidate.seq, candidate.hash)
    BY DEF Pre, RecoveryInv, SessionInv, ProposalInv, Proposing
  <2>2. writing.kind # "txn" /\ Committing => Holds(segments', candidate.seq, candidate.hash)
    BY <2>1 DEF Keeps
  <2> QED BY <1>1, <1>2, <1>3, <2>1, <2>2 DEF ProposalInv
<1>6. HeadInv'
  <2>1. /\ ~(Committing /\ flow = "recovery") => Holds(segments, head.seq, head.hash)
        /\ ~Committing /\ availability = "available" => head = JournalHead(segments)
    BY <1>1 DEF Pre, RecoveryInv, SessionInv, HeadInv
  <2>2. ~Committing => writing.kind # "txn"
    BY <1>1 DEF Committing
  <2>3. ~(Committing /\ flow = "recovery") => Holds(segments', head.seq, head.hash)
    BY <2>1 DEF Keeps
  <2> QED BY <1>2, <1>3, <2>1, <2>2, <2>3 DEF HeadInv
<1> QED BY <1>4, <1>5, <1>6 DEF RecoveryInv, SessionInv

\* append_frame writes behind the last whole frame.
LEMMA RecoverWrite == ASSUME Pre, Write PROVE RecoveryInv'
<1>1. /\ pc = "write" /\ pc \in Appending /\ segments' = WithFrame(segments, current, writing)
      /\ UNCHANGED <<journalCurrent, snapshots, snapshotCurrent, head, current, availability>>
  BY DEF Write, Appending, WithFrame
<1>2. /\ Journals(segments) /\ Bounded(segments) /\ Entries(segments) # {}
      /\ current = journalCurrent /\ current \in DOMAIN segments /\ current \in Nat
      /\ Files(segments, current) /\ ~CrashTail(segments[current])
      /\ Chained(segments) /\ Ordered(segments) /\ Anchors(segments, snapshots)
      /\ writing \in Frames /\ writing.kind \in {"txn"} \cup Seals
  BY <1>1, AppendingFacts
<1>3. /\ Journals(segments') /\ Bounded(segments')
      /\ writing.kind # "txn" => Entries(segments') = Entries(segments)
      /\ writing.kind = "txn" => Entries(segments') = Entries(segments) \cup {End(segments, current)}
      /\ \A p \in Entries(segments) : FrameAt(segments', p) = FrameAt(segments, p)
      /\ FrameAt(segments', End(segments, current)) = writing
  BY <1>1, <1>2, AppendEntries
<1>4. Files(segments', current) /\ ~CrashTail(segments'[current])
  BY <1>1, <1>2, FilesAppended DEF Seals
<1>5. \A p \in Entries(segments) : p[1] <= current
  BY <1>2, EntriesUpTo
<1>6. CASE writing.kind = "txn"
  <2>1. /\ writing = candidate
        /\ writing.seq = JournalHead(segments).seq + 1
        /\ writing.prev = JournalHead(segments).hash
    BY <1>1, <1>6 DEF Pre, RecoveryInv, SessionInv, ProposalInv, Proposing
  <2>2. /\ Chained(segments') /\ Ordered(segments')
        /\ \A n, h : Holds(segments, n, h) => Holds(segments', n, h)
    BY <1>1, <1>2, <1>5, <1>6, <2>1, AppendedChain
  <2>3. JournalHead(segments') = [seq |-> candidate.seq, hash |-> candidate.hash]
    BY <1>1, <1>2, <1>5, <1>6, <2>1, AppendedLast
  <2>4. Keeps(segments, segments')
    BY <2>2 DEF Keeps
  <2>5. DiskInv'
    BY <1>1, <1>2, <1>4, <2>2, <2>4, AnchorsKept DEF DiskInv
  <2>6. CASE Durability = "buffered"
    <3>1. ~HostCrashes
      BY <2>6 DEF Pre, Tolerated
    <3>2. Holds(segments', candidate.seq, candidate.hash)
      BY <1>3, <1>6, <2>1, <3>1 DEF Holds
    <3>3. Appended
      BY <1>6, <2>6 DEF Write
    <3> QED BY <1>1, <1>4, <1>6, <2>3, <2>4, <2>5, <3>1, <3>2, <3>3, AppendedInv
  <2>7. CASE Durability # "buffered"
    <3>1. Goto("flush") /\ UNCHANGED writing
      BY <2>7 DEF Write
    <3> QED BY <1>1, <1>4, <1>6, <2>3, <2>4, <2>5, <3>1, WrittenInv
  <2> QED BY <2>6, <2>7
<1>7. CASE writing.kind # "txn"
  <2>1. \A p \in Entries(segments') : Kept(FrameAt(segments, p), FrameAt(segments', p))
    BY <1>3, <1>7, KeptSelf
  <2>2. /\ Chained(segments') /\ Ordered(segments')
        /\ JournalHead(segments') = JournalHead(segments)
        /\ \A n, h : Holds(segments, n, h) => Holds(segments', n, h)
    BY <1>2, <1>3, <1>7, <2>1, SameEntries
  <2>3. Keeps(segments, segments')
    BY <2>2 DEF Keeps
  <2>4. DiskInv'
    BY <1>1, <1>2, <1>4, <2>2, <2>3, AnchorsKept DEF DiskInv
  <2>5. Goto("flush") /\ UNCHANGED writing
    BY <1>7 DEF Write
  <2> QED BY <1>1, <1>4, <1>7, <2>2, <2>3, <2>4, <2>5, WrittenInv
<1> QED BY <1>6, <1>7

\* The fsync makes the transaction safe.
LEMMA RecoverFlush == ASSUME Pre, Flush PROVE RecoveryInv'
<1>1. /\ pc = "flush" /\ pc \in Appending
      /\ segments' = Replaced(segments, current, Sync(segments[current])) /\ Appended
      /\ UNCHANGED <<journalCurrent, snapshots, snapshotCurrent, head, current, availability>>
  BY DEF Flush, Appending, Replaced
<1>2. /\ Journals(segments) /\ Bounded(segments) /\ Entries(segments) # {}
      /\ current = journalCurrent /\ current \in DOMAIN segments /\ current \in Nat
      /\ Files(segments, current) /\ ~CrashTail(segments[current])
      /\ Chained(segments) /\ Ordered(segments) /\ Anchors(segments, snapshots)
      /\ writing \in Frames /\ writing.kind \in {"txn"} \cup Seals
  BY <1>1, AppendingFacts
<1>3. /\ Journals(segments') /\ Bounded(segments')
      /\ Entries(segments') = Entries(segments)
      /\ \A p \in Entries(segments) : Kept(FrameAt(segments, p), FrameAt(segments', p))
  BY <1>1, <1>2, SyncEntries
<1>4. /\ Files(segments', current) /\ ~CrashTail(segments'[current]) /\ Sealed(segments'[current])
      /\ HostCrashes => \A p \in Entries(segments') : FrameAt(segments', p).synced
  BY <1>1, <1>2, FilesSynced
<1>5. /\ Chained(segments') /\ Ordered(segments')
      /\ JournalHead(segments') = JournalHead(segments)
      /\ \A n, h : Holds(segments, n, h) => Holds(segments', n, h)
  BY <1>2, <1>3, SameEntries
<1>6. Keeps(segments, segments')
  BY <1>5 DEF Keeps
<1>7. DiskInv'
  BY <1>1, <1>2, <1>4, <1>5, <1>6, AnchorsKept DEF DiskInv
<1>8. ASSUME writing.kind # "checkpoint boundary"
      PROVE  /\ JournalHead(segments') = [seq |-> candidate.seq, hash |-> candidate.hash]
             /\ Holds(segments', candidate.seq, candidate.hash)
  <2>1. Committing /\ ~Proposing
    BY <1>1, <1>8 DEF Committing, Proposing
  <2>2. JournalHead(segments) = [seq |-> candidate.seq, hash |-> candidate.hash]
    BY <2>1 DEF Pre, RecoveryInv, SessionInv, ProposalInv
  <2>3. Holds(segments', JournalHead(segments').seq, JournalHead(segments').hash)
    BY <1>2, <1>3, <1>4, HeadHeld
  <2>4. JournalHead(segments').seq = candidate.seq /\ JournalHead(segments').hash = candidate.hash
    BY <1>5, <2>2
  <2> QED BY <1>5, <2>2, <2>3, <2>4
<1> QED BY <1>1, <1>4, <1>5, <1>6, <1>7, <1>8, AppendedInv

\* A failed append: the writer becomes unavailable unless it was a boundary, which
\* Tolerated excludes.
LEMMA FailedInv ==
    ASSUME Pre, pc \in Appending, AppendFailed,
           UNCHANGED <<journalCurrent, snapshots, snapshotCurrent, head, current, writing>>,
           DiskInv', Keeps(segments, segments'),
           writing.kind = "checkpoint boundary" =>
              ~CrashTail(segments'[current]) /\ JournalHead(segments') = JournalHead(segments)
    PROVE  RecoveryInv'
<1>1. /\ current = journalCurrent /\ pc # "down"
  BY AppendingFacts DEF Appending
<1>2. /\ flow' = flow /\ candidate' = candidate /\ pc' \in {"down", "idle"}
      /\ writing.kind = "checkpoint boundary" => availability' = availability
      /\ writing.kind # "checkpoint boundary" =>
            availability' = "unavailable" /\ (flow = "recovery" => pc' = "down")
  BY DEF AppendFailed, EndCheckpoint, Goto
<1>3. ~Committing' /\ ~Proposing' /\ pc' \notin Appending
  BY <1>2 DEF Committing, Proposing, Appending
<1>4. SegmentInv'
  BY <1>1, <1>2, <1>3 DEF SegmentInv
<1>5. ProposalInv'
  BY <1>2, <1>3 DEF ProposalInv
<1>6. HeadInv'
  <2>1. /\ ~(Committing /\ flow = "recovery") => Holds(segments, head.seq, head.hash)
        /\ ~Committing /\ availability = "available" => head = JournalHead(segments)
    BY <1>1 DEF Pre, RecoveryInv, SessionInv, HeadInv
  <2>2. Committing <=> writing.kind # "checkpoint boundary"
    BY DEF Committing
  <2>3. pc' # "down" => Holds(segments', head.seq, head.hash)
    BY <1>2, <2>1, <2>2 DEF Keeps
  <2>4. availability' = "available" => head = JournalHead(segments')
    BY <1>2, <2>1, <2>2
  <2> QED BY <1>2, <1>3, <2>3, <2>4 DEF HeadInv
<1> QED BY <1>4, <1>5, <1>6 DEF RecoveryInv, SessionInv

\* A new segment holds no entry.
LEMMA CreatedInv ==
    ASSUME Pre, pc \in Appending, segments' = Created, UNCHANGED <<journalCurrent, snapshots>>
    PROVE  /\ DiskInv' /\ Keeps(segments, segments')
           /\ segments'[current] = segments[current]
           /\ JournalHead(segments') = JournalHead(segments)
           /\ Shrunk(segments, segments', 0)
<1>1. /\ Journals(segments) /\ Bounded(segments) /\ Entries(segments) # {}
      /\ current = journalCurrent /\ current \in DOMAIN segments /\ current \in Nat
      /\ Files(segments, current) /\ ~CrashTail(segments[current])
      /\ Chained(segments) /\ Ordered(segments) /\ Anchors(segments, snapshots)
  BY AppendingFacts
<1>2. /\ Journals(segments') /\ Entries(segments') = Entries(segments)
      /\ \A p \in Entries(segments) : FrameAt(segments', p) = FrameAt(segments, p)
  <2> DEFINE next == current + 1
  <2>1. next \in Nat /\ segments' = CreateFile(segments, next, << >>)
    BY <1>1 DEF Created
  <2> HIDE DEF next
  <2>2. /\ Journals(segments') /\ Entries(segments') = Entries(segments)
    BY <1>1, <2>1, CreateEntries
  <2>3. ASSUME NEW p \in Entries(segments) PROVE FrameAt(segments', p) = FrameAt(segments, p)
    <3>1. p[1] \in DOMAIN segments
      BY <1>1, EntriesDef
    <3>2. segments'[p[1]] = segments[p[1]]
      BY <2>1, <3>1 DEF CreateFile
    <3> QED BY <3>2 DEF FrameAt
  <2> QED BY <2>2, <2>3
<1>3. Files(segments', current) /\ segments'[current] = segments[current]
  <2>1. segments' = CreateFile(segments, current + 1, << >>)
    BY DEF Created
  <2> QED BY <1>1, <2>1, FilesCreated
<1>4. \A p \in Entries(segments') : Kept(FrameAt(segments, p), FrameAt(segments', p))
  BY <1>2, KeptSelf
<1>5. /\ Chained(segments') /\ Ordered(segments')
      /\ JournalHead(segments') = JournalHead(segments)
      /\ \A n, h : Holds(segments, n, h) => Holds(segments', n, h)
      /\ Shrunk(segments, segments', 0)
  BY <1>1, <1>2, <1>4, SameEntries
<1>6. Keeps(segments, segments')
  BY <1>5 DEF Keeps
<1>7. DiskInv'
  BY <1>1, <1>3, <1>5, <1>6, AnchorsKept DEF DiskInv
<1> QED BY <1>3, <1>5, <1>6, <1>7

\* create_exclusive of the next segment.
LEMMA RecoverCreate == ASSUME Pre, Create PROVE RecoveryInv'
<1>1. /\ pc = "create" /\ pc \in Appending /\ segments' = Created
      /\ UNCHANGED <<journalCurrent, snapshots, snapshotCurrent, head, current, writing>>
  BY DEF Create, Appending
<1>2. /\ DiskInv' /\ Keeps(segments, segments')
      /\ segments'[current] = segments[current]
      /\ JournalHead(segments') = JournalHead(segments)
  BY <1>1, CreatedInv
<1>3. current = journalCurrent /\ ~CrashTail(segments[current]) /\ writing.kind \in {"txn"} \cup Seals
  BY <1>1, AppendingFacts
<1>4. CASE Created = segments
  <2>1. AppendFailed
    BY <1>4 DEF Create
  <2> QED BY <1>1, <1>2, <1>3, <2>1, FailedInv
<1>5. CASE Created # segments
  <2>1. pc' = "switch" /\ flow' = flow /\ candidate' = candidate /\ availability' = availability
    BY <1>5 DEF Create, Goto
  <2>2. /\ (Committing' <=> Committing) /\ ~Proposing' /\ ~Proposing
        /\ pc' \in Appending /\ pc # "down"
    BY <1>1, <2>1 DEF Committing, Proposing, Appending
  <2>3. SegmentInv'
    BY <1>1, <1>2, <1>3, <2>1, <2>2 DEF SegmentInv, Pre, RecoveryInv, SessionInv
  <2>4. ProposalInv'
    <3>1. Committing => /\ JournalHead(segments) = [seq |-> candidate.seq, hash |-> candidate.hash]
                        /\ Holds(segments, candidate.seq, candidate.hash)
      BY <1>1, <2>2 DEF Pre, RecoveryInv, SessionInv, ProposalInv
    <3>2. Committing => Holds(segments', candidate.seq, candidate.hash)
      BY <3>1, <1>2 DEF Keeps
    <3> QED BY <1>1, <1>2, <1>3, <2>1, <2>2, <3>1, <3>2 DEF ProposalInv
  <2>5. HeadInv'
    <3>1. /\ ~(Committing /\ flow = "recovery") => Holds(segments, head.seq, head.hash)
          /\ ~Committing /\ availability = "available" => head = JournalHead(segments)
      BY <2>2 DEF Pre, RecoveryInv, SessionInv, HeadInv
    <3>2. ~(Committing /\ flow = "recovery") => Holds(segments', head.seq, head.hash)
      BY <3>1, <1>2 DEF Keeps
    <3> QED BY <1>1, <1>2, <2>1, <2>2, <3>1, <3>2 DEF HeadInv
  <2> QED BY <1>2, <2>3, <2>4, <2>5 DEF RecoveryInv, SessionInv
<1> QED BY <1>4, <1>5

\* CURRENT moves to the segment that was created.
LEMMA RecoverSwitch == ASSUME Pre, Switch PROVE RecoveryInv'
<1> DEFINE next == current + 1
<1>1. /\ pc = "switch" /\ pc \in Appending /\ journalCurrent' = next /\ current' = next
      /\ UNCHANGED <<segments, snapshots, snapshotCurrent, head, writing, availability>>
      /\ flow' = flow /\ candidate' = candidate
      /\ IF writing.kind = "checkpoint boundary" THEN pc' \in {"down", "idle"} ELSE pc' = "reply"
  BY DEF Switch, Appending, EndCheckpoint, Goto
<1>2. /\ Journals(segments) /\ current = journalCurrent /\ current \in Nat /\ next \in Nat
      /\ next \in DOMAIN segments
      /\ Files(segments, current) /\ ~CrashTail(segments[current])
      /\ Chained(segments) /\ Ordered(segments) /\ Anchors(segments, snapshots)
      /\ writing.kind \in {"txn"} \cup Seals
  <2>1. /\ Journals(segments) /\ current = journalCurrent /\ current \in Nat
        /\ Files(segments, current) /\ ~CrashTail(segments[current])
        /\ Chained(segments) /\ Ordered(segments) /\ Anchors(segments, snapshots)
        /\ writing.kind \in {"txn"} \cup Seals
    BY <1>1, AppendingFacts
  <2>2. next \in Nat
    BY <2>1
  <2>3. next \in DOMAIN segments
    BY <1>1 DEF Pre, Base, FilesInv
  <2> QED BY <2>1, <2>2, <2>3
<1>3. HostCrashes => Sealed(segments[current])
  BY <1>1, <1>2 DEF Pre, RecoveryInv, SessionInv, SegmentInv
<1>4. segments[next] = << >> /\ ~CrashTail(segments[next])
  <2>1. next > current
    BY <1>2
  <2>2. segments[next] = << >>
    BY <1>2, <2>1 DEF Files
  <2> QED BY <2>2, EmptySegment
<1>5. Files(segments, next)
  <2>1. ASSUME NEW s \in DOMAIN segments
        PROVE  /\ WellFormed(segments[s])
               /\ CrashTail(segments[s]) => s = next
               /\ s > next => segments[s] = << >>
               /\ HostCrashes /\ s < next => Sealed(segments[s])
    <3>1. /\ WellFormed(segments[s])
          /\ CrashTail(segments[s]) => s = current
          /\ s > current => segments[s] = << >>
          /\ HostCrashes /\ s < current => Sealed(segments[s])
      BY <1>2 DEF Files
    <3>2. s \in Nat /\ (s > next => s > current) /\ (s < next => s < current \/ s = current)
      BY <1>2 DEF Journals
    <3>3. ~CrashTail(segments[s])
      BY <1>2, <3>1
    <3>4. HostCrashes /\ s < next => Sealed(segments[s])
      BY <1>3, <3>1, <3>2
    <3>5. s > next => segments[s] = << >>
      BY <3>1, <3>2
    <3> QED BY <3>1, <3>3, <3>4, <3>5
  <2> QED BY <1>2, <2>1 DEF Files
<1> HIDE DEF next
<1>6. DiskInv'
  BY <1>1, <1>2, <1>5 DEF DiskInv
<1>7. /\ ~Proposing /\ ~Proposing' /\ pc # "down"
      /\ Committing <=> writing.kind # "checkpoint boundary"
      /\ Committing' <=> Committing
  BY <1>1 DEF Committing, Proposing, Appending
<1>8. SegmentInv'
  BY <1>1, <1>4 DEF SegmentInv
<1>9. ProposalInv'
  <2>1. Committing => /\ JournalHead(segments) = [seq |-> candidate.seq, hash |-> candidate.hash]
                      /\ Holds(segments, candidate.seq, candidate.hash)
    BY <1>1, <1>7 DEF Pre, RecoveryInv, SessionInv, ProposalInv
  <2> QED BY <1>1, <1>2, <1>7, <2>1 DEF ProposalInv
<1>10. HeadInv'
  <2>1. /\ ~(Committing /\ flow = "recovery") => Holds(segments, head.seq, head.hash)
        /\ ~Committing /\ availability = "available" => head = JournalHead(segments)
    BY <1>7 DEF Pre, RecoveryInv, SessionInv, HeadInv
  <2> QED BY <1>1, <1>7, <2>1 DEF HeadInv
<1> QED BY <1>6, <1>8, <1>9, <1>10 DEF RecoveryInv, SessionInv

\* The actor takes over the transaction that was made durable.
LEMMA RecoverReply == ASSUME Pre, Reply PROVE RecoveryInv'
<1>1. /\ pc = "reply" /\ pc \in Appending /\ pc' \in {"install", "idle"}
      /\ head' = [seq |-> candidate.seq, hash |-> candidate.hash]
      /\ UNCHANGED <<segments, journalCurrent, snapshots, snapshotCurrent, current, writing,
                     availability, flow, candidate>>
  BY DEF Reply, Appending, Goto, disk
<1>2. DiskInv'
  BY <1>1, DiskKept DEF Pre, RecoveryInv
<1>3. Committing /\ ~Proposing /\ ~Committing' /\ ~Proposing' /\ pc # "down" /\ pc' \notin Appending
  BY <1>1 DEF Committing, Proposing, Appending, Pre, RecoveryInv, SessionInv, ProposalInv
<1>4. /\ JournalHead(segments) = [seq |-> candidate.seq, hash |-> candidate.hash]
      /\ Holds(segments, candidate.seq, candidate.hash)
  BY <1>1, <1>3 DEF Pre, RecoveryInv, SessionInv, ProposalInv
<1>5. SegmentInv'
  BY <1>1, <1>3 DEF Pre, RecoveryInv, SessionInv, SegmentInv
<1>6. ProposalInv'
  BY <1>1, <1>3 DEF ProposalInv
<1>7. HeadInv'
  BY <1>1, <1>4 DEF HeadInv
<1> QED BY <1>2, <1>5, <1>6, <1>7 DEF RecoveryInv, SessionInv

------------------------------------------------------------------------------
(* Checkpoint and retention.                                                *)

\* A step outside of an append that leaves the journal and the loaded session alone.
LEMMA RestInv ==
    ASSUME Pre, pc # "down", pc \notin Appending, pc' \notin Appending,
           UNCHANGED <<segments, journalCurrent, head, current, availability>>,
           DiskInv',
           pc' \in {"preflight", "prune snapshots", "prune segments"} => snapshotCurrent' = head.seq,
           pc' = "prune segments" => CompleteSnapshots(snapshots') = DOMAIN snapshots'
    PROVE  RecoveryInv'
<1>1. /\ ~Committing /\ ~Committing' /\ ~Proposing'
      /\ pc' \notin {"write", "flush", "create", "switch", "reply"}
  BY DEF Committing, Proposing, Appending
<1>2. SegmentInv'
  BY <1>1 DEF Pre, RecoveryInv, SessionInv, SegmentInv
<1>3. ProposalInv'
  BY <1>1 DEF ProposalInv
<1>4. HeadInv'
  <2>1. /\ Holds(segments, head.seq, head.hash)
        /\ availability = "available" => head = JournalHead(segments)
    BY <1>1 DEF Pre, RecoveryInv, SessionInv, HeadInv
  <2> QED BY <1>1, <2>1 DEF HeadInv
<1> QED BY <1>2, <1>3, <1>4 DEF RecoveryInv, SessionInv

\* The checkpoint of the head, complete or not, keeps the snapshots anchored.
LEMMA CheckpointAnchored ==
    ASSUME Pre, pc # "down", pc \notin Appending, UNCHANGED <<segments, journalCurrent>>,
           snapshots' \in {snapshots, TornSnapshot, Written}
    PROVE  DiskInv'
<1>1. ~Committing
  BY DEF Committing
<1>2. Holds(segments, head.seq, head.hash)
  BY <1>1 DEF Pre, RecoveryInv, SessionInv, HeadInv
<1>3. ASSUME NEW n \in CompleteSnapshots(snapshots')
      PROVE  \/ n \in CompleteSnapshots(snapshots) /\ snapshots'[n] = snapshots[n]
             \/ Holds(segments, n, snapshots'[n].hash)
  <2>1. CASE snapshots' = snapshots
    BY <2>1
  <2>2. CASE snapshots' = TornSnapshot
    BY <2>2 DEF TornSnapshot, CreateFile, CompleteSnapshots
  <2>3. CASE snapshots' = Written
    <3>1. n \in DOMAIN snapshots \/ (n = head.seq /\ snapshots'[n] = Checkpoint)
      BY <2>3 DEF Written, CreateFile, CompleteSnapshots
    <3>2. CASE n \in DOMAIN snapshots
      BY <2>3, <3>2 DEF Written, CreateFile, CompleteSnapshots
    <3>3. CASE n = head.seq /\ snapshots'[n] = Checkpoint
      BY <3>3, <1>2 DEF Checkpoint
    <3> QED BY <3>1, <3>2, <3>3
  <2> QED BY <2>1, <2>2, <2>3
<1> QED BY <1>3, DiskKept DEF Pre, RecoveryInv

\* The steps of a checkpoint before retention.
LEMMA RecoverCheckpoint ==
    ASSUME Pre, Close \/ Install \/ Pointer \/ Preflight PROVE RecoveryInv'
<1>1. CASE Close
  <2>1. /\ pc = "idle" /\ pc' = "install"
        /\ UNCHANGED <<segments, journalCurrent, snapshots, head, current, availability>>
    BY <1>1 DEF Close, disk
  <2>2. pc # "down" /\ pc \notin Appending /\ pc' \notin Appending
    BY <2>1 DEF Appending
  <2>3. DiskInv'
    BY <2>1, <2>2, CheckpointAnchored
  <2> QED BY <2>1, <2>2, <2>3, RestInv
<1>2. CASE Install
  <2>1. /\ pc = "install" /\ pc' \in {"pointer", "idle", "down"} /\ snapshots' = Written
        /\ UNCHANGED <<segments, journalCurrent, head, current, availability>>
    BY <1>2 DEF Install, InstallFailed, Goto
  <2>2. pc # "down" /\ pc \notin Appending /\ pc' \notin Appending
    BY <2>1 DEF Appending
  <2>3. DiskInv'
    BY <2>1, <2>2, CheckpointAnchored
  <2> QED BY <2>1, <2>2, <2>3, RestInv
<1>3. CASE Pointer
  <2>1. /\ pc = "pointer" /\ pc' = "preflight" /\ snapshotCurrent' = head.seq
        /\ UNCHANGED <<segments, journalCurrent, snapshots, head, current, availability>>
    BY <1>3 DEF Pointer, Goto
  <2>2. pc # "down" /\ pc \notin Appending /\ pc' \notin Appending
    BY <2>1 DEF Appending
  <2>3. DiskInv'
    BY <2>1, <2>2, CheckpointAnchored
  <2> QED BY <2>1, <2>2, <2>3, RestInv
<1>4. CASE Preflight
  <2>1. /\ pc = "preflight" /\ pc' \in {"prune snapshots", "idle", "down"}
        /\ UNCHANGED <<segments, journalCurrent, snapshots, snapshotCurrent, head, current, availability>>
    BY <1>4 DEF Preflight, EndCheckpoint, Goto, disk
  <2>2. pc # "down" /\ pc \notin Appending /\ pc' \notin Appending
    BY <2>1 DEF Appending
  <2>3. DiskInv'
    BY <2>1, <2>2, CheckpointAnchored
  <2>4. snapshotCurrent = head.seq
    BY <2>1 DEF Pre, RecoveryInv, SessionInv, HeadInv
  <2> QED BY <2>1, <2>2, <2>3, <2>4, RestInv
<1> QED BY <1>1, <1>2, <1>3, <1>4

\* A snapshot that is pruned needs no anchor.
LEMMA RecoverPruneSnapshots == ASSUME Pre, PruneSnapshots PROVE RecoveryInv'
<1>1. /\ pc = "prune snapshots" /\ pc' \in {"prune snapshots", "prune segments", "idle", "down"}
      /\ UNCHANGED <<segments, journalCurrent, snapshotCurrent, head, current, availability>>
      /\ pc' = "prune segments" => snapshots' = snapshots
      /\ \/ snapshots' = snapshots
         \/ \E n \in Older : snapshots' = [m \in DOMAIN snapshots \ {n} |-> snapshots[m]]
  BY DEF PruneSnapshots, EndCheckpoint, Goto
<1>2. pc # "down" /\ pc \notin Appending /\ pc' \notin Appending
  BY <1>1 DEF Appending
<1>3. \A n \in CompleteSnapshots(snapshots') :
          n \in CompleteSnapshots(snapshots) /\ snapshots'[n] = snapshots[n]
  BY <1>1 DEF CompleteSnapshots
<1>4. DiskInv'
  BY <1>1, <1>3, DiskKept DEF Pre, RecoveryInv
<1>5. snapshotCurrent = head.seq /\ CompleteSnapshots(snapshots) = DOMAIN snapshots
  BY <1>1 DEF Pre, Base, PointerInv, RecoveryInv, SessionInv, HeadInv
<1> QED BY <1>1, <1>2, <1>4, <1>5, RestInv

\* The segment retention reclaims is the oldest one, and every transaction in it is
\* older than the oldest checkpoint.
LEMMA ReclaimedEntries ==
    ASSUME NEW segs, Journals(segs), Bounded(segs), NEW named, Files(segs, named), Ordered(segs),
           Chained(segs), NEW floor, NEW s \in DOMAIN segs, s # named,
           AnchorSegments(segs, floor) # {},
           \A a \in AnchorSegments(segs, floor) : s < a,
           \A t \in DOMAIN segs : t # named /\ (\A a \in AnchorSegments(segs, floor) : t < a) => s <= t,
           NEW new, new = Without(segs, s)
    PROVE  /\ Files(new, named) /\ Chained(new) /\ Ordered(new)
           /\ HeadKept(segs, new)
           /\ floor \in Nat /\ Shrunk(segs, new, floor)
           /\ new[named] = segs[named]
<1>1. /\ Journals(new) /\ Bounded(new)
      /\ Entries(new) = {p \in Entries(segs) : p[1] # s}
      /\ \A p \in Entries(new) : FrameAt(new, p) = FrameAt(segs, p)
  BY RemoveEntries
<1>2. PICK q \in Entries(segs) : FrameAt(segs, q).seq = floor /\ s < q[1]
  BY DEF AnchorSegments
<1>3. \A p \in Entries(segs) : p[1] \in DOMAIN segs /\ p[1] \in Nat /\ FrameAt(segs, p).seq \in Nat
  BY EntriesDef DEF Frames
<1>4. s \in Nat /\ named \in Nat /\ named \in DOMAIN segs /\ s < named
  <2>1. q[1] <= named
    BY EntriesUpTo
  <2>2. s \in Nat /\ named \in Nat /\ named \in DOMAIN segs
    BY DEF Files, Journals
  <2> QED BY <2>1, <2>2, <1>2, <1>3
<1>5. Files(new, named) /\ new[named] = segs[named]
  BY <1>4 DEF Files, Without
<1>6. ASSUME NEW p \in Entries(segs) PROVE ~(p[1] < s)
  <2> SUFFICES ASSUME p[1] < s PROVE FALSE
    OBVIOUS
  <2>1. p[1] # named /\ \A a \in AnchorSegments(segs, floor) : p[1] < a
    <3>1. \A a \in AnchorSegments(segs, floor) : a \in Nat
      BY <1>3 DEF AnchorSegments
    <3> QED BY <3>1, <1>3, <1>4
  <2> QED BY <2>1, <1>3, <1>4
<1>7. Chained(new) /\ Ordered(new)
  <2>1. \A p, r \in Entries(new) : \A m \in Entries(segs) :
              Before(p, m) /\ Before(m, r) => m \in Entries(new)
    <3> SUFFICES ASSUME NEW p \in Entries(new), NEW m \in Entries(segs), Before(p, m)
                 PROVE  m[1] # s
      BY <1>1
    <3>1. p[1] \in Nat /\ m[1] \in Nat /\ p[1] # s /\ ~(p[1] < s)
      BY <1>1, <1>3, <1>6
    <3> QED BY <3>1, <1>4 DEF Before
  <2>2. \A p \in Entries(new) : Kept(FrameAt(segs, p), FrameAt(new, p))
    BY <1>1, KeptSelf
  <2>3. Entries(new) \subseteq Entries(segs)
    BY <1>1
  <2> QED BY <2>1, <2>2, <2>3, IntervalChain
<1>8. JournalHead(new) = JournalHead(segs)
  <2>1. PICK last \in Entries(segs) : IsLast(segs, last)
    BY <1>2, LastExists
  <2>2. last[1] # s
    <3>1. last = q \/ Before(q, last)
      BY <2>1 DEF IsLast
    <3> QED BY <3>1, <1>2, <1>3, <1>4 DEF Before
  <2>3. last \in Entries(new) /\ Entries(new) \subseteq Entries(segs)
    BY <2>2, <1>1
  <2>4. \A p \in Entries(new) : Kept(FrameAt(segs, p), FrameAt(new, p))
    BY <1>1, KeptSelf
  <2> QED BY <2>1, <2>3, <2>4, <1>1, SameHead
<1>9. floor \in Nat
  BY <1>2, <1>3
<1>10. ASSUME NEW p \in Entries(segs), FrameAt(segs, p).seq >= floor
       PROVE  p \in Entries(new) /\ FrameAt(new, p) = FrameAt(segs, p)
  <2>1. p[1] # s
    <3> SUFFICES ASSUME p[1] = s PROVE FALSE
      OBVIOUS
    <3>1. Before(p, q)
      BY <1>2 DEF Before
    <3>2. FrameAt(segs, p).seq < floor
      BY <3>1, <1>2 DEF Ordered
    <3> QED BY <3>2, <1>3, <1>9, <1>10
  <2> QED BY <2>1, <1>1
<1>11. Shrunk(segs, new, floor)
  <2>1. \A n, h : Logged(new, n, h) => Logged(segs, n, h)
    BY <1>1 DEF Logged
  <2>2. \A n \in Nat : \A h : n >= floor /\ Logged(segs, n, h) => Logged(new, n, h)
    BY <1>10 DEF Logged
  <2>3. \A n \in Nat : \A h : n >= floor /\ Holds(segs, n, h) => Holds(new, n, h)
    BY <1>10 DEF Holds
  <2>4. JournalHead(segs).seq \in Nat
    BY <1>2, HeadTyped DEF Points
  <2>5. JournalHead(new).seq <= JournalHead(segs).seq
    BY <1>8, <2>4
  <2> QED BY <2>1, <2>2, <2>3, <2>5 DEF Shrunk
<1> QED BY <1>5, <1>7, <1>8, <1>9, <1>11 DEF HeadKept

\* The floor is the oldest checkpoint.
LEMMA FloorLeast ==
    ASSUME TypeOK, DOMAIN snapshots # {}
    PROVE  Floor \in Nat /\ \A n \in DOMAIN snapshots : n \in Nat /\ Floor <= n
<1>1. \E n \in DOMAIN snapshots : \A m \in DOMAIN snapshots : n <= m
  BY LeastNat DEF TypeOK
<1> QED BY <1>1 DEF Floor, TypeOK

\* Retention reclaims only what the oldest checkpoint does not need.
LEMMA ReclaimedJournal ==
    ASSUME Pre, pc = "prune segments", MayReclaim, NEW s \in Reclaimable,
           \A t \in Reclaimable : s <= t, segments' = Without(segments, s)
    PROVE  /\ Files(segments', current) /\ Chained(segments') /\ Ordered(segments')
           /\ JournalHead(segments') = JournalHead(segments)
           /\ segments'[current] = segments[current]
           /\ Floor \in Nat /\ \A n \in DOMAIN snapshots : n \in Nat /\ n >= Floor
           /\ Shrunk(segments, segments', Floor)
<1>1. current = journalCurrent
  BY DEF Pre, RecoveryInv, SessionInv, SegmentInv
<1>2. /\ Journals(segments) /\ Bounded(segments) /\ Files(segments, current)
      /\ Chained(segments) /\ Ordered(segments)
  BY <1>1, BaseFacts DEF Pre, RecoveryInv, DiskInv
<1>3. /\ s \in DOMAIN segments /\ s # current
      /\ AnchorSegments(segments, Floor) # {}
      /\ \A a \in AnchorSegments(segments, Floor) : s < a
      /\ \A t \in DOMAIN segments :
            t # current /\ (\A a \in AnchorSegments(segments, Floor) : t < a) => s <= t
  BY DEF Reclaimable, MayReclaim
<1>4. /\ Files(segments', current) /\ Chained(segments') /\ Ordered(segments')
      /\ JournalHead(segments') = JournalHead(segments)
      /\ Floor \in Nat /\ Shrunk(segments, segments', Floor)
      /\ segments'[current] = segments[current]
  <2>1. HeadKept(segments, segments')
    BY <1>2, <1>3, ReclaimedEntries
  <2>2. /\ Files(segments', current) /\ Chained(segments') /\ Ordered(segments')
        /\ Floor \in Nat /\ Shrunk(segments, segments', Floor)
        /\ segments'[current] = segments[current]
    BY <1>2, <1>3, ReclaimedEntries
  <2> QED BY <2>1, <2>2 DEF HeadKept
<1>5. snapshotCurrent \in DOMAIN snapshots
  BY DEF Pre, Base, PointerInv, CompleteSnapshots
<1>6. \A n \in DOMAIN snapshots : n \in Nat /\ n >= Floor
  BY <1>5, FloorLeast DEF Pre, Base
<1> QED BY <1>4, <1>6

\* The reclaiming of segments and the start of the boundary behind it.
LEMMA RecoverPruneSegments == ASSUME Pre, PruneSegments PROVE RecoveryInv'
<1>1. /\ pc = "prune segments"
      /\ UNCHANGED <<journalCurrent, snapshots, snapshotCurrent, head, current, availability>>
      /\ flow' = flow /\ spared = {}
  BY DEF PruneSegments, EndCheckpoint, Goto, Pre, Base, SparedInv, Tolerated
<1>2. pc # "down" /\ pc \notin Appending /\ ~Committing
  BY <1>1 DEF Appending, Committing
<1>3. /\ current = journalCurrent /\ Holds(segments, head.seq, head.hash)
      /\ availability = "available" => head = JournalHead(segments)
      /\ snapshotCurrent = head.seq /\ CompleteSnapshots(snapshots) = DOMAIN snapshots
  BY <1>1, <1>2 DEF Pre, RecoveryInv, SessionInv, SegmentInv, HeadInv
<1>4. CASE segments' = segments /\ pc' \in {"down", "idle"}
  <2>1. DiskInv' /\ pc' \notin Appending
    BY <1>1, <1>2, <1>4, CheckpointAnchored DEF Appending
  <2> QED BY <1>1, <1>2, <1>4, <2>1, RestInv
<1>5. CASE segments' = segments /\ MayReclaim /\ pc' = "write" /\ writing' = Terminal("checkpoint boundary")
  <2>1. DiskInv'
    BY <1>1, <1>2, <1>5, CheckpointAnchored
  <2>2. writing'.kind = "checkpoint boundary"
    BY <1>5 DEF Terminal
  <2>3. ~Committing' /\ ~Proposing'
    BY <2>2 DEF Committing, Proposing
  <2>4. journalCurrent \in DOMAIN segments
    BY DEF Pre, RecoveryInv, DiskInv, Files
  <2>5. ~CrashTail(segments[journalCurrent])
    BY <1>5, <2>4 DEF MayReclaim
  <2>6. SegmentInv'
    BY <1>1, <1>3, <1>5, <2>5 DEF SegmentInv
  <2>7. ProposalInv'
    BY <1>5, <2>2, <2>3 DEF ProposalInv, Seals
  <2>8. HeadInv'
    BY <1>1, <1>3, <1>5, <2>3 DEF HeadInv
  <2> QED BY <2>1, <2>6, <2>7, <2>8 DEF RecoveryInv, SessionInv
<1>6. CASE /\ MayReclaim /\ pc' = "prune segments"
           /\ \E s \in Reclaimable : (\A t \in Reclaimable : s <= t) /\ segments' = Without(segments, s)
  <2>1. PICK s \in Reclaimable : (\A t \in Reclaimable : s <= t) /\ segments' = Without(segments, s)
    BY <1>6
  <2>2. Anchors(segments, snapshots)
    BY DEF Pre, RecoveryInv, DiskInv
  <2>3. \A n \in DOMAIN snapshots : n \in Nat /\ n >= Floor
    BY <1>1, <1>6, <2>1, ReclaimedJournal
  <2>4. /\ Files(segments', current) /\ Chained(segments') /\ Ordered(segments')
        /\ JournalHead(segments') = JournalHead(segments)
        /\ Floor \in Nat
        /\ \A n \in Nat : \A h : n >= Floor /\ Holds(segments, n, h) => Holds(segments', n, h)
        /\ segments'[current] = segments[current]
    BY <1>1, <1>6, <2>1, ReclaimedJournal DEF Shrunk
  <2>5. snapshotCurrent \in DOMAIN snapshots
    BY DEF Pre, Base, PointerInv, CompleteSnapshots
  <2>7. Anchors(segments', snapshots')
    BY <1>1, <1>3, <2>2, <2>3, <2>4 DEF Anchors
  <2>8. DiskInv'
    BY <1>1, <1>3, <2>4, <2>7 DEF DiskInv
  <2>9. Holds(segments', head.seq, head.hash)
    BY <1>3, <2>3, <2>4, <2>5
  <2>10. ~Committing' /\ ~Proposing' /\ pc' \notin Appending
    BY <1>6 DEF Committing, Proposing, Appending
  <2>11. SegmentInv'
    BY <1>1, <1>2, <1>3, <1>6, <2>4, <2>10 DEF SegmentInv, Pre, RecoveryInv, SessionInv
  <2>12. ProposalInv'
    BY <1>6, <2>10 DEF ProposalInv
  <2>13. HeadInv'
    BY <1>1, <1>3, <1>6, <2>4, <2>9, <2>10 DEF HeadInv
  <2> QED BY <2>8, <2>11, <2>12, <2>13 DEF RecoveryInv, SessionInv
<1>7. \/ segments' = segments /\ pc' \in {"down", "idle"}
      \/ segments' = segments /\ MayReclaim /\ pc' = "write" /\ writing' = Terminal("checkpoint boundary")
      \/ /\ MayReclaim /\ pc' = "prune segments"
         /\ \E s \in Reclaimable : (\A t \in Reclaimable : s <= t) /\ segments' = Without(segments, s)
  BY <1>1 DEF PruneSegments, EndCheckpoint, Goto, Without
<1> QED BY <1>4, <1>5, <1>6, <1>7

------------------------------------------------------------------------------
(* Errors and crashes.                                                      *)

\* A frame cut short behind the last whole one.
LEMMA TornInv ==
    ASSUME Pre, pc = "write", segments' = TornAppend, UNCHANGED journalCurrent
    PROVE  /\ Files(segments', journalCurrent') /\ Chained(segments') /\ Ordered(segments')
           /\ Keeps(segments, segments')
           /\ JournalHead(segments') = JournalHead(segments)
           /\ Shrunk(segments, segments', 0)
<1>1. /\ Journals(segments) /\ Bounded(segments) /\ Entries(segments) # {}
      /\ current = journalCurrent /\ current \in DOMAIN segments /\ current \in Nat
      /\ Files(segments, current) /\ ~CrashTail(segments[current])
      /\ Chained(segments) /\ Ordered(segments)
  BY AppendingFacts DEF Appending
<1>2. segments' = WithFrame(segments, current, Torn) /\ Torn \in Frames /\ Torn.kind # "txn"
  BY FramesTyped DEF TornAppend, WithFrame, Torn
<1>3. /\ Journals(segments') /\ Bounded(segments')
      /\ Entries(segments') = Entries(segments)
      /\ \A p \in Entries(segments) : FrameAt(segments', p) = FrameAt(segments, p)
  BY <1>1, <1>2, AppendEntries
<1>4. Files(segments', current)
  BY <1>1, <1>2, FilesAppended
<1>5. \A p \in Entries(segments') : Kept(FrameAt(segments, p), FrameAt(segments', p))
  BY <1>3, KeptSelf
<1>6. /\ Chained(segments') /\ Ordered(segments')
      /\ JournalHead(segments') = JournalHead(segments)
      /\ \A n, h : Holds(segments, n, h) => Holds(segments', n, h)
      /\ Shrunk(segments, segments', 0)
  BY <1>1, <1>3, <1>5, SameEntries
<1> QED BY <1>1, <1>4, <1>6 DEF Keeps

\* An error, with or without the effect of the operation.
LEMMA RecoverFault == ASSUME Pre, Fault PROVE RecoveryInv'
<1>1. UNCHANGED <<writing, head, current>> /\ (AppendFault \/ CheckpointFault \/ RemovalFault)
  BY DEF Fault
<1>2. CASE AppendFault
  <2>1. /\ writing.kind # "checkpoint boundary" /\ AppendFailed
        /\ UNCHANGED <<snapshots, snapshotCurrent, journalCurrent>>
        /\ \/ segments' = segments
           \/ pc = "write" /\ segments' = TornAppend
           \/ pc = "create" /\ segments' = Created
        /\ pc \in Appending
    BY <1>2 DEF AppendFault, Pre, Tolerated, Appending
  <2>2. DiskInv' /\ Keeps(segments, segments')
    <3>1. CASE segments' = segments
      <4>1. DiskInv'
        BY <2>1, <3>1, DiskKept DEF Pre, RecoveryInv
      <4> QED BY <3>1, <4>1 DEF Keeps
    <3>2. CASE pc = "write" /\ segments' = TornAppend
      <4>1. /\ Files(segments', journalCurrent') /\ Chained(segments') /\ Ordered(segments')
            /\ Keeps(segments, segments')
        BY <2>1, <3>2, TornInv
      <4>2. Anchors(segments', snapshots')
        BY <2>1, <4>1, AnchorsKept DEF Pre, RecoveryInv, DiskInv
      <4> QED BY <4>1, <4>2 DEF DiskInv
    <3>3. CASE pc = "create" /\ segments' = Created
      BY <2>1, <3>3, CreatedInv
    <3> QED BY <2>1, <3>1, <3>2, <3>3
  <2> QED BY <1>1, <2>1, <2>2, FailedInv
<1>3. CASE CheckpointFault
  <2>1. /\ pc \in {"install", "pointer", "preflight", "prune snapshots", "prune segments"}
        /\ pc' \in {"down", "idle"} /\ snapshots' \in {snapshots, TornSnapshot, Written}
        /\ UNCHANGED <<segments, journalCurrent, availability>>
    BY <1>3 DEF CheckpointFault, InstallFailed, EndCheckpoint, Goto
  <2>2. pc # "down" /\ pc \notin Appending /\ pc' \notin Appending
    BY <2>1 DEF Appending
  <2>3. DiskInv'
    BY <2>1, <2>2, CheckpointAnchored
  <2> QED BY <1>1, <2>1, <2>2, <2>3, RestInv
<1>4. CASE RemovalFault
  <2>1. /\ pc = "prune snapshots" /\ pc' = pc
        /\ UNCHANGED <<segments, journalCurrent, snapshots, snapshotCurrent, availability>>
    BY <1>4 DEF RemovalFault, disk, Pre, Tolerated
  <2>2. pc # "down" /\ pc \notin Appending /\ pc' \notin Appending
    BY <2>1 DEF Appending
  <2>3. DiskInv'
    BY <2>1, DiskKept DEF Pre, RecoveryInv
  <2>4. snapshotCurrent = head.seq
    BY <2>1 DEF Pre, RecoveryInv, SessionInv, HeadInv
  <2> QED BY <1>1, <2>1, <2>2, <2>3, <2>4, RestInv
<1> QED BY <1>1, <1>2, <1>3, <1>4

\* A session that is not loaded only has its files to account for.
LEMMA DownInv ==
    ASSUME DiskInv', pc' = "down"
    PROVE  RecoveryInv'
  BY DEF RecoveryInv, SessionInv, SegmentInv, ProposalInv, HeadInv, Committing, Proposing, Appending

\* A crash of the process.
LEMMA RecoverCrash == ASSUME Pre, Crash PROVE RecoveryInv'
<1>1. /\ pc # "down" /\ pc' = "down" /\ UNCHANGED journalCurrent
      /\ \/ segments' = segments /\ pc # "install" /\ snapshots' = snapshots
         \/ segments' = segments /\ pc = "install" /\ snapshots' \in {snapshots, TornSnapshot}
         \/ pc = "write" /\ segments' = TornAppend /\ snapshots' = snapshots
  BY DEF Crash
<1>2. CASE segments' = segments /\ pc # "install" /\ snapshots' = snapshots
  BY <1>1, <1>2, DiskKept, DownInv DEF Pre, RecoveryInv
<1>3. CASE segments' = segments /\ pc = "install" /\ snapshots' \in {snapshots, TornSnapshot}
  <2>1. pc \notin Appending
    BY <1>3 DEF Appending
  <2> QED BY <1>1, <1>3, <2>1, CheckpointAnchored, DownInv
<1>4. CASE pc = "write" /\ segments' = TornAppend /\ snapshots' = snapshots
  <2>1. /\ Files(segments', journalCurrent') /\ Chained(segments') /\ Ordered(segments')
        /\ Keeps(segments, segments')
    BY <1>1, <1>4, TornInv
  <2>2. Anchors(segments', snapshots')
    BY <1>4, <2>1, AnchorsKept DEF Pre, RecoveryInv, DiskInv
  <2> QED BY <1>1, <2>1, <2>2, DownInv DEF DiskInv
<1> QED BY <1>1, <1>2, <1>3, <1>4

\* A power loss reaches the current segment only, and no frame an fsync covers.
LEMMA PowerLoss ==
    ASSUME Pre, HostCrash
    PROVE  /\ Files(segments', journalCurrent') /\ Chained(segments') /\ Ordered(segments')
           /\ Keeps(segments, segments') /\ Shrunk(segments, segments', 0)
           /\ Journals(segments') /\ Bounded(segments')
<1>1. /\ HostCrashes /\ pc' = "down" /\ UNCHANGED <<journalCurrent, snapshots>>
  BY DEF HostCrash
<1>2. /\ Journals(segments) /\ Bounded(segments) /\ Files(segments, journalCurrent)
      /\ Chained(segments) /\ Ordered(segments) /\ Anchors(segments, snapshots)
  BY BaseFacts DEF Pre, RecoveryInv, DiskInv
<1>3. PICK s \in DOMAIN segments : \E k \in 0..(Len(segments[s]) - 1) :
          /\ \A i \in (k + 1)..Len(segments[s]) : ~segments[s][i].synced
          /\ \E end \in {<< >>, <<Torn>>} :
                segments' = [segments EXCEPT ![s] = SubSeq(@, 1, k) \o end]
  BY DEF HostCrash
<1>4. PICK k \in 0..(Len(segments[s]) - 1), end \in {<< >>, <<Torn>>} :
          /\ \A i \in (k + 1)..Len(segments[s]) : ~segments[s][i].synced
          /\ segments' = Truncated(segments, s, k, end)
  BY <1>3 DEF Truncated
<1> DEFINE n == Len(segments[s])
<1>5. n \in Nat /\ s \in Nat /\ journalCurrent \in Nat /\ journalCurrent \in DOMAIN segments
  BY <1>2, LenProperties DEF Journals, Files
<1>6. k \in Nat /\ k < n /\ k <= n /\ n \in (k + 1)..n /\ n \in 1..n /\ n > 0
  <2>1. k \in 0..(n - 1)
    BY <1>4
  <2> HIDE DEF n
  <2> QED BY <2>1, <1>5
<1>7. s = journalCurrent
  <2>1. ~segments[s][n].synced
    BY <1>4, <1>6
  <2>2. ~Sealed(segments[s])
    BY <2>1, <1>6 DEF Sealed
  <2>3. segments[s] # << >>
    BY <1>6
  <2>4. ~(s < journalCurrent) /\ ~(s > journalCurrent)
    BY <1>1, <1>2, <2>2, <2>3 DEF Files
  <2> QED BY <2>4, <1>5
<1>8. /\ Journals(segments') /\ Bounded(segments')
      /\ Entries(segments') = {p \in Entries(segments) : p[1] = s => p[2] <= k}
      /\ \A p \in Entries(segments') : FrameAt(segments', p) = FrameAt(segments, p)
  BY <1>2, <1>4, <1>6, TruncateEntries
<1>9. Files(segments', journalCurrent')
  BY <1>1, <1>2, <1>4, <1>6, <1>7, FilesCut
<1>10. \A p \in Entries(segments) :
          /\ p[1] \in Nat /\ p[2] \in Nat /\ p[1] <= s /\ p[2] \in 1..Len(segments[p[1]])
          /\ FrameAt(segments, p) = segments[p[1]][p[2]]
  BY <1>2, <1>7, EntriesDef, EntriesUpTo
<1>11. Chained(segments') /\ Ordered(segments')
  <2>1. \A p, q \in Entries(segments') : \A r \in Entries(segments) :
          Before(p, r) /\ Before(r, q) => r \in Entries(segments')
    <3> SUFFICES ASSUME NEW q \in Entries(segments'), NEW r \in Entries(segments), Before(r, q), r[1] = s
                 PROVE  r[2] <= k
      BY <1>8
    <3>1. q \in Entries(segments) /\ (q[1] = s => q[2] <= k)
      BY <1>8
    <3>2. q[1] = s
      BY <3>1, <1>10, <1>5 DEF Before
    <3> QED BY <3>1, <3>2, <1>5, <1>6, <1>10 DEF Before
  <2>2. \A p \in Entries(segments') : Kept(FrameAt(segments, p), FrameAt(segments', p))
    BY <1>8, KeptSelf
  <2>3. Entries(segments') \subseteq Entries(segments)
    BY <1>8
  <2> QED BY <1>2, <2>1, <2>2, <2>3, IntervalChain
<1>12. Keeps(segments, segments')
  <2>1. ASSUME NEW m, NEW h, Holds(segments, m, h) PROVE Holds(segments', m, h)
    <3>1. PICK p \in Entries(segments) :
             FrameAt(segments, p).seq = m /\ FrameAt(segments, p).hash = h /\ FrameAt(segments, p).synced
      BY <1>1, <2>1 DEF Holds
    <3>2. p[1] = s => p[2] <= k
      <4> SUFFICES ASSUME p[1] = s, ~(p[2] <= k) PROVE FALSE
        OBVIOUS
      <4>1. p[2] \in 1..n /\ p[2] \in Nat /\ FrameAt(segments, p) = segments[s][p[2]]
        BY <1>10
      <4>2. p[2] \in (k + 1)..n
        <5> HIDE DEF n
        <5> QED BY <4>1, <1>5, <1>6
      <4> QED BY <4>1, <4>2, <3>1, <1>4
    <3>3. p \in Entries(segments') /\ FrameAt(segments', p) = FrameAt(segments, p)
      BY <3>2, <1>8
    <3> QED BY <3>1, <3>3 DEF Holds
  <2> QED BY <2>1 DEF Keeps
<1>13. Shrunk(segments, segments', 0)
  <2>1. Entries(segments') # {} /\ Entries(segments) # {}
    <3>1. Holds(segments, snapshotCurrent, snapshots[snapshotCurrent].hash)
      BY DEF Pre, Base, PointerInv, RecoveryInv, DiskInv, Anchors
    <3> QED BY <3>1, <1>12 DEF Keeps, Holds
  <2>2. PICK old \in Entries(segments) : IsLast(segments, old)
    BY <1>2, <2>1, LastExists
  <2>3. PICK last \in Entries(segments') : IsLast(segments', last)
    BY <1>8, <2>1, LastExists
  <2>4. /\ last \in Entries(segments) /\ FrameAt(segments', last) = FrameAt(segments, last)
        /\ JournalHead(segments').seq = FrameAt(segments, last).seq
        /\ JournalHead(segments).seq = FrameAt(segments, old).seq
    BY <1>2, <1>8, <2>2, <2>3, HeadIsLast
  <2>5. \A p \in Entries(segments) : FrameAt(segments, p).seq \in Nat
    BY <1>2, EntriesDef DEF Frames
  <2>6. JournalHead(segments').seq <= JournalHead(segments).seq
    <3>1. last = old \/ Before(last, old)
      BY <2>2, <2>4 DEF IsLast
    <3>2. FrameAt(segments, last).seq <= FrameAt(segments, old).seq
      BY <3>1, <1>2, <2>4, <2>5 DEF Ordered
    <3> QED BY <3>2, <2>4
  <2>7. ASSUME NEW p \in Entries(segments), FrameAt(segments, p).seq <= JournalHead(segments').seq
        PROVE  p \in Entries(segments')
    <3> SUFFICES ASSUME p[1] = s, ~(p[2] <= k) PROVE FALSE
      BY <1>8
    <3>1. last[1] = s => last[2] <= k
      BY <1>8
    <3>2. Before(last, p)
      BY <3>1, <1>5, <1>6, <1>10, <2>4 DEF Before
    <3>3. FrameAt(segments, last).seq < FrameAt(segments, p).seq
      BY <3>2, <1>2, <2>4 DEF Ordered
    <3> QED BY <3>3, <2>4, <2>5, <2>7
  <2>8. \A m, h : Logged(segments', m, h) => Logged(segments, m, h)
    BY <1>8 DEF Logged
  <2>9. \A m \in Nat : \A h :
          m <= JournalHead(segments').seq /\ Logged(segments, m, h) => Logged(segments', m, h)
    BY <1>8, <2>7 DEF Logged
  <2>10. \A m \in Nat : \A h : Holds(segments, m, h) => Holds(segments', m, h)
    BY <1>12 DEF Keeps
  <2> QED BY <2>6, <2>8, <2>9, <2>10 DEF Shrunk
<1> QED BY <1>1, <1>8, <1>9, <1>11, <1>12, <1>13

\* A crash of the host.
LEMMA RecoverHostCrash == ASSUME Pre, HostCrash PROVE RecoveryInv'
<1>1. pc' = "down" /\ UNCHANGED <<journalCurrent, snapshots>>
  BY DEF HostCrash
<1>2. /\ Files(segments', journalCurrent') /\ Chained(segments') /\ Ordered(segments')
      /\ Keeps(segments, segments')
  BY PowerLoss
<1>3. Anchors(segments', snapshots')
  BY <1>1, <1>2, AnchorsKept DEF Pre, RecoveryInv, DiskInv
<1> QED BY <1>1, <1>2, <1>3, DownInv DEF DiskInv

------------------------------------------------------------------------------
(* Recovery accepts, and the writer follows.                                *)

\* Stuttering.
LEMMA RecoverStutter == ASSUME RecoveryInv, UNCHANGED vars PROVE RecoveryInv'
<1>1. UNCHANGED <<segments, journalCurrent, snapshots, snapshotCurrent, pc, flow, candidate, writing,
                  head, current, availability>>
  BY DEF vars, disk, memory
<1> QED BY ZenonT(60), <1>1 DEF RecoveryInv, DiskInv, SessionInv, SegmentInv, ProposalInv, HeadInv,
                    Committing, Proposing

\* Base holds initially.
LEMMA BaseInit == Init => Base
<1>1. Init => SparedInv
  BY DEF Init, SparedInv
<1> QED BY <1>1, TypeInit, PointerInit DEF Base

\* A retention pass reaches the segments with nothing spared, and adds to that only
\* with a failing removal.
LEMMA SparedNext == SparedInv /\ [Next]_vars => SparedInv'
<1> SUFFICES ASSUME SparedInv, [Next]_vars, pc' = "prune segments",
                    "segment removal" \notin Faulty
             PROVE  spared' = {}
  BY DEF SparedInv
<1>1. CASE PruneSnapshots
  BY <1>1 DEF PruneSnapshots, Goto, EndCheckpoint
<1>2. CASE PruneSegments
  BY <1>2 DEF PruneSegments, SparedInv
<1>3. CASE Fault
  BY <1>3 DEF Fault, AppendFault, AppendFailed, CheckpointFault, RemovalFault, InstallFailed,
              EndCheckpoint, Goto
<1>4. CASE Open \/ Submit \/ Close \/ Crash \/ HostCrash
  BY <1>4 DEF Open, Submit, Close, Propose, Crash, HostCrash
<1>5. CASE Write \/ Flush \/ Create \/ Switch \/ Reply
  BY <1>5 DEF Write, Flush, Create, Switch, Reply, Appended, AppendFailed, EndCheckpoint, Goto
<1>6. CASE Install \/ Pointer \/ Preflight
  BY <1>6 DEF Install, Pointer, Preflight, InstallFailed, EndCheckpoint, Goto
<1>7. CASE UNCHANGED vars
  BY <1>7 DEF vars, memory, SparedInv
<1> QED BY <1>1, <1>2, <1>3, <1>4, <1>5, <1>6, <1>7 DEF Next, Work

\* Base is inductive.
LEMMA BaseStep == Base /\ [Next]_vars => Base'
  BY TypeNext, PointerNext, SparedNext DEF Base

\* RecoveryInv is inductive relative to Base.
LEMMA RecoveryNext == Pre /\ [Next]_vars => RecoveryInv'
<1> SUFFICES ASSUME Pre, [Next]_vars PROVE RecoveryInv'
  OBVIOUS
<1>1. CASE UNCHANGED vars
  BY <1>1, RecoverStutter DEF Pre
<1> QED
  BY <1>1, RecoverOpen, RecoverSubmit, RecoverWrite, RecoverFlush, RecoverCreate, RecoverSwitch,
     RecoverReply, RecoverCheckpoint, RecoverPruneSnapshots, RecoverPruneSegments, RecoverFault,
     RecoverCrash, RecoverHostCrash DEF Next, Work

\* The invariant is what Recovery.prepare checks, and more.
LEMMA Recoverable == ASSUME Base, RecoveryInv PROVE RecoveryAccepts
<1>1. Scannable(segments, journalCurrent) /\ Chained(segments)
  BY DEF RecoveryInv, DiskInv, Files, Scannable
<1>2. \A n \in CompleteSnapshots(snapshots) : Anchored(n, snapshots, segments)
  BY DEF RecoveryInv, DiskInv, Anchors, Anchored, Holds, Retained
<1>3. snapshotCurrent \in CompleteSnapshots(snapshots)
  BY DEF Base, PointerInv
<1>4. snapshotCurrent # NoPointer
  <2>1. Holds(segments, snapshotCurrent, snapshots[snapshotCurrent].hash)
    BY <1>3 DEF RecoveryInv, DiskInv, Anchors
  <2>2. PICK p \in Entries(segments) : FrameAt(segments, p).seq = snapshotCurrent
    BY <2>1 DEF Holds
  <2>3. FrameAt(segments, p).seq > 0
    BY DEF RecoveryInv, DiskInv, Ordered
  <2> QED BY <2>2, <2>3 DEF NoPointer
<1> QED BY <1>1, <1>2, <1>3, <1>4 DEF RecoveryAccepts, Accepts

\* The invariant is about every step of a loaded session, not only those.
LEMMA WriterFollows == ASSUME RecoveryInv PROVE WriterFollowsJournal
<1>1. pc \in {"idle", "install", "pointer", "preflight"} => ~Committing /\ pc # "down"
  BY DEF Committing, Appending
<1> QED BY <1>1 DEF RecoveryInv, SessionInv, HeadInv, WriterFollowsJournal

\* Whatever step a crash or an error interrupts, Recovery.prepare accepts the files,
\* for every segment size, retention and number of transactions, faults and crashes.
THEOREM RecoveryCorrect == ASSUME Tolerated PROVE Spec => []RecoveryAccepts
<1>1. Init => Base /\ RecoveryInv
  BY BaseInit, RecoveryInit
<1>2. Base /\ RecoveryInv /\ [Next]_vars => (Base /\ RecoveryInv)'
  BY BaseStep, RecoveryNext DEF Pre
<1>3. Base /\ RecoveryInv => RecoveryAccepts
  BY Recoverable
<1> QED BY <1>1, <1>2, <1>3, PTL DEF Spec

\* An available writer chains its next transaction to the last one recovery would
\* find.
THEOREM WriterCorrect == ASSUME Tolerated PROVE Spec => []WriterFollowsJournal
<1>1. Init => Base /\ RecoveryInv
  BY BaseInit, RecoveryInit
<1>2. Base /\ RecoveryInv /\ [Next]_vars => (Base /\ RecoveryInv)'
  BY BaseStep, RecoveryNext DEF Pre
<1>3. Base /\ RecoveryInv => WriterFollowsJournal
  BY WriterFollows
<1> QED BY <1>1, <1>2, <1>3, PTL DEF Spec

------------------------------------------------------------------------------
(* The log recovery would rebuild.                                          *)

\* RecoveredLog, of any files and acknowledged log.
LogOf(segs, log) ==
    [n \in 1..JournalHead(segs).seq |->
        LET frame == {t \in Retained(segs) : t.seq = n}
        IN  CASE frame # {} -> (CHOOSE t \in frame : TRUE).hash
              [] frame = {} /\ n \in DOMAIN log -> log[n]
              [] OTHER -> NoHash]

\* The log has no gap: what the journal no longer holds was acknowledged, the journal
\* says the same as the acknowledged log, and the last acknowledged transaction is safe.
Covers(segs, log) ==
    /\ \A n \in 1..JournalHead(segs).seq : n \in 1..Len(log) \/ \E h : Logged(segs, n, h)
    /\ \A n \in 1..Len(log) : \A h : Logged(segs, n, h) => h = log[n]
    /\ Len(log) > 0 /\ Holds(segs, Len(log), log[Len(log)])

\* A journal with a head.
Journal(segs) ==
    /\ Journals(segs) /\ Bounded(segs) /\ Ordered(segs) /\ Entries(segs) # {}

\* The head is above every transaction, and a transaction has one hash.
LEMMA HeadAbove ==
    ASSUME NEW segs, Journal(segs)
    PROVE  /\ JournalHead(segs).seq \in Nat \ {0} /\ JournalHead(segs).hash \in Nat
           /\ Logged(segs, JournalHead(segs).seq, JournalHead(segs).hash)
           /\ \A n, h : Logged(segs, n, h) => n \in 1..JournalHead(segs).seq /\ h \in Nat
           /\ \A n, h, g : Logged(segs, n, h) /\ Logged(segs, n, g) => h = g
<1>1. PICK last \in Entries(segs) : IsLast(segs, last)
  BY LastExists DEF Journal
<1>2. \A p \in Entries(segs) : /\ FrameAt(segs, p).seq \in Nat /\ FrameAt(segs, p).hash \in Nat
                              /\ FrameAt(segs, p).seq > 0
  BY EntriesDef DEF Journal, Ordered, Frames
<1>3. /\ JournalHead(segs).seq = FrameAt(segs, last).seq
      /\ JournalHead(segs).hash = FrameAt(segs, last).hash
  BY <1>1, HeadIsLast DEF Journal
<1>4. \A p \in Entries(segs) : FrameAt(segs, p).seq <= FrameAt(segs, last).seq
  <2> SUFFICES ASSUME NEW p \in Entries(segs) PROVE FrameAt(segs, p).seq <= FrameAt(segs, last).seq
    OBVIOUS
  <2>1. p = last \/ Before(p, last)
    BY <1>1 DEF IsLast
  <2>2. p # last => FrameAt(segs, p).seq < FrameAt(segs, last).seq
    BY <2>1 DEF Journal, Ordered
  <2> QED BY <2>2, <1>2
<1>5. JournalHead(segs).seq \in Nat \ {0} /\ JournalHead(segs).hash \in Nat
  BY <1>2, <1>3
<1>6. Logged(segs, JournalHead(segs).seq, JournalHead(segs).hash)
  BY <1>3 DEF Logged
<1>7. ASSUME NEW n, NEW h, Logged(segs, n, h) PROVE n \in 1..JournalHead(segs).seq /\ h \in Nat
  <2>1. PICK p \in Entries(segs) : FrameAt(segs, p).seq = n /\ FrameAt(segs, p).hash = h
    BY <1>7 DEF Logged
  <2> QED BY <2>1, <1>2, <1>3, <1>4
<1>8. ASSUME NEW n, NEW h, NEW g, Logged(segs, n, h), Logged(segs, n, g) PROVE h = g
  <2>1. PICK p \in Entries(segs) : FrameAt(segs, p).seq = n /\ FrameAt(segs, p).hash = h
    BY <1>8 DEF Logged
  <2>2. PICK q \in Entries(segs) : FrameAt(segs, q).seq = n /\ FrameAt(segs, q).hash = g
    BY <1>8 DEF Logged
  <2>3. ~Before(p, q) /\ ~Before(q, p)
    BY <2>1, <2>2, <1>2 DEF Journal, Ordered
  <2>4. p = q
    BY <2>3, BeforeProperties DEF Journal
  <2> QED BY <2>1, <2>2, <2>4
<1> QED BY <1>5, <1>6, <1>7, <1>8

\* What is safe is in the journal.
LEMMA HeldLogged ==
    ASSUME NEW segs, NEW n, NEW h, Holds(segs, n, h) PROVE Logged(segs, n, h)
  BY DEF Holds, Logged

\* The log recovery would rebuild, position by position.
LEMMA LogAt ==
    ASSUME NEW segs, Journal(segs), NEW log \in Seq(Nat), Covers(segs, log), NEW new, new = LogOf(segs, log)
    PROVE  /\ new \in Seq(Nat) /\ Len(new) = JournalHead(segs).seq
           /\ Len(log) \in 1..JournalHead(segs).seq
           /\ \A n \in 1..Len(log) : new[n] = log[n]
           /\ \A n, h : Logged(segs, n, h) => new[n] = h
           /\ \A n \in 1..JournalHead(segs).seq : n \in 1..Len(log) \/ Logged(segs, n, new[n])
<1> DEFINE top == JournalHead(segs).seq
           frame(n) == {t \in Retained(segs) : t.seq = n}
<1>1. top \in Nat /\ DOMAIN log = 1..Len(log) /\ Len(log) \in Nat
  BY HeadAbove, LenProperties
<1>2. \A n : frame(n) # {} <=> \E h : Logged(segs, n, h)
  BY DEF Retained, Logged
<1>3. ASSUME NEW n, NEW t \in frame(n) PROVE Logged(segs, n, t.hash)
  BY <1>3 DEF Retained, Logged
<1>4. ASSUME NEW n, frame(n) # {} PROVE Logged(segs, n, (CHOOSE t \in frame(n) : TRUE).hash)
  BY <1>3, <1>4
<1>5. ASSUME NEW n \in 1..top
      PROVE  /\ frame(n) # {} => Logged(segs, n, new[n])
             /\ frame(n) = {} => n \in 1..Len(log) /\ new[n] = log[n]
  <2>1. new[n] = CASE frame(n) # {} -> (CHOOSE t \in frame(n) : TRUE).hash
                   [] frame(n) = {} /\ n \in DOMAIN log -> log[n]
                   [] OTHER -> NoHash
    BY <1>5 DEF LogOf
  <2>2. CASE frame(n) # {}
    <3>1. new[n] = (CHOOSE t \in frame(n) : TRUE).hash
      <4> HIDE DEF frame
      <4> QED BY <2>1, <2>2
    <3> QED BY <3>1, <2>2, <1>4
  <2>3. CASE frame(n) = {}
    <3>1. n \in 1..Len(log)
      BY <2>3, <1>2 DEF Covers
    <3>2. new[n] = log[n]
      <4> HIDE DEF frame
      <4> QED BY <2>1, <2>3, <3>1, <1>1
    <3> QED BY <2>3, <3>1, <3>2
  <2> QED BY <2>2, <2>3
<1> HIDE DEF frame
<1>6. Len(log) \in 1..top
  <2>1. Logged(segs, Len(log), log[Len(log)])
    BY HeldLogged DEF Covers
  <2> QED BY <2>1, HeadAbove
<1>7. \A n \in 1..Len(log) : new[n] = log[n]
  <2> SUFFICES ASSUME NEW n \in 1..Len(log) PROVE new[n] = log[n]
    OBVIOUS
  <2>1. n \in 1..top
    <3> HIDE DEF top
    <3> QED BY <1>1, <1>6
  <2> QED BY <2>1, <1>5 DEF Covers
<1>8. ASSUME NEW n, NEW h, Logged(segs, n, h) PROVE new[n] = h
  <2>1. n \in 1..top /\ frame(n) # {}
    BY <1>2, <1>8, HeadAbove
  <2>2. Logged(segs, n, new[n])
    BY <2>1, <1>5
  <2> QED BY <2>2, <1>8, HeadAbove
<1>9. \A n \in 1..top : n \in 1..Len(log) \/ Logged(segs, n, new[n])
  BY <1>5
<1>10. \A n \in 1..top : new[n] \in Nat
  <2> SUFFICES ASSUME NEW n \in 1..top PROVE new[n] \in Nat
    OBVIOUS
  <2>1. CASE n \in 1..Len(log)
    BY <2>1, <1>7, ElementOfSeq
  <2>2. CASE Logged(segs, n, new[n])
    BY <2>2, HeadAbove
  <2> QED BY <2>1, <2>2, <1>9
<1>11. new \in Seq(Nat) /\ Len(new) = top
  <2>1. new = [n \in 1..top |-> new[n]]
    BY DEF LogOf
  <2> HIDE DEF top
  <2> QED BY <2>1, <1>1, <1>10
<1> QED BY <1>6, <1>7, <1>8, <1>9, <1>11

\* Files that lose nothing behind the acknowledged log but a newest part: the log is
\* cut behind the acknowledged one.
LEMMA ShrunkLog ==
    ASSUME NEW segs, Journal(segs), NEW new, Journal(new), NEW log \in Seq(Nat), Covers(segs, log),
           NEW floor \in Nat, floor <= Len(log), Shrunk(segs, new, floor),
           NEW before, before = LogOf(segs, log), NEW after, after = LogOf(new, log)
    PROVE  /\ Covers(new, log)
           /\ Len(after) \in Len(log)..Len(before)
           /\ \A n \in 1..Len(after) : after[n] = before[n]
<1>1. /\ Len(before) = JournalHead(segs).seq /\ Len(before) \in Nat
      /\ Len(log) \in 1..Len(before) /\ Len(log) \in Nat
      /\ \A n \in 1..Len(log) : before[n] = log[n]
      /\ \A n, h : Logged(segs, n, h) => before[n] = h
      /\ \A n \in 1..Len(before) : n \in 1..Len(log) \/ Logged(segs, n, before[n])
  BY SMTT(60), LogAt, HeadAbove
<1> DEFINE top == JournalHead(new).seq
<1>2. top \in Nat /\ top <= Len(before)
  BY <1>1, HeadAbove DEF Shrunk
<1>3. \A n \in 1..top : n \in 1..Len(log) \/ Logged(new, n, before[n])
  <2> SUFFICES ASSUME NEW n \in 1..top, ~(n \in 1..Len(log)) PROVE Logged(new, n, before[n])
    OBVIOUS
  <2>1. n \in Nat /\ n >= floor /\ n <= top /\ n \in 1..Len(before)
    <3> HIDE DEF top
    <3> QED BY <1>1, <1>2
  <2>2. Logged(segs, n, before[n])
    BY <1>1, <2>1
  <2> QED BY <2>1, <2>2 DEF Shrunk
<1>4. Covers(new, log)
  <2>1. Holds(new, Len(log), log[Len(log)])
    BY <1>1 DEF Shrunk, Covers
  <2>2. \A n \in 1..Len(log) : \A h : Logged(new, n, h) => h = log[n]
    BY DEF Shrunk, Covers
  <2>3. Len(log) > 0
    BY DEF Covers
  <2> QED BY <2>1, <2>2, <2>3, <1>3 DEF Covers
<1>5. /\ Len(after) = top /\ Len(log) \in 1..top
      /\ \A n \in 1..Len(log) : after[n] = log[n]
      /\ \A n, h : Logged(new, n, h) => after[n] = h
  BY <1>4, LogAt
<1>6. Len(after) \in Len(log)..Len(before)
  BY <1>1, <1>2, <1>5
<1>7. \A n \in 1..Len(after) : after[n] = before[n]
  BY <1>1, <1>3, <1>5
<1> QED BY <1>4, <1>6, <1>7

------------------------------------------------------------------------------
(* The invariant of the refinement.                                         *)

\* The hashes in use are up to bound.
Fresh(segs, log, bound) ==
    /\ \A n, h : Logged(segs, n, h) => h \in 1..bound
    /\ \A n \in 1..Len(log) : log[n] \in 1..bound

\* What the refinement needs beside the invariant: no gap, no hash used twice, a proposal
\* ahead of the acknowledged log, and a head and a checkpoint within it.
LogInv ==
    /\ Covers(segments, acked)
    /\ Fresh(segments, acked, IF Proposing THEN proposals - 1 ELSE proposals)
    /\ proposals \in 1..MaxTransactions
    /\ candidate.hash = proposals
    /\ Committing => Len(acked) < candidate.seq
    /\ pc # "down" /\ ~(Committing /\ flow = "recovery") => head.seq <= Len(acked)
    /\ snapshotCurrent <= Len(acked)

\* The journal has a head.
LEMMA JournalFacts == ASSUME Pre PROVE Journal(segments)
<1>1. Holds(segments, snapshotCurrent, snapshots[snapshotCurrent].hash)
  BY DEF Pre, Base, PointerInv, RecoveryInv, DiskInv, Anchors
<1> QED BY <1>1, BaseFacts DEF Pre, RecoveryInv, DiskInv, Journal, Holds

------------------------------------------------------------------------------
(* Steps that neither propose nor acknowledge.                              *)

\* A step that proposes and acknowledges nothing.
Passive ==
    /\ UNCHANGED <<candidate, proposals, acked, head>>
    /\ Committing' => Committing
    /\ Proposing' => Proposing
    /\ pc' # "down" =>
          /\ pc # "down"
          /\ Committing /\ flow = "recovery" => Committing' /\ flow' = "recovery"
    /\ snapshotCurrent' = snapshotCurrent \/ (pc = "pointer" /\ snapshotCurrent' = head.seq)

\* The steps that are passive.
PassiveSteps ==
    \/ Close \/ Write \/ Flush \/ Create \/ Switch \/ Install \/ Pointer \/ Preflight
    \/ PruneSnapshots \/ PruneSegments \/ Fault \/ Crash \/ HostCrash

\* Every step but Open, Submit and Reply is passive.
LEMMA PassiveStep == ASSUME Pre, PassiveSteps PROVE Passive
<1>a. pc \in Appending => writing.kind \in {"txn"} \cup Seals
  BY DEF Pre, RecoveryInv, SessionInv, ProposalInv
<1>b. /\ Terminal("segment sealed").kind = "segment sealed"
      /\ Terminal("checkpoint boundary").kind = "checkpoint boundary"
  BY DEF Terminal
<1>1. CASE Close
  BY <1>1 DEF Close, Passive, Committing, Proposing, Appending, disk, bounds
<1>2. CASE Write \/ Flush
  <2>1. /\ UNCHANGED <<snapshotCurrent, head, acked, proposals, flow, candidate>>
        /\ pc \in {"write", "flush"}
        /\ \/ pc = "write" /\ pc' = "flush" /\ writing' = writing
           \/ writing.kind = "txn" /\ pc' = "reply" /\ writing' = writing
           \/ writing.kind = "txn" /\ pc' = "write" /\ writing' = Terminal("segment sealed")
           \/ writing.kind \in Seals /\ pc' = "create" /\ writing' = writing
    BY <1>2 DEF Write, Flush, Appended, Goto, bounds
  <2> QED BY <2>1, <1>a, <1>b DEF Passive, Committing, Proposing, Appending, Seals
<1>3. CASE Create \/ Switch
  <2>1. /\ UNCHANGED <<snapshotCurrent, head, acked, proposals, flow, candidate, writing>>
        /\ pc \in {"create", "switch"}
        /\ \/ pc' = "down"
           \/ pc' = "idle" /\ (writing.kind # "checkpoint boundary" => flow # "recovery")
           \/ pc' = "switch"
           \/ pc' = "reply" /\ writing.kind # "checkpoint boundary"
    BY <1>3 DEF Create, Switch, AppendFailed, EndCheckpoint, Goto, bounds
  <2> QED BY <2>1 DEF Passive, Committing, Proposing, Appending
<1>4. CASE Install \/ Pointer \/ Preflight \/ PruneSnapshots
  <2>1. /\ UNCHANGED <<head, acked, proposals, flow, candidate, writing>>
        /\ pc \in {"install", "pointer", "preflight", "prune snapshots"}
        /\ pc' \notin Appending
        /\ snapshotCurrent' = snapshotCurrent \/ (pc = "pointer" /\ snapshotCurrent' = head.seq)
    BY <1>4 DEF Install, Pointer, Preflight, PruneSnapshots, InstallFailed, EndCheckpoint, Goto,
                bounds, disk, Appending
  <2> QED BY <2>1 DEF Passive, Committing, Proposing, Appending
<1>5. CASE PruneSegments
  <2>1. /\ UNCHANGED <<snapshotCurrent, head, acked, proposals, flow, candidate>>
        /\ pc = "prune segments"
        /\ \/ pc' \in {"idle", "down", "prune segments"}
           \/ pc' = "write" /\ writing' = Terminal("checkpoint boundary")
    BY <1>5 DEF PruneSegments, EndCheckpoint, Goto, bounds
  <2> QED BY <2>1, <1>b DEF Passive, Committing, Proposing, Appending
<1>6. CASE Fault
  <2>1. /\ UNCHANGED <<writing, head, acked, proposals>>
        /\ AppendFault \/ CheckpointFault \/ RemovalFault
    BY <1>6 DEF Fault
  <2>2. CASE AppendFault
    <3>1. /\ UNCHANGED <<flow, candidate, snapshotCurrent>> /\ pc \in Appending
          /\ \/ pc' = "down"
             \/ pc' = "idle" /\ (writing.kind # "checkpoint boundary" => flow # "recovery")
      BY <2>2 DEF AppendFault, AppendFailed, EndCheckpoint, Goto, Appending
    <3> QED BY <2>1, <3>1 DEF Passive, Committing, Proposing, Appending
  <2>3. CASE CheckpointFault
    <3>1. /\ UNCHANGED <<flow, candidate>>
          /\ pc \in {"install", "pointer", "preflight", "prune snapshots", "prune segments"}
          /\ pc' \in {"idle", "down"}
          /\ snapshotCurrent' = snapshotCurrent \/ (pc = "pointer" /\ snapshotCurrent' = head.seq)
      BY <2>3 DEF CheckpointFault, InstallFailed, EndCheckpoint, Goto
    <3> QED BY <2>1, <3>1 DEF Passive, Committing, Proposing, Appending
  <2>4. CASE RemovalFault
    BY <2>1, <2>4 DEF RemovalFault, disk, Passive, Committing, Proposing
  <2> QED BY <2>1, <2>2, <2>3, <2>4
<1>7. CASE Crash \/ HostCrash
  BY <1>7 DEF Crash, HostCrash, memory, Passive, Committing, Proposing, Appending
<1> QED BY <1>1, <1>2, <1>3, <1>4, <1>5, <1>6, <1>7 DEF PassiveSteps

\* A passive step adds the proposed transaction or loses at most what the
\* acknowledged log covers and a newest part.
LEMMA PassiveJournal ==
    ASSUME Pre, PassiveSteps, ~(Write /\ Proposing)
    PROVE  \E floor \in 0..snapshotCurrent : Shrunk(segments, segments', floor)
<1>1. Journal(segments) /\ snapshotCurrent \in Nat
  BY JournalFacts DEF Pre, Base, TypeOK
<1>2. 0 \in 0..snapshotCurrent
  BY <1>1
<1>3. CASE segments' = segments
  <2>1. JournalHead(segments).seq \in Nat
    BY <1>1, HeadAbove
  <2>2. Shrunk(segments, segments', 0)
    BY <1>3, <2>1 DEF Shrunk
  <2> QED BY <1>2, <2>2
<1>4. CASE Write
  <2>1. /\ Journals(segments) /\ Bounded(segments) /\ Entries(segments) # {}
        /\ current \in DOMAIN segments /\ writing \in Frames /\ writing.kind # "txn"
        /\ segments' = WithFrame(segments, current, writing)
    BY <1>4, AppendingFacts DEF Write, Appending, WithFrame, Proposing
  <2>2. /\ Journals(segments') /\ Entries(segments') = Entries(segments)
        /\ \A p \in Entries(segments) : FrameAt(segments', p) = FrameAt(segments, p)
    BY <2>1, AppendEntries
  <2>3. \A p \in Entries(segments') : Kept(FrameAt(segments, p), FrameAt(segments', p))
    BY <2>2, KeptSelf
  <2>4. Shrunk(segments, segments', 0)
    BY <2>1, <2>2, <2>3, SameEntries
  <2> QED BY <1>2, <2>4
<1>5. CASE Flush
  <2>1. /\ Journals(segments) /\ Bounded(segments) /\ Entries(segments) # {}
        /\ current \in DOMAIN segments
        /\ segments' = Replaced(segments, current, Sync(segments[current]))
    BY <1>5, AppendingFacts DEF Flush, Appending, Replaced
  <2>2. /\ Journals(segments') /\ Entries(segments') = Entries(segments)
        /\ \A p \in Entries(segments) : Kept(FrameAt(segments, p), FrameAt(segments', p))
    BY <2>1, SyncEntries
  <2>3. Shrunk(segments, segments', 0)
    BY <2>1, <2>2, SameEntries
  <2> QED BY <1>2, <2>3
<1>6. CASE Create \/ (Fault /\ pc = "create" /\ segments' = Created)
  <2>1. pc \in Appending /\ segments' = Created /\ UNCHANGED <<journalCurrent, snapshots>>
    BY <1>6 DEF Create, Fault, AppendFault, CheckpointFault, RemovalFault, Appending
  <2> QED BY <1>2, <2>1, CreatedInv
<1>7. CASE pc = "write" /\ segments' = TornAppend /\ UNCHANGED journalCurrent
  BY <1>2, <1>7, TornInv
<1>8. CASE PruneSegments /\ segments' # segments
  <2>0. spared = {}
    BY <1>8 DEF PruneSegments, Pre, Base, SparedInv, Tolerated
  <2>1. PICK s \in Reclaimable : (\A t \in Reclaimable : s <= t) /\ segments' = Without(segments, s)
    BY <1>8, <2>0 DEF PruneSegments, Without
  <2>2. pc = "prune segments" /\ MayReclaim
    BY <1>8 DEF PruneSegments
  <2>3. snapshotCurrent \in DOMAIN snapshots
    BY DEF Pre, Base, PointerInv, CompleteSnapshots
  <2>4. Shrunk(segments, segments', Floor)
    BY <2>1, <2>2, ReclaimedJournal
  <2>5. Floor \in Nat /\ Floor <= snapshotCurrent
    BY <2>3, FloorLeast DEF Pre, Base
  <2> QED BY <1>1, <2>4, <2>5
<1>9. CASE HostCrash
  BY <1>2, <1>9, PowerLoss
<1>10. \/ segments' = segments
       \/ Write \/ Flush \/ Create \/ HostCrash
       \/ Fault /\ pc = "create" /\ segments' = Created
       \/ pc = "write" /\ segments' = TornAppend /\ UNCHANGED journalCurrent
       \/ PruneSegments /\ segments' # segments
  BY DEF PassiveSteps, Close, Switch, Install, Pointer, Preflight, PruneSnapshots, Fault,
         AppendFault, CheckpointFault, RemovalFault, Crash, disk
<1> QED BY <1>3, <1>4, <1>5, <1>6, <1>7, <1>8, <1>9, <1>10

\* The journal has a head after every step.
LEMMA JournalNext == ASSUME Pre, [Next]_vars PROVE Journal(segments)' /\ RecoveryInv' /\ Base'
<1>1. Base' /\ RecoveryInv'
  BY BaseStep, RecoveryNext DEF Pre
<1>2. (Holds(segments, snapshotCurrent, snapshots[snapshotCurrent].hash))'
  BY <1>1 DEF Base, PointerInv, RecoveryInv, DiskInv, Anchors
<1>3. (Journals(segments) /\ Bounded(segments))'
  BY <1>1 DEF Base, TypeOK, FilesInv, Journals
<1> QED BY <1>1, <1>2, <1>3 DEF RecoveryInv, DiskInv, Journal, Holds

\* RecoveredLog is LogOf the files.
LEMMA RecoveredLogDef ==
    RecoveredLog = LogOf(segments, acked) /\ RecoveredLog' = LogOf(segments', acked')
  BY DEF RecoveredLog, LogOf

\* A sequence that agrees with a longer one is its beginning.
LEMMA PrefixIsSubSeq ==
    ASSUME NEW s \in Seq(Nat), NEW t \in Seq(Nat), Len(t) <= Len(s),
           \A n \in 1..Len(t) : t[n] = s[n]
    PROVE  t = SubSeq(s, 1, Len(t))
<1> DEFINE k == Len(t)
<1>1. k \in Nat /\ k <= Len(s)
  BY LenProperties
<1>2. SubSeq(s, 1, k) \in Seq(Nat) /\ Len(SubSeq(s, 1, k)) = k
      /\ \A n \in 1..k : SubSeq(s, 1, k)[n] = s[n]
  <2> HIDE DEF k
  <2> QED BY <1>1, SubSeqProperties
<1> QED BY <1>2, SeqEqual

\* Losing files is Lose, or nothing that the log shows.
LEMMA ShrinkStep ==
    ASSUME Journal(segments), Journal(segments'), acked \in Seq(Nat), Covers(segments, acked),
           acked' = acked, NEW floor \in Nat, floor <= Len(acked),
           Shrunk(segments, segments', floor)
    PROVE  Covers(segments', acked') /\ LogStep
<1> DEFINE before == RecoveredLog  after == RecoveredLog'
<1>1. before = LogOf(segments, acked) /\ after = LogOf(segments', acked)
  BY RecoveredLogDef
<1> HIDE DEF before, after
<1>2. /\ Covers(segments', acked)
      /\ Len(after) \in Len(acked)..Len(before)
      /\ \A n \in 1..Len(after) : after[n] = before[n]
  BY <1>1, ShrunkLog
<1>3. before \in Seq(Nat) /\ after \in Seq(Nat)
  BY <1>1, <1>2, LogAt
<1>4. Len(before) \in Nat /\ Len(after) \in Nat /\ Len(acked) \in Nat
  BY <1>3, LenProperties
<1>5. Len(after) <= Len(before) /\ Len(acked) <= Len(after)
  BY <1>2, <1>4
<1>6. after = SubSeq(before, 1, Len(after))
  BY <1>2, <1>3, <1>5, PrefixIsSubSeq
<1>7. CASE Len(after) = Len(before)
  <2>1. after = before
    BY <1>2, <1>3, <1>7, SeqEqual
  <2> QED BY <1>2, <2>1 DEF LogStep, before, after
<1>8. CASE Len(after) < Len(before)
  <2>1. Len(after) \in Len(acked)..(Len(before) - 1)
    BY <1>4, <1>5, <1>8
  <2>2. Log!Lose
    BY <1>6, <2>1 DEF Log!Lose, before, after
  <2> QED BY <1>2, <2>2 DEF LogStep, Log!Next
<1> QED BY <1>4, <1>5, <1>7, <1>8

\* Losing files uses no hash.
LEMMA FreshShrunk ==
    ASSUME NEW segs, NEW new, NEW log, NEW bound, Fresh(segs, log, bound),
           NEW floor, Shrunk(segs, new, floor)
    PROVE  Fresh(new, log, bound)
  BY DEF Fresh, Shrunk

\* A passive step that writes no proposal implements Lose or a stutter.
LEMMA RefinePassive ==
    ASSUME Pre, LogInv, PassiveSteps, ~(Write /\ Proposing)
    PROVE  LogInv' /\ LogStep
<1>1. Passive
  BY PassiveStep
<1>2. PICK floor \in 0..snapshotCurrent : Shrunk(segments, segments', floor)
  BY PassiveJournal
<1>3. Journal(segments) /\ Journal(segments')
  BY JournalFacts, JournalNext DEF PassiveSteps, Next, Work
<1>4. acked \in Seq(Nat) /\ Len(acked) \in Nat /\ snapshotCurrent \in Nat /\ head.seq \in Nat
  BY LenProperties DEF Pre, Base, TypeOK, Points
<1>5. floor \in Nat /\ floor <= Len(acked) /\ acked' = acked
  BY <1>1, <1>2, <1>4 DEF LogInv, Passive
<1>6. Covers(segments', acked') /\ LogStep
  BY <1>2, <1>3, <1>4, <1>5, ShrinkStep DEF LogInv
<1>7. Fresh(segments', acked', IF Proposing' THEN proposals' - 1 ELSE proposals')
  <2>1. CASE Proposing <=> Proposing'
    BY <1>1, <1>2, <1>5, <2>1, FreshShrunk DEF LogInv, Passive
  <2>2. CASE Proposing /\ ~Proposing'
    <3>1. Fresh(segments', acked', proposals - 1)
      BY <1>2, <1>5, <2>2, FreshShrunk DEF LogInv
    <3>2. Fresh(segments', acked', proposals)
      BY <3>1 DEF LogInv, Fresh
    <3> QED BY <1>1, <2>2, <3>2 DEF Passive
  <2> QED BY <2>1, <2>2, <1>1 DEF Passive
<1>8. snapshotCurrent' <= Len(acked')
  <2>1. pc = "pointer" => head.seq <= Len(acked)
    BY DEF LogInv, Committing, Appending
  <2> QED BY <1>1, <1>5, <2>1 DEF LogInv, Passive
<1>9. pc' # "down" /\ ~(Committing' /\ flow' = "recovery") => head'.seq <= Len(acked')
  BY <1>1 DEF LogInv, Passive
<1>10. Committing' => Len(acked') < candidate'.seq
  BY <1>1 DEF LogInv, Passive
<1>11. proposals' \in 1..MaxTransactions /\ candidate'.hash = proposals'
  BY <1>1 DEF LogInv, Passive
<1> QED BY <1>6, <1>7, <1>8, <1>9, <1>10, <1>11 DEF LogInv

------------------------------------------------------------------------------
(* The refinement, step by step.                                            *)

\* The created session implements the initial log.
LEMMA LogInit == ASSUME Init PROVE LogInv /\ Log!Init
<1>1. RecoveryInv /\ Holds(segments, 1, 1) /\ \A n, h : Logged(segments, n, h) => n = 1 /\ h = 1
  BY RecoveryInit
<1>2. Journals(segments) /\ Bounded(segments)
  BY TypeInit DEF TypeOK, FilesInv, Journals
<1>3. Journal(segments)
  BY <1>1, <1>2 DEF RecoveryInv, DiskInv, Journal, Holds
<1>4. acked = <<1>> /\ acked \in Seq(Nat) /\ Len(acked) = 1 /\ acked[1] = 1 /\ proposals = 1
      /\ candidate.hash = 1 /\ pc = "down" /\ snapshotCurrent = 1
  BY DEF Init, Transaction
<1>5. JournalHead(segments).seq = 1
  BY <1>1, <1>3, HeadAbove
<1>6. Logged(segments, 1, 1)
  BY <1>1, HeldLogged
<1>7. Covers(segments, acked)
  BY <1>1, <1>4, <1>5 DEF Covers
<1>8. LogInv
  <2>1. ~Committing /\ ~Proposing
    BY <1>4 DEF Committing, Proposing, Appending
  <2>2. Fresh(segments, acked, 1)
    BY <1>1, <1>4 DEF Fresh
  <2>4. MaxTransactions \in Nat \ {0}
    BY BoundsAssumption
  <2>3. 1 \in 1..MaxTransactions
    BY <2>4
  <2> QED BY <1>4, <1>7, <2>1, <2>2, <2>3 DEF LogInv
<1>9. RecoveredLog = acked
  <2> DEFINE log == RecoveredLog
  <2>1. log = LogOf(segments, acked)
    BY RecoveredLogDef
  <2> HIDE DEF log
  <2>2. /\ log \in Seq(Nat) /\ Len(log) = JournalHead(segments).seq
        /\ \A n, h : Logged(segments, n, h) => log[n] = h
    <3>1. acked \in Seq(Nat)
      BY <1>4
    <3> QED BY <1>3, <3>1, <1>7, <2>1, LogAt
  <2>3. log = acked
    BY <1>4, <1>5, <1>6, <2>2, SeqEqual
  <2> QED BY <2>3 DEF log
<1>10. Log!Init
  <2>2. MaxTransactions \in Nat \ {0}
    BY BoundsAssumption
  <2>1. 1 \in 1..MaxTransactions
    BY <2>2
  <2> QED BY <1>4, <1>9, <2>1 DEF Log!Init
<1> QED BY <1>8, <1>10

\* The write of a proposal implements Persist.
LEMMA RefineWrite == ASSUME Pre, LogInv, Write, Proposing PROVE LogInv' /\ LogStep
<1> DEFINE before == RecoveredLog  after == RecoveredLog'  top == JournalHead(segments).seq
<1>1. before = LogOf(segments, acked) /\ after = LogOf(segments', acked')
  BY RecoveredLogDef
<1> HIDE DEF before, after
<1>2. /\ pc = "write" /\ pc \in Appending /\ segments' = WithFrame(segments, current, writing)
      /\ writing.kind = "txn"
  BY DEF Write, Appending, WithFrame, Proposing
<1>3. /\ writing = candidate /\ writing.seq = top + 1 /\ writing.hash = proposals
  BY DEF Pre, RecoveryInv, SessionInv, ProposalInv, LogInv
<1>4. Passive
  BY PassiveStep DEF PassiveSteps
<1>5. Journal(segments) /\ Journal(segments') /\ RecoveryInv'
  BY JournalFacts, JournalNext DEF Next, Work
<1>6. ~Proposing' /\ Committing'
  <2>1. Terminal("segment sealed").kind = "segment sealed"
    BY DEF Terminal
  <2> QED BY <1>2, <2>1 DEF Write, Appended, Goto, Proposing, Committing, Appending
<1>7. JournalHead(segments').seq = top + 1
  <2>1. ProposalInv' /\ candidate' = candidate
    BY <1>4, <1>5 DEF RecoveryInv, SessionInv, Passive
  <2>2. JournalHead(segments)' = [seq |-> candidate.seq, hash |-> candidate.hash]
    BY <1>6, <2>1 DEF ProposalInv
  <2> QED BY <1>3, <2>2
<1>8. /\ Journals(segments) /\ Bounded(segments) /\ current \in DOMAIN segments /\ writing \in Frames
  BY <1>2, AppendingFacts
<1>9. /\ Entries(segments') = Entries(segments) \cup {End(segments, current)}
      /\ \A p \in Entries(segments) : FrameAt(segments', p) = FrameAt(segments, p)
      /\ FrameAt(segments', End(segments, current)) = writing
  BY <1>2, <1>8, AppendEntries
<1>10. /\ \A n, h : Logged(segments', n, h) <=> Logged(segments, n, h) \/ (n = writing.seq /\ h = writing.hash)
       /\ \A n, h : Holds(segments, n, h) => Holds(segments', n, h)
  BY <1>9 DEF Logged, Holds
<1>11. /\ acked \in Seq(Nat) /\ Len(acked) \in Nat /\ acked' = acked
       /\ proposals \in Nat /\ proposals \in 1..MaxTransactions /\ proposals' = proposals
       /\ Len(acked) < writing.seq
  <2>1. Committing
    BY <1>2 DEF Committing
  <2> QED BY <1>3, <1>4, <2>1, LenProperties DEF Pre, Base, TypeOK, Passive, LogInv
<1>12. top \in Nat
  BY <1>5, HeadAbove
<1> HIDE DEF top
<1>13. Covers(segments, acked) /\ Fresh(segments, acked, proposals - 1)
  BY DEF LogInv
<1>14. Covers(segments', acked')
  <2>1. ASSUME NEW n \in 1..(top + 1) PROVE n \in 1..Len(acked) \/ \E h : Logged(segments', n, h)
    <3>1. n = top + 1 \/ n \in 1..top
      BY <1>12
    <3>2. CASE n = top + 1
      BY <1>3, <1>10, <3>2
    <3>3. CASE n \in 1..top
      BY <1>10, <1>13, <3>3 DEF Covers, top
    <3> QED BY <3>1, <3>2, <3>3
  <2>2. \A n \in 1..Len(acked) : \A h : Logged(segments', n, h) => h = acked[n]
    <3>1. \A n \in 1..Len(acked) : n # writing.seq
      BY <1>3, <1>11, <1>12
    <3> QED BY <1>10, <1>13, <3>1 DEF Covers
  <2>3. Len(acked) > 0 /\ Holds(segments', Len(acked), acked[Len(acked)])
    BY <1>10, <1>13 DEF Covers
  <2> QED BY <1>7, <1>11, <2>1, <2>2, <2>3 DEF Covers
<1>15. Fresh(segments', acked', proposals')
  <2>1. \A n, h : Logged(segments', n, h) => h \in 1..proposals
    BY <1>3, <1>10, <1>11, <1>13 DEF Fresh
  <2>2. \A n \in 1..Len(acked) : acked[n] \in 1..proposals
    BY <1>11, <1>13 DEF Fresh
  <2> QED BY <1>11, <2>1, <2>2 DEF Fresh
<1>16. LogInv'
  BY <1>4, <1>6, <1>14, <1>15, <1>11, <1>2 DEF LogInv, Passive
<1>17. /\ before \in Seq(Nat) /\ Len(before) = top /\ Len(acked) \in 1..top
       /\ \A n \in 1..Len(acked) : before[n] = acked[n]
       /\ \A n \in 1..top : n \in 1..Len(acked) \/ Logged(segments, n, before[n])
  BY <1>1, <1>5, <1>11, <1>13, LogAt DEF top
<1>18. /\ after \in Seq(Nat) /\ Len(after) = JournalHead(segments').seq
       /\ \A n \in 1..Len(acked) : after[n] = acked[n]
       /\ \A n, h : Logged(segments', n, h) => after[n] = h
  <2>1. after = LogOf(segments', acked) /\ Covers(segments', acked)
    BY <1>1, <1>11, <1>14
  <2>2. Journal(segments') /\ acked \in Seq(Nat)
    BY <1>5, <1>11
  <2> HIDE DEF after
  <2> QED BY <2>1, <2>2, LogAt
<1>19. \A n \in 1..top : after[n] = before[n]
  BY <1>10, <1>17, <1>18
<1>20. after[top + 1] = proposals
  BY <1>3, <1>10, <1>18
<1>21. after = Append(before, proposals)
  <2> DEFINE more == Append(before, proposals)
  <2>1. more \in Seq(Nat) /\ Len(more) = top + 1 /\ more[top + 1] = proposals
        /\ \A n \in 1..top : more[n] = before[n]
    BY SMTT(60), <1>11, <1>12, <1>17, AppendProperties
  <2>5. Len(after) = top + 1
    BY <1>7, <1>18
  <2> HIDE DEF more
  <2>2. \A n \in 1..(top + 1) : n = top + 1 \/ n \in 1..top
    BY <1>12
  <2>3. \A n \in 1..(top + 1) : after[n] = more[n]
    BY <1>19, <1>20, <2>1, <2>2
  <2>4. after = more
    BY <1>18, <2>1, <2>3, <2>5, SeqEqual
  <2> QED BY <2>4 DEF more
<1>22. proposals \in (1..MaxTransactions) \ Log!Range(before)
  <2>1. \A n \in 1..top : before[n] \in 1..(proposals - 1)
    BY <1>13, <1>17 DEF Fresh
  <2>2. \A n \in DOMAIN before : before[n] # proposals
    <3>1. DOMAIN before = 1..top
      BY <1>17, LenProperties
    <3>2. proposals \notin 1..(proposals - 1)
      BY <1>11
    <3> QED BY <2>1, <3>1, <3>2
  <2> QED BY <1>11, <2>2 DEF Log!Range
<1>23. Log!Persist
  BY <1>11, <1>21, <1>22 DEF Log!Persist, before, after
<1> QED BY <1>16, <1>23 DEF LogStep, Log!Next

\* The reply implements Acknowledge.
LEMMA RefineReply == ASSUME Pre, LogInv, Reply PROVE LogInv' /\ LogStep
<1> DEFINE log == RecoveredLog  after == RecoveredLog'
<1>1. log = LogOf(segments, acked) /\ after = LogOf(segments', acked')
  BY RecoveredLogDef
<1>2. /\ pc = "reply" /\ acked' = log /\ segments' = segments
      /\ UNCHANGED <<candidate, proposals, snapshotCurrent>>
      /\ head' = [seq |-> candidate.seq, hash |-> candidate.hash]
      /\ pc' \in {"install", "idle"}
  BY DEF Reply, Goto, disk, bounds
<1> HIDE DEF log, after
<1>3. Committing /\ ~Proposing /\ ~Committing' /\ ~Proposing'
  BY <1>2 DEF Pre, RecoveryInv, SessionInv, ProposalInv, Committing, Proposing, Appending
<1>4. /\ JournalHead(segments) = [seq |-> candidate.seq, hash |-> candidate.hash]
      /\ Holds(segments, candidate.seq, candidate.hash)
  BY <1>2, <1>3 DEF Pre, RecoveryInv, SessionInv, ProposalInv
<1>5. Journal(segments) /\ candidate.seq \in Nat \ {0} /\ acked \in Seq(Nat)
  <2>1. Journal(segments)
    BY JournalFacts
  <2> QED BY <1>4, <2>1, HeadAbove DEF Pre, Base, TypeOK
<1>6. /\ log \in Seq(Nat) /\ Len(log) = candidate.seq
      /\ \A n \in 1..Len(acked) : log[n] = acked[n]
      /\ \A n, h : Logged(segments, n, h) => log[n] = h
      /\ \A n \in 1..Len(log) : n \in 1..Len(acked) \/ Logged(segments, n, log[n])
      /\ Len(acked) \in 1..Len(log)
  BY <1>1, <1>4, <1>5, LogAt DEF LogInv
<1>7. Covers(segments, log)
  <2>1. Logged(segments, candidate.seq, candidate.hash)
    BY <1>4, HeldLogged
  <2>2. log[candidate.seq] = candidate.hash
    BY <1>6, <2>1
  <2> QED BY <1>4, <1>5, <1>6, <2>2 DEF Covers
<1>8. after = log
  <2>1. after \in Seq(Nat) /\ Len(after) = Len(log) /\ \A n \in 1..Len(log) : after[n] = log[n]
    BY <1>1, <1>2, <1>4, <1>5, <1>6, <1>7, LogAt
  <2> QED BY <1>6, <2>1, SeqEqual
<1>9. Len(acked) < Len(log)
  BY <1>3, <1>6 DEF LogInv
<1>10. Log!Acknowledge
  BY <1>2, <1>8, <1>9 DEF Log!Acknowledge, log, after
<1>11. LogInv'
  <2>1. Fresh(segments, log, proposals)
    BY <1>3, <1>6 DEF LogInv, Fresh
  <2>2. snapshotCurrent \in Nat /\ Len(acked) \in Nat
    BY <1>5, LenProperties DEF Pre, Base, TypeOK
  <2>3. snapshotCurrent <= Len(log)
    BY <1>5, <1>6, <2>2, <1>9 DEF LogInv
  <2>4. head'.seq <= Len(log)
    BY <1>2, <1>5, <1>6
  <2> QED BY <1>2, <1>3, <1>7, <2>1, <2>3, <2>4 DEF LogInv
<1> QED BY <1>10, <1>11 DEF LogStep, Log!Next

\* A proposal is ahead of the acknowledged log and has a hash of its own.
LEMMA ProposedLog ==
    ASSUME Pre, LogInv, NEW who \in {"recovery", "commit"}, NEW point \in Points, Propose(who, point),
           ~Proposing, Covers(segments', acked'), acked' = acked, Shrunk(segments, segments', 0),
           point.seq >= Len(acked), snapshotCurrent' = snapshotCurrent,
           who = "commit" => head'.seq <= Len(acked)
    PROVE  LogInv'
<1>1. /\ candidate' = Transaction(point.seq + 1, proposals + 1, point.hash)
      /\ writing' = candidate' /\ flow' = who /\ pc' = "write" /\ proposals' = proposals + 1
      /\ proposals < MaxTransactions
  BY Proposed DEF Pre, Base, Flows, Propose
<1>2. candidate'.seq = point.seq + 1 /\ candidate'.hash = proposals' /\ writing'.kind = "txn"
  BY <1>1 DEF Transaction
<1>3. Proposing' /\ Committing'
  BY <1>1, <1>2 DEF Proposing, Committing, Appending
<1>4. point.seq \in Nat /\ Len(acked) \in Nat /\ proposals \in Nat
  BY LenProperties DEF Points, Pre, Base, TypeOK
<1>5. MaxTransactions \in Nat \ {0}
  BY BoundsAssumption
<1>6. Len(acked') < candidate'.seq
  BY <1>2, <1>4
<1>7. proposals' \in 1..MaxTransactions
  BY <1>1, <1>4, <1>5
<1>8. Fresh(segments', acked', proposals' - 1)
  <2>1. Fresh(segments, acked, proposals)
    BY DEF LogInv
  <2>2. proposals' - 1 = proposals
    BY <1>1, <1>4
  <2> QED BY <2>1, <2>2, FreshShrunk
<1> QED BY <1>1, <1>2, <1>3, <1>6, <1>7, <1>8 DEF LogInv

\* Opening implements Lose or a stutter.
LEMMA RefineOpen == ASSUME Pre, LogInv, Open PROVE LogInv' /\ LogStep
<1>1. Journal(segments) /\ Journal(segments')
  BY JournalFacts, JournalNext DEF Next
<1>2. /\ pc = "down" /\ acked' = acked /\ snapshotCurrent' = snapshotCurrent
      /\ head' = JournalHead(segments) /\ Propose("recovery", JournalHead(segments))
  BY DEF Open
<1>3. Shrunk(segments, segments', 0)
  BY OpenedJournal
<1>4. acked \in Seq(Nat) /\ Len(acked) \in Nat
  BY LenProperties DEF Pre, Base, TypeOK
<1>5. 0 \in Nat /\ 0 <= Len(acked)
  BY <1>4
<1>6. Covers(segments', acked') /\ LogStep
  BY <1>1, <1>2, <1>3, <1>4, <1>5, ShrinkStep DEF LogInv
<1>7. JournalHead(segments) \in Points
  BY <1>1, HeadTyped DEF Journal
<1>8. JournalHead(segments).seq >= Len(acked)
  <2>1. Len(acked) \in 1..JournalHead(segments).seq
    BY <1>1, <1>4, LogAt DEF LogInv
  <2> QED BY <2>1
<1>9. ~Proposing
  BY <1>2 DEF Proposing
<1> QED BY <1>2, <1>3, <1>6, <1>7, <1>8, <1>9, ProposedLog

\* Submitting is a stutter of the log.
LEMMA RefineSubmit == ASSUME Pre, LogInv, Submit PROVE LogInv' /\ LogStep
<1>1. Journal(segments)
  BY JournalFacts
<1>2. /\ pc = "idle" /\ availability = "available" /\ acked' = acked /\ segments' = segments
      /\ snapshotCurrent' = snapshotCurrent /\ head' = head /\ Propose("commit", head)
  BY DEF Submit, disk
<1>3. ~Committing /\ ~Proposing
  BY <1>2 DEF Committing, Proposing, Appending
<1>4. head = JournalHead(segments) /\ head.seq <= Len(acked)
  BY <1>2, <1>3 DEF Pre, RecoveryInv, SessionInv, HeadInv, LogInv
<1>5. acked \in Seq(Nat)
  BY DEF Pre, Base, TypeOK
<1>6. head \in Points
  BY DEF Pre, Base, TypeOK
<1>7. head.seq >= Len(acked)
  <2>1. Len(acked) \in 1..JournalHead(segments).seq
    BY <1>1, <1>5, LogAt DEF LogInv
  <2> QED BY <1>4, <2>1
<1>8. Shrunk(segments, segments', 0)
  <2>1. JournalHead(segments).seq \in Nat
    BY <1>1, HeadAbove
  <2> QED BY <1>2, <2>1 DEF Shrunk
<1>9. Covers(segments', acked')
  BY <1>2 DEF LogInv
<1>10. LogInv'
  BY <1>2, <1>3, <1>4, <1>6, <1>7, <1>8, <1>9, ProposedLog
<1>11. RecoveredLog' = RecoveredLog
  BY <1>2, RecoveredLogDef
<1> QED BY <1>2, <1>10, <1>11 DEF LogStep

\* Every step of the store is a step of the log.
LEMMA LogNext == Pre /\ LogInv /\ [Next]_vars => LogInv' /\ LogStep
<1> SUFFICES ASSUME Pre, LogInv, [Next]_vars PROVE LogInv' /\ LogStep
  OBVIOUS
<1>1. CASE UNCHANGED vars
  <2>1. UNCHANGED <<segments, snapshotCurrent, pc, flow, candidate, writing, head, acked, proposals>>
    BY <1>1 DEF vars, disk, memory, bounds
  <2>2. LogInv'
    BY <2>1 DEF LogInv, Proposing, Committing
  <2>3. RecoveredLog' = RecoveredLog
    BY <2>1, RecoveredLogDef
  <2> QED BY <2>1, <2>2, <2>3 DEF LogStep
<1>2. CASE PassiveSteps
  <2>1. CASE Write /\ Proposing
    BY <2>1, RefineWrite
  <2>2. CASE ~(Write /\ Proposing)
    BY <1>2, <2>2, RefinePassive
  <2> QED BY <2>1, <2>2
<1> QED BY <1>1, <1>2, RefineOpen, RefineSubmit, RefineReply DEF Next, Work, PassiveSteps

\* The store implements the abstract log: acknowledged transactions survive crashes,
\* errors, retention and reopening, for every value of the constants.
THEOREM LogImplemented == ASSUME Tolerated PROVE Spec => ImplementsDurableLog
<1> DEFINE IInv == Base /\ RecoveryInv /\ LogInv
<1>1. Init => IInv /\ Log!Init
  BY BaseInit, RecoveryInit, LogInit
<1>2. IInv /\ [Next]_vars => IInv' /\ LogStep
  BY BaseStep, RecoveryNext, LogNext DEF Pre
<1>3. LogStep => [Log!Next]_<<RecoveredLog, acked>>
  BY DEF LogStep
<1> HIDE DEF IInv
<1> QED BY <1>1, <1>2, <1>3, PTL DEF Spec, ImplementsDurableLog, Log!Spec, Log!logVars
=============================================================================
