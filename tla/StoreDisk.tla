------------------------------ MODULE StoreDisk ------------------------------
(***************************************************************************)
(* What one session keeps on disk and how the store reads it back: a       *)
(* segmented journal named by journal/CURRENT and a set of snapshot files  *)
(* named by snapshot/CURRENT.  The module has no state; SessionStore moves  *)
(* the files and uses these operators to read them.                        *)
(*                                                                         *)
(* A frame stands for its bytes: a transaction keeps its sequence, its hash*)
(* and its predecessor's hash, a terminal frame its reason, and a frame    *)
(* whose bytes end early is "torn".  synced says whether an fsync covers   *)
(* it.  The payload, the checksum and the event and revision counters are  *)
(* left out: they move with the sequence.                                  *)
(***************************************************************************)
EXTENDS Integers, FiniteSets, Sequences

NoHash == 0
NoPointer == 0

Seals == {"segment sealed", "checkpoint boundary"}
FrameKinds == {"txn", "torn"} \cup Seals

Frames == [kind: FrameKinds, seq: Nat, hash: Nat, prev: Nat, synced: BOOLEAN]

Transaction(n, h, p) ==
    [kind |-> "txn", seq |-> n, hash |-> h, prev |-> p, synced |-> FALSE]

Terminal(reason) ==
    [kind |-> reason, seq |-> 0, hash |-> NoHash, prev |-> NoHash, synced |-> FALSE]

Torn ==
    [kind |-> "torn", seq |-> 0, hash |-> NoHash, prev |-> NoHash, synced |-> FALSE]

\* Mutant: the append returns without its fsync.
SyncSkipped(segment) == segment

Sync(segment) == [i \in DOMAIN segment |-> [segment[i] EXCEPT !.synced = TRUE]]

\* An exclusive create: a file that exists is left as it is.
CreateFile(files, name, contents) ==
    [n \in DOMAIN files \cup {name} |->
        IF n \in DOMAIN files THEN files[n] ELSE contents]

-----------------------------------------------------------------------------
(* Journal_segment.scan and Journal.scan. *)

CrashTail(segment) ==
    /\ segment # << >>
    /\ segment[Len(segment)].kind = "torn"

\* Mutant: the tail is found but not cut off.
TailKept(segment) == segment

\* Mutant: the cut is one frame too short.
TailCutEarly(segment) ==
    IF CrashTail(segment) /\ Len(segment) > 2
    THEN SubSeq(segment, 1, Len(segment) - 2)
    ELSE segment

\* The frames before an incomplete last one: valid_length and its entries.
ValidPrefix(segment) ==
    IF CrashTail(segment) THEN SubSeq(segment, 1, Len(segment) - 1) ELSE segment

WellFormed(segment) == \A i \in 1..(Len(segment) - 1) : segment[i].kind # "torn"

Positions(segments) ==
    UNION {{s} \X DOMAIN segments[s] : s \in DOMAIN segments}

FrameAt(segments, p) == segments[p[1]][p[2]]

Before(p, q) == p[1] < q[1] \/ (p[1] = q[1] /\ p[2] < q[2])

Entries(segments) ==
    {p \in Positions(segments) : FrameAt(segments, p).kind = "txn"}

Retained(segments) == {FrameAt(segments, p) : p \in Entries(segments)}

\* No error: sealed segments are whole, only the named one may end torn.
Scannable(segments, named) ==
    /\ named \in DOMAIN segments
    /\ \A s \in DOMAIN segments :
          /\ WellFormed(segments[s])
          /\ CrashTail(segments[s]) => s = named

-----------------------------------------------------------------------------
(* Recovery: the hash chain, the anchors and the recovered head. *)

Adjacent(segments, p, q) ==
    /\ Before(p, q)
    /\ \A r \in Entries(segments) : ~(Before(p, r) /\ Before(r, q))

Chained(segments) ==
    \A p, q \in Entries(segments) :
        Adjacent(segments, p, q) =>
            /\ FrameAt(segments, q).seq = FrameAt(segments, p).seq + 1
            /\ FrameAt(segments, q).prev = FrameAt(segments, p).hash

CompleteSnapshots(snapshots) == {n \in DOMAIN snapshots : snapshots[n].complete}

Anchored(n, snapshots, segments) ==
    \E t \in Retained(segments) : t.seq = n /\ t.hash = snapshots[n].hash

\* Recovery.prepare accepts the files.
Accepts(segments, named, snapshots, pointer) ==
    /\ Scannable(segments, named)
    /\ Chained(segments)
    /\ pointer # NoPointer
    /\ CompleteSnapshots(snapshots) # {}
    /\ \A n \in CompleteSnapshots(snapshots) : Anchored(n, snapshots, segments)

\* The newest transaction a scan finds: the head every checkpoint recovers.
JournalHead(segments) ==
    LET last == CHOOSE p \in Entries(segments) :
                   \A q \in Entries(segments) : q = p \/ Before(q, p)
    IN  [seq |-> FrameAt(segments, last).seq, hash |-> FrameAt(segments, last).hash]

-----------------------------------------------------------------------------
(* Retention: the newest checkpoints and the segments no anchor needs. *)

Newest(files, keep) ==
    {n \in files : Cardinality({m \in files : m > n}) < keep}

AnchorSegments(segments, n) ==
    {p[1] : p \in {q \in Entries(segments) : FrameAt(segments, q).seq = n}}
=============================================================================
