---------------------------- MODULE SessionStore ----------------------------
(***************************************************************************)
(* The durable store of one session while a daemon opens, commits to,      *)
(* checkpoints, closes and loses it.  The session actor and its commit     *)
(* writer take turns (a commit waits for its reply, a checkpoint runs in   *)
(* the actor), so one program counter carries both; every file operation   *)
(* is a step of its own and a crash may fall between any two.              *)
(*                                                                         *)
(*   flow       who uses the store: the recovery that opens the session,   *)
(*              a commit, or the checkpoint of a close                     *)
(*   candidate  the transaction being committed                            *)
(*   writing    the frame Journal.append or Journal.rotate appends         *)
(*   head       the actor's committed state and the writer's chain head    *)
(*   current, frames   Journal.t's current segment and current_frames      *)
(*   spared     files of the running retention pass whose removal failed   *)
(*                                                                         *)
(* acked, proposals, crashes and faults are history and bounds, not state  *)
(* of the program.                                                         *)
(***************************************************************************)
EXTENDS StoreDisk, SequencesExt

CONSTANTS
    MaxSegmentFrames,   \* max_segment_frames (the byte limit acts alike)
    Keep,               \* checkpoints a retention pass preserves (2 in the code)
    Durability,         \* "flush" or "buffered" transaction appends
    MaxTransactions,    \* bound: transactions ever proposed
    MaxCrashes,         \* bound: crashes of the process or of its host
    MaxFaults,          \* bound: file operations that return an error
    HostCrashes,        \* may a crash lose what no fsync covers?
    Faulty              \* the operations whose file operations may fail

ASSUME LimitsAssumption ==
    /\ MaxSegmentFrames \in Nat \ {0}
    /\ Keep \in Nat \ {0}
    /\ Durability \in {"flush", "buffered"}

ASSUME BoundsAssumption ==
    /\ MaxTransactions \in Nat \ {0} /\ MaxCrashes \in Nat /\ MaxFaults \in Nat
    /\ HostCrashes \in BOOLEAN
    /\ Faulty \subseteq 
        {"append", "boundary", "directory sync", "checkpoint", "segment removal"}

VARIABLES
    segments, journalCurrent,       \* journal/*.log and journal/CURRENT
    snapshots, snapshotCurrent,     \* snapshot/*.bin and snapshot/CURRENT
    pc, flow, candidate, writing, head, current, frames, spared, availability,
    acked, proposals, crashes, faults

disk == <<segments, journalCurrent, snapshots, snapshotCurrent>>
memory == <<flow, candidate, writing, head, current, frames, spared, availability>>
bounds == <<proposals, crashes, faults>>
vars == <<disk, pc, memory, acked, bounds>>

Flows == {"recovery", "commit", "close"}

Steps == {"down", "idle", "write", "flush", "create", "switch", "reply",
          "install", "pointer", "preflight", "prune snapshots", "prune segments"}

Points == [seq: Nat, hash: Nat]

-----------------------------------------------------------------------------
(* A created session: its staging directory, journal, first transaction    *)
(* and first checkpoint were complete before a rename published it.        *)

Synced(frame) == [frame EXCEPT !.synced = TRUE]

FirstFrames ==
    IF MaxSegmentFrames = 1
    THEN << <<Synced(Transaction(1, 1, NoHash)), Synced(Terminal("segment sealed"))>>,
            << >> >>
    ELSE << <<Synced(Transaction(1, 1, NoHash))>> >>

Init ==
    /\ segments = FirstFrames
    /\ journalCurrent = IF MaxSegmentFrames = 1 THEN 2 ELSE 1
    /\ snapshots = [n \in {1} |-> [hash |-> 1, complete |-> TRUE]]
    /\ snapshotCurrent = 1
    /\ pc = "down" /\ flow = "close"
    /\ candidate = Transaction(1, 1, NoHash) /\ writing = candidate
    /\ head = [seq |-> 1, hash |-> 1]
    /\ current = journalCurrent /\ frames = 0 /\ spared = {}
    /\ availability = "unavailable"
    /\ acked = <<1>> /\ proposals = 1 /\ crashes = 0 /\ faults = 0

-----------------------------------------------------------------------------
(* Opening and proposing. *)

Propose(who, point) ==
    /\ proposals < MaxTransactions
    /\ proposals' = proposals + 1
    /\ candidate' = Transaction(point.seq + 1, proposals + 1, point.hash)
    /\ writing' = candidate'
    /\ flow' = who
    /\ pc' = "write"

\* Recovery.load, whose last effect truncates an incomplete tail, then the
\* recovery boundary every open commits.
Open ==
    /\ pc = "down"
    /\ Accepts(segments, journalCurrent, snapshots, snapshotCurrent)
    /\ segments' = IF CrashTail(segments[journalCurrent])
                   THEN [segments EXCEPT ![journalCurrent] = Sync(ValidPrefix(@))]
                   ELSE segments
    /\ current' = journalCurrent
    /\ frames' = Len(segments'[journalCurrent])
    /\ head' = JournalHead(segments)
    /\ availability' = "available"
    /\ Propose("recovery", head')
    /\ UNCHANGED <<journalCurrent, snapshots, snapshotCurrent, spared, acked, crashes,
                   faults>>

Submit ==
    /\ pc = "idle"
    /\ availability = "available"
    /\ Propose("commit", head)
    /\ UNCHANGED <<disk, head, current, frames, spared, availability, acked, crashes,
                   faults>>

-----------------------------------------------------------------------------
(* Journal.append and Journal.rotate. *)

Goto(step) == pc' = step /\ UNCHANGED <<flow, candidate>>

\* append_frame has returned: count the frame, then rotate, create or reply.
Appended ==
    /\ frames' = frames + 1
    /\ \/ /\ writing.kind = "txn"
          /\ frames' < MaxSegmentFrames
          /\ Goto("reply") /\ UNCHANGED writing
       \/ /\ writing.kind = "txn"
          /\ frames' >= MaxSegmentFrames
          /\ Goto("write") /\ writing' = Terminal("segment sealed")
       \/ /\ writing.kind \in Seals
          /\ Goto("create") /\ UNCHANGED writing

Write ==
    /\ pc = "write"
    /\ segments' = [segments EXCEPT ![current] = Append(@, writing)]
    /\ IF Durability = "buffered" /\ writing.kind = "txn"
       THEN Appended
       ELSE Goto("flush") /\ UNCHANGED <<writing, frames>>
    /\ UNCHANGED <<journalCurrent, snapshots, snapshotCurrent, head, current,
                   spared, availability, acked, bounds>>

Flush ==
    /\ pc = "flush"
    /\ segments' = [segments EXCEPT ![current] = Sync(@)]
    /\ Appended
    /\ UNCHANGED <<journalCurrent, snapshots, snapshotCurrent, head, current,
                   spared, availability, acked, bounds>>

\* A retention pass ends, done or failed: install_snapshot and close_entry of
\* session_factory.ml ignore its result.
EndCheckpoint == Goto(IF flow = "close" THEN "down" ELSE "idle")

\* Mutant: the writer stays available after a failed append.
AppendFailedAvailable ==
    /\ UNCHANGED availability
    /\ Goto(IF flow = "close" THEN "down" ELSE "idle")

\* What a failed append or rotation does to its caller.
AppendFailed ==
    IF writing.kind = "checkpoint boundary"
    THEN EndCheckpoint /\ UNCHANGED availability
    ELSE /\ availability' = "unavailable"
         /\ Goto(IF flow = "recovery" THEN "down" ELSE "idle")

\* create_exclusive: an existing file is kept and is an error.
Created == CreateFile(segments, current + 1, << >>)

Create ==
    /\ pc = "create"
    /\ segments' = Created
    /\ IF Created = segments
       THEN AppendFailed
       ELSE /\ Goto("switch") /\ UNCHANGED availability
    /\ UNCHANGED <<journalCurrent, snapshots, snapshotCurrent, writing, head,
                   current, frames, spared, acked, bounds>>

\* Mutant: a full segment's frames are subtracted instead of reset.
SwitchSubtracting ==
    /\ pc = "switch"
    /\ journalCurrent' = current + 1
    /\ current' = current + 1
    /\ frames' = frames - MaxSegmentFrames - 1
    /\ IF writing.kind = "checkpoint boundary" THEN EndCheckpoint ELSE Goto("reply")
    /\ UNCHANGED <<segments, snapshots, snapshotCurrent, writing, head,
                   spared, availability, acked, bounds>>

Switch ==
    /\ pc = "switch"
    /\ journalCurrent' = current + 1
    /\ current' = current + 1
    /\ frames' = 0
    /\ IF writing.kind = "checkpoint boundary" THEN EndCheckpoint ELSE Goto("reply")
    /\ UNCHANGED <<segments, snapshots, snapshotCurrent, writing, head,
                   spared, availability, acked, bounds>>

\* The log recovery would rebuild: retained transactions, and before them
\* the acknowledged ones a checkpoint covers; NoHash stands for a gap.
RecoveredLog ==
    [n \in 1..JournalHead(segments).seq |->
        LET frame == {t \in Retained(segments) : t.seq = n}
        IN  CASE frame # {} -> (CHOOSE t \in frame : TRUE).hash
              [] frame = {} /\ n \in DOMAIN acked -> acked[n]
              [] OTHER -> NoHash]

\* Mutant: the reply leaves the chain head behind.
ReplyKeepingHead ==
    /\ pc = "reply"
    /\ acked' = RecoveredLog
    /\ \/ Goto("install")
       \/ flow = "commit" /\ Goto("idle")
    /\ UNCHANGED <<disk, head, writing, current, frames, spared, availability, bounds>>

\* The writer resolves Ok, the actor installs the state; a commit then takes
\* a checkpoint when one is due, a recovery always.
Reply ==
    /\ pc = "reply"
    /\ head' = [seq |-> candidate.seq, hash |-> candidate.hash]
    /\ acked' = RecoveredLog
    /\ \/ Goto("install")
       \/ flow = "commit" /\ Goto("idle")
    /\ UNCHANGED <<disk, writing, current, frames, spared, availability, bounds>>

-----------------------------------------------------------------------------
(* Checkpoint and retention. *)

\* close_entry checkpoints the committed state once the runtime has stopped.
Close ==
    /\ pc = "idle"
    /\ flow' = "close"
    /\ pc' = "install"
    /\ UNCHANGED <<disk, candidate, writing, head, current, frames, spared,
                   availability, acked, bounds>>

\* Mutant: a failed installation is tried again.
InstallRetried == Goto("install")

\* Mutant: a failed installation is ignored.
InstallIgnored == Goto("pointer")

\* Without an installed checkpoint there is no retention pass; the actor goes on
\* after a commit, an open or a close is over.
InstallFailed == Goto(IF flow = "commit" THEN "idle" ELSE "down")

Checkpoint == [hash |-> head.hash, complete |-> TRUE]

\* write_exclusive never overwrites a file.
Written == CreateFile(snapshots, head.seq, Checkpoint)

\* A same-sequence file is reused only when it holds the exact bytes.
Install ==
    /\ pc = "install"
    /\ snapshots' = Written
    /\ IF Written[head.seq] = Checkpoint THEN Goto("pointer") ELSE InstallFailed
    /\ UNCHANGED <<segments, journalCurrent, snapshotCurrent, writing, head,
                   current, frames, spared, availability, acked, bounds>>

Pointer ==
    /\ pc = "pointer"
    /\ snapshotCurrent' = head.seq
    /\ Goto("preflight")
    /\ UNCHANGED <<segments, journalCurrent, snapshots, writing, head, current,
                   frames, spared, availability, acked, bounds>>

\* Mutant: retention counts unreadable checkpoint files.
MayPruneIncomplete ==
    /\ Accepts(segments, current, snapshots, snapshotCurrent)
    /\ snapshotCurrent \in Newest(DOMAIN snapshots, Keep)

\* Retention_preflight.check, and the refusals of prune_older_with_floor.
MayPrune ==
    /\ Accepts(segments, current, snapshots, snapshotCurrent)
    /\ CompleteSnapshots(snapshots) = DOMAIN snapshots
    /\ snapshotCurrent \in Newest(DOMAIN snapshots, Keep)

Preflight ==
    /\ pc = "preflight"
    /\ spared' = {}
    /\ IF MayPrune THEN Goto("prune snapshots") ELSE EndCheckpoint
    /\ UNCHANGED <<disk, writing, head, current, frames, availability, acked, bounds>>

\* Mutant: the oldest files are kept, as if sorted the other way.
OlderAscending ==
    {n \in DOMAIN snapshots : Cardinality({m \in DOMAIN snapshots : m < n}) >= Keep}

Older == DOMAIN snapshots \ Newest(DOMAIN snapshots, Keep)

\* Filenames are sorted newest first: the newest removable file goes first, and
\* one that cannot be removed does not keep the others from going.
PruneSnapshots ==
    /\ pc = "prune snapshots"
    /\ \/ \E n \in Older \ spared :
             /\ \A m \in Older \ spared : m <= n
             /\ snapshots' = [m \in DOMAIN snapshots \ {n} |-> snapshots[m]]
             /\ Goto("prune snapshots")
       \/ /\ Older \subseteq spared
          /\ IF spared = {} THEN Goto("prune segments") ELSE EndCheckpoint
          /\ UNCHANGED snapshots
    /\ UNCHANGED <<segments, journalCurrent, snapshotCurrent, writing, head,
                   current, frames, spared, availability, acked, bounds>>

Floor == CHOOSE n \in DOMAIN snapshots : \A m \in DOMAIN snapshots : n <= m

\* Mutant: the anchor's own segment is reclaimed with the covered ones.
ReclaimableAnchor ==
    {s \in DOMAIN segments :
        s # current /\ \A a \in AnchorSegments(segments, Floor) : s <= a}

Reclaimable ==
    {s \in DOMAIN segments :
        s # current /\ \A a \in AnchorSegments(segments, Floor) : s < a}

MayReclaim ==
    /\ \A s \in DOMAIN segments : ~CrashTail(segments[s])
    /\ AnchorSegments(segments, Floor) # {}

\* prune_before_transaction in ascending order: every removal is tried, whatever
\* became of the ones before it.  Then seal_checkpoint.
PruneSegments ==
    /\ pc = "prune segments"
    /\ \/ /\ ~MayReclaim
          /\ EndCheckpoint /\ UNCHANGED <<segments, writing>>
       \/ /\ MayReclaim
          /\ \E s \in Reclaimable \ spared :
                /\ \A t \in Reclaimable \ spared : s <= t
                /\ segments' = [t \in DOMAIN segments \ {s} |-> segments[t]]
          /\ Goto("prune segments") /\ UNCHANGED writing
       \/ /\ MayReclaim /\ Reclaimable \subseteq spared
          /\ IF spared = {} /\ frames # 0
             THEN Goto("write") /\ writing' = Terminal("checkpoint boundary")
             ELSE EndCheckpoint /\ UNCHANGED writing
          /\ UNCHANGED segments
    /\ UNCHANGED <<journalCurrent, snapshots, snapshotCurrent, head, current,
                   frames, spared, availability, acked, bounds>>

-----------------------------------------------------------------------------
(* Errors and crashes. *)

TornAppend == [segments EXCEPT ![current] = Append(@, Torn)]

TornSnapshot ==
    CreateFile(snapshots, head.seq, [hash |-> NoHash, complete |-> FALSE])

\* A file operation returns an error, with or without its effect.
AppendFault ==
    /\ IF writing.kind = "checkpoint boundary" THEN "boundary" \in Faulty
                                              ELSE "append" \in Faulty
    /\ \/ pc = "write" /\ segments' \in {segments, TornAppend}
          /\ UNCHANGED journalCurrent
       \/ pc = "flush" /\ UNCHANGED <<segments, journalCurrent>>
       \/ pc = "create" /\ segments' \in {segments, Created}
          /\ UNCHANGED journalCurrent
       \/ pc = "switch" /\ UNCHANGED segments
          /\ \/ UNCHANGED journalCurrent
             \/ "directory sync" \in Faulty /\ journalCurrent' = current + 1
    /\ AppendFailed
    /\ UNCHANGED <<snapshots, snapshotCurrent>>

\* Of a retention pass this is its reads, before it removes anything, and the
\* directory sync behind the removals; a failing removal does not end it.
CheckpointFault ==
    /\ "checkpoint" \in Faulty
    /\ \/ pc = "install" /\ snapshots' \in {snapshots, TornSnapshot, Written}
          /\ InstallFailed /\ UNCHANGED snapshotCurrent
       \/ pc = "pointer" /\ snapshotCurrent' \in {snapshotCurrent, head.seq}
          /\ InstallFailed /\ UNCHANGED snapshots
       \/ /\ \/ pc = "preflight"
             \/ pc = "prune snapshots" /\ Older \subseteq spared
             \/ pc = "prune segments" /\ Reclaimable \subseteq spared
          /\ EndCheckpoint /\ UNCHANGED <<snapshots, snapshotCurrent>>
    /\ UNCHANGED <<segments, journalCurrent, availability>>

\* The next file of the pass cannot be removed; the pass goes on to the others.
RemovalFault ==
    /\ \/ /\ pc = "prune snapshots" /\ "checkpoint" \in Faulty
          /\ \E n \in Older \ spared :
                (\A m \in Older \ spared : m <= n) /\ spared' = spared \cup {n}
       \/ /\ pc = "prune segments" /\ "segment removal" \in Faulty /\ MayReclaim
          /\ \E s \in Reclaimable \ spared :
                (\A t \in Reclaimable \ spared : s <= t) /\ spared' = spared \cup {s}
    /\ UNCHANGED <<disk, pc, flow, candidate, availability>>

Fault ==
    /\ faults < MaxFaults
    /\ faults' = faults + 1
    /\ \/ (AppendFault \/ CheckpointFault) /\ UNCHANGED spared
       \/ RemovalFault
    /\ UNCHANGED <<writing, head, current, frames, acked, proposals, crashes>>

Crash ==
    /\ pc # "down" /\ crashes < MaxCrashes
    /\ crashes' = crashes + 1
    /\ pc' = "down"
    /\ segments' \in {segments} \cup (IF pc = "write" THEN {TornAppend} ELSE {})
    /\ snapshots' \in {snapshots} \cup (IF pc = "install" THEN {TornSnapshot} ELSE {})
    /\ UNCHANGED <<journalCurrent, snapshotCurrent, memory, acked, proposals, faults>>

\* A power loss also drops an unsynced end of a segment, perhaps mid-frame.
HostCrash ==
    /\ HostCrashes /\ crashes < MaxCrashes
    /\ crashes' = crashes + 1
    /\ pc' = "down"
    /\ \E s \in DOMAIN segments : \E k \in 0..(Len(segments[s]) - 1) :
          /\ \A i \in (k + 1)..Len(segments[s]) : ~segments[s][i].synced
          /\ \E end \in {<< >>, <<Torn>>} :
                segments' = [segments EXCEPT ![s] = SubSeq(@, 1, k) \o end]
    /\ UNCHANGED <<journalCurrent, snapshots, snapshotCurrent, memory, acked,
                   proposals, faults>>

-----------------------------------------------------------------------------
(* Scheduling. *)

Work ==
    \/ Write \/ Flush \/ Create \/ Switch \/ Reply
    \/ Install \/ Pointer \/ Preflight \/ PruneSnapshots \/ PruneSegments

Next == Open \/ Submit \/ Close \/ Work \/ Fault \/ Crash \/ HostCrash

Spec == Init /\ [][Next]_vars

\* The actor and the writer are fibers of a live process: neither stops
\* between two file operations.
FairSpec == Spec /\ WF_vars(Work)

-----------------------------------------------------------------------------
(* Properties. *)

\* Every file and every field of the loaded session has its type.
TypeOK ==
    /\ DOMAIN segments \in SUBSET Nat
    /\ \A s \in DOMAIN segments : segments[s] \in Seq(Frames)
    /\ DOMAIN snapshots \in SUBSET Nat
    /\ \A n \in DOMAIN snapshots : snapshots[n] \in [hash: Nat, complete: BOOLEAN]
    /\ journalCurrent \in Nat /\ snapshotCurrent \in Nat
    /\ pc \in Steps /\ flow \in Flows
    /\ candidate \in Frames /\ writing \in Frames
    /\ head \in Points /\ current \in Nat /\ frames \in Nat
    /\ spared \in SUBSET Nat
    /\ availability \in {"available", "unavailable"}
    /\ acked \in Seq(Nat)
    /\ proposals \in Nat /\ crashes \in Nat /\ faults \in Nat

\* Whatever step a crash interrupts, Recovery.prepare accepts the files it
\* leaves: sealed segments whole, one unbroken chain, every complete
\* checkpoint anchored in the retained journal.
RecoveryAccepts ==
    Accepts(segments, journalCurrent, snapshots, snapshotCurrent)

\* An available writer chains its next transaction to the last one recovery
\* would find: an append that failed after its bytes were written must have
\* made the writer unavailable.
WriterFollowsJournal ==
    pc \in {"idle", "install", "pointer", "preflight"} /\ availability = "available"
        => head = JournalHead(segments)

\* snapshot/CURRENT always names a complete checkpoint: it moves only after the
\* file is whole, and retention never removes the file it names.
PointerUsable == snapshotCurrent \in CompleteSnapshots(snapshots)

Least(a, b) == IF a < b THEN a ELSE b

\* Retention leaves Keep usable checkpoints whenever it found that many, so an
\* unreadable newest one always has a fallback.
RetentionKeepsFallback ==
    [][Cardinality(CompleteSnapshots(snapshots'))
         >= Least(Keep, Cardinality(CompleteSnapshots(snapshots)))]_vars

\* Acknowledged transactions survive crashes, retention and reopening: the log
\* recovery rebuilds changes only as the abstract log may.
Log == INSTANCE DurableLog WITH log <- RecoveredLog, Hash <- 1..MaxTransactions

ImplementsDurableLog == Log!Spec

\* A step of the abstract log, or none.
LogStep == Log!Next \/ UNCHANGED <<RecoveredLog, acked>>

\* Every operation on a loaded session ends: a commit is answered, a retention
\* pass runs out of files, an open or a close is over.
Settles == []<>(pc \in {"idle", "down"})

-----------------------------------------------------------------------------
(* What the documents say and the code does not do. *)

\* The crash matrix of the implementation specification: after a crash anywhere
\* the session restarts.  An open is given up only for a new crash or error.
RestartCompletes ==
    [][flow = "recovery" /\ pc # "down" /\ pc' = "down"
         => crashes' # crashes \/ faults' # faults]_vars

\* The failure table of the design: a journal failure stops durable mutations,
\* so nothing is ever appended behind an incomplete frame.
NothingBehindIncompleteFrame == \A s \in DOMAIN segments : WellFormed(segments[s])

\* The contract of Journal.scan: only the current segment may end in an
\* incomplete frame.
OnlyCurrentIncomplete ==
    \A s \in DOMAIN segments : CrashTail(segments[s]) => s = journalCurrent

\* Step 12.4 of the implementation specification resolves a commit before it
\* rotates: a caller never hears an error for a transaction that is durable.
ErrorMeansNotDurable ==
    [][flow = "commit" /\ availability = "available" /\ availability' = "unavailable"
         => \A t \in Retained(segments') : t.synced => t.hash # candidate.hash]_vars
=============================================================================
