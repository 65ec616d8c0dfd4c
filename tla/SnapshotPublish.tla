-------------------------- MODULE SnapshotPublish --------------------------
(***************************************************************************)
(* publishSnapshot (website/scripts/snapshot.mjs): processes that generate  *)
(* the website's content stage it in a directory of their own and swap it   *)
(* with the one Astro reads, under a lock, by two renames.                  *)
(*                                                                         *)
(* A step is one file system operation; each may fail, and the process may  *)
(* be killed before any of them.  A directory's removal that stops half way *)
(* leaves a part of it.  The lock expires some time after its holder died;  *)
(* a live holder renews it in time.                                         *)
(***************************************************************************)
CONSTANTS
  Publishers, Versions, Absent,
  Partial     \* a directory that lacks some of its files

ASSUME PublishAssumption ==
  /\ Absent \notin Versions /\ Partial \notin Versions /\ Partial # Absent
  /\ "free" \notin Publishers

Directories == Versions \cup {Absent, Partial}
Steps == {"idle", "recover", "clean", "stage", "prepare", "back up", "promote",
          "restore", "remove", "finally"}

VARIABLES
  target,    \* .generated
  backup,    \* .generated-previous
  stage,     \* .generated-stage-*, by the process that made it
  lock,      \* .content-lock: its holder, or "free"
  pc         \* the next step of each process; "idle" for one that is not running

vars == <<target, backup, stage, lock, pc>>

Init ==
  /\ target = Absent /\ backup = Absent
  /\ stage = [p \in Publishers |-> Absent]
  /\ lock = "free"
  /\ pc = [p \in Publishers |-> "idle"]

Goto(p, step) == pc' = [pc EXCEPT ![p] = step]

\* lockfile.lock, without retries: a process that finds the lock taken ends.
Acquire(p) ==
  /\ pc[p] = "idle" /\ lock = "free"
  /\ lock' = p /\ Goto(p, "recover")
  /\ UNCHANGED <<target, backup, stage>>

\* Mutant: a backup is a leftover.
Discard(p) ==
  /\ pc[p] = "recover"
  /\ backup' \in {Absent, Partial} /\ (backup = Absent => backup' = Absent)
  /\ Goto(p, IF backup' = Absent THEN "clean" ELSE "finally")
  /\ UNCHANGED <<target, stage, lock>>

\* A backup without a target is a swap that stopped half way; with one, a
\* swap that did not remove what it replaced.
Recover(p) ==
  /\ pc[p] = "recover"
  /\ IF backup # Absent /\ target = Absent
     THEN target' = backup /\ backup' = Absent /\ Goto(p, "clean")
     ELSE /\ backup' \in {Absent, Partial} /\ (backup = Absent => backup' = Absent)
          /\ Goto(p, IF backup' = Absent THEN "clean" ELSE "finally")
          /\ UNCHANGED target
  /\ UNCHANGED <<stage, lock>>

\* Stages that other processes abandoned are removed.
Clean(p) ==
  /\ pc[p] = "clean"
  /\ stage' = [q \in Publishers |-> Absent]
  /\ Goto(p, "stage")
  /\ UNCHANGED <<target, backup, lock>>

MakeStage(p) ==
  /\ pc[p] = "stage"
  /\ stage' = [stage EXCEPT ![p] = Partial]
  /\ Goto(p, "prepare")
  /\ UNCHANGED <<target, backup, lock>>

\* prepare writes every file, or throws.
Prepare(p) ==
  /\ pc[p] = "prepare"
  /\ \E v \in Versions : stage' = [stage EXCEPT ![p] = v]
  /\ Goto(p, "back up")
  /\ UNCHANGED <<target, backup, lock>>

BackUp(p) ==
  /\ pc[p] = "back up"
  /\ target' = Absent
  /\ backup' = IF target = Absent THEN backup ELSE target
  /\ Goto(p, "promote")
  /\ UNCHANGED <<stage, lock>>

Promote(p) ==
  /\ pc[p] = "promote"
  /\ target' = stage[p] /\ stage' = [stage EXCEPT ![p] = Absent]
  /\ Goto(p, "remove")
  /\ UNCHANGED <<backup, lock>>

\* Mutant: a failure of the second rename goes straight to the end, which
\* removes the backup.
DropBackup(p) ==
  /\ pc[p] = "restore"
  /\ backup' = Absent
  /\ Goto(p, "finally")
  /\ UNCHANGED <<target, stage, lock>>

\* The second rename failed: the backup returns, and the error is thrown.
Restore(p) ==
  /\ pc[p] = "restore"
  /\ IF backup # Absent THEN target' = backup /\ backup' = Absent
                        ELSE UNCHANGED <<target, backup>>
  /\ Goto(p, "finally")
  /\ UNCHANGED <<stage, lock>>

\* fs.rm of the backup, whole or in part.
Remove(p) ==
  /\ pc[p] = "remove"
  /\ backup' \in {Absent, Partial} /\ (backup = Absent => backup' = Absent)
  /\ Goto(p, "finally")
  /\ UNCHANGED <<target, stage, lock>>

Finally(p) ==
  /\ pc[p] = "finally"
  /\ stage' = [stage EXCEPT ![p] = Absent]
  /\ lock' = "free" /\ Goto(p, "idle")
  /\ UNCHANGED <<target, backup>>

\* An operation fails before it has an effect.
Fail(p) ==
  /\ pc[p] \notin {"idle", "finally"}
  /\ Goto(p, IF pc[p] = "promote" THEN "restore" ELSE "finally")
  /\ UNCHANGED <<target, backup, stage, lock>>

\* The process is killed; its lock expires.  A removal may have begun.
Kill(p) ==
  /\ pc[p] # "idle"
  /\ lock' = "free" /\ Goto(p, "idle")
  /\ \/ UNCHANGED <<target, backup, stage>>
     \/ pc[p] = "remove" /\ backup # Absent /\ backup' = Partial /\ UNCHANGED <<target, stage>>

Next == \E p \in Publishers :
  \/ Acquire(p) \/ Recover(p) \/ Clean(p) \/ MakeStage(p) \/ Prepare(p)
  \/ BackUp(p) \/ Promote(p) \/ Restore(p) \/ Remove(p) \/ Finally(p)
  \/ Fail(p) \/ Kill(p)

Spec == Init /\ [][Next]_vars

(* Properties *)

TypeOK ==
  /\ target \in Directories /\ backup \in Directories
  /\ stage \in [Publishers -> Directories]
  /\ lock \in Publishers \cup {"free"}
  /\ pc \in [Publishers -> Steps]

\* What Astro reads is complete, and while it is away its complete backup, if
\* there ever was a snapshot, is there for the next run to restore
\* (snapshot.mjs:19-20).
Recoverable ==
  /\ target # Partial
  /\ target = Absent => backup # Partial

\* The inductive invariant: the lock excludes, and where the process in the
\* critical section stands tells what the three directories hold.
Standing(p) ==
  /\ pc[p] # "idle" => lock = p
  /\ pc[p] \in {"clean", "stage", "prepare", "back up"} => backup = Absent
  /\ pc[p] \in {"back up", "promote"} => stage[p] \in Versions
  /\ pc[p] \in {"promote", "restore"} => target = Absent
  /\ pc[p] = "remove" => target \in Versions

SwapInv == TypeOK /\ Recoverable /\ \A p \in Publishers : Standing(p)

\* The snapshot there is, or that the next run restores.
Shown == IF target = Absent THEN backup ELSE target

\* The swap is atomic for every later run: a process that fails or is killed
\* anywhere leaves the complete version that was there, or its own.
Atomically == INSTANCE Snapshot WITH shown <- Shown
PublishesAtomically == Atomically!Spec
=============================================================================
