--------------------------- MODULE MCSessionStore ---------------------------
(***************************************************************************)
(* SessionStore for TLC, under each fault model on its own: the model is   *)
(* chosen in the initial state and kept.  The module's own constants are   *)
(* the "host crash" model; the instances below change what they name.      *)
(* Where the proofs cover a model it is an instance of their module, so    *)
(* that their theorems speak of the definitions TLC checks.                *)
(***************************************************************************)
EXTENDS SessionStoreProofs

VARIABLE model

\* Errors of appends and checkpoints, before or after their effect.
Faults == INSTANCE SessionStoreProofs WITH
    MaxTransactions <- 5, MaxCrashes <- 1, MaxFaults <- 2, Faulty <- {"append", "checkpoint"}

\* Buffered appends and crashes of the process, which keep what was written.
Buffered == INSTANCE SessionStoreProofs WITH Durability <- "buffered", HostCrashes <- FALSE

\* Every file operation may fail.
AnyFault == INSTANCE SessionStore WITH
    MaxTransactions <- 5, MaxCrashes <- 1, MaxFaults <- 1,
    Faulty <- {"append", "boundary", "directory sync", "checkpoint", "segment removal"}

MCInit == Init /\ model \in {"host crash", "faults", "buffered", "any fault"}

MCNext ==
    /\ UNCHANGED model
    /\ \/ model = "host crash" /\ Next
       \/ model = "faults" /\ Faults!Next
       \/ model = "buffered" /\ Buffered!Next
       \/ model = "any fault" /\ AnyFault!Next

MCWork ==
    \/ model = "host crash" /\ Work
    \/ model = "faults" /\ Faults!Work
    \/ model = "buffered" /\ Buffered!Work
    \/ model = "any fault" /\ AnyFault!Work

MCSpec == MCInit /\ [][MCNext]_<<vars, model>> /\ WF_vars(MCWork)

-----------------------------------------------------------------------------
(* With errors at a segment's boundary, in its removal or in a directory's   *)
(* fsync, the store only has to keep its checkpoints and to settle: the      *)
(* runs that expect a violation show what else goes wrong there.  The other  *)
(* models promise more.                                                     *)

\* RecoveryAccepts under each model that promises it: recovery accepts what any
\* crash leaves, and any error of an append or a checkpoint, the removal of its
\* older files included.
RecoveryAcceptsPromised ==
    /\ model = "host crash" => RecoveryAccepts
    /\ model = "faults" => Faults!RecoveryAccepts
    /\ model = "buffered" => Buffered!RecoveryAccepts

\* WriterFollowsJournal under each model that promises it.
WriterFollowsPromised ==
    /\ model = "host crash" => WriterFollowsJournal
    /\ model = "faults" => Faults!WriterFollowsJournal
    /\ model = "buffered" => Buffered!WriterFollowsJournal

\* A step of the log, under each model that promises it.
LogStepPromised ==
    /\ model = "host crash" => LogStep
    /\ model = "faults" => Faults!LogStep
    /\ model = "buffered" => Buffered!LogStep

\* ImplementsDurableLog under each model that promises it: the recovered log
\* changes only as the abstract log may.
ImplementsDurableLogPromised == Log!Init /\ [][LogStepPromised]_<<vars, model>>
=============================================================================
