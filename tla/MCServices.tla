----------------------------- MODULE MCServices -----------------------------
(***************************************************************************)
(* Five parts for TLC, those of the server and those of the website:        *)
(* CommitWriter, Idempotency and SessionAttachment (how a change becomes   *)
(* durable, how a repeated command makes it once, how a client follows     *)
(* it); Search and DevServer; and the end of every run of Release.  They   *)
(* share no state: one of them runs and the others rest in their initial   *)
(* state, so the states are the sum of theirs.                             *)
(***************************************************************************)
EXTENDS CommitWriter, SearchLimits, TLC

CONSTANTS
  Connections, Window, SubscriberCapacity, Outgoing, MaxEvents, MaxLosses, MaxRestarts,
  Standard, Protected, Digests, MaxCalls, MaxDays,
  none, many,        \* queries, by their hits
  MaxEdits,          \* bound: edits of the sources
  QuietStart         \* nothing happens before the watcher is ready

\* A client attached over connection 1.
ASSUME ConnectionsAssumption == Connections \subseteq Nat /\ 1 \in Connections

\* A class of commands expires or does not.
ASSUME ClassesAssumption == Standard \cap Protected = {}

MCHits == (none :> 0) @@ (many :> 3)

VARIABLES
  latest, oldest, attached, conn, phase, current, cursor, force, unresolved, closed,
  losses, restarts,
  records, index, audits, retained, session, step, command, told, today, calls,
  page, api, tasks, workers,
  source, snapshot, readers, server, main, job, queued, noticed, timer, ended, leaving,
  trees, runs, deployments, group, site, redirect, edge, probes, qualified,
  part

attachmentVars == <<latest, oldest, attached, conn, phase, current, cursor, force,
                    unresolved, closed, losses, restarts>>
commandVars == <<records, index, audits, retained, session, step, command, told, today, calls>>
searchVars == <<page, api, tasks, workers>>
devVars == <<source, snapshot, readers, server, main, job, queued, noticed, timer,
             ended, leaving>>
releaseVars == <<trees, runs, deployments, group, site, redirect, edge, probes, qualified>>
allVars == <<vars, attachmentVars, commandVars, searchVars, devVars, releaseVars, part>>

Attachment == INSTANCE SessionAttachment WITH Capacity <- SubscriberCapacity

\* A key is not used again for another request: the client's part of the bargain.
Commands == INSTANCE IdempotencyProofs WITH MayReuse <- FALSE, journal <- audits

\* The dialog, and edits, crashes and a signal around the development server.
Website == INSTANCE WebsiteProofs WITH closed <- ended

\* Overlapping publications and a manual run.
Main == INSTANCE Release WITH
  PushSets <- {{"website"}}, MaxPushes <- 2, MaxDispatches <- 1,
  MaxReruns <- 0, MaxProbes <- 2, MayRevert <- FALSE, MayFail <- FALSE

MCInit ==
  /\ Init /\ Attachment!Init /\ Commands!Init
  /\ Website!Init /\ Website!Dev!Init /\ Main!Init
  /\ part \in {"writer", "attachment", "commands", "search", "dev", "release"}

MCNext ==
  \/ /\ part = "writer" /\ Next
     /\ UNCHANGED <<attachmentVars, commandVars, searchVars, devVars, releaseVars, part>>
  \/ /\ part = "attachment" /\ Attachment!Next
     /\ UNCHANGED <<vars, commandVars, searchVars, devVars, releaseVars, part>>
  \/ /\ part = "commands" /\ Commands!Next
     /\ UNCHANGED <<vars, attachmentVars, searchVars, devVars, releaseVars, part>>
  \/ /\ part = "search" /\ Website!Next
     /\ UNCHANGED <<vars, attachmentVars, commandVars, devVars, releaseVars, part>>
  \/ /\ part = "dev" /\ Website!Dev!Next
     /\ UNCHANGED <<vars, attachmentVars, commandVars, searchVars, releaseVars, part>>
  \/ /\ part = "release" /\ Main!Next
     /\ UNCHANGED <<vars, attachmentVars, commandVars, searchVars, devVars, part>>

\* The fairness of the specifications.
MCSpec ==
  /\ MCInit /\ [][MCNext]_allVars
  /\ WF_vars(part = "writer" /\ Worker)
  /\ WF_vars(part = "writer" /\ Answer)
  /\ WF_attachmentVars(part = "attachment" /\ Attachment!ClientStep)
  /\ SF_attachmentVars(part = "attachment" /\ Attachment!Connect)
  /\ WF_attachmentVars(part = "attachment" /\ Attachment!ServerStep)
  /\ WF_searchVars(part = "search" /\ Website!Fire)
  /\ WF_searchVars(part = "search" /\ \E t \in tasks :
                     Website!IsCurrent(page, t.id) /\ Website!Timeout(t))
  /\ WF_devVars(part = "dev" /\ Website!Dev!Progress)
  /\ \A i \in Main!RunIds :
       WF_releaseVars(part = "release" /\ i \in DOMAIN runs /\ Main!Advance(i))

\* SessionAttachment's: nothing of the stream is missed silently,
StreamContinues == Attachment!StreamContinues

\* no connection outlives the client's interest in it,
ClosesWhatItOpened == Attachment!ClosesWhatItOpened

\* and the client catches up or knows why not.
CatchesUp == Attachment!CatchesUp

\* Idempotency's: a request is executed once and its answers are true,
OnceAndTrue == Commands!OnceAndTrue

\* and the session can be opened again.
Reconciles == Commands!Reconciles

\* Search's: the dialog shows results of the text in its input,
ScreenIsTheAnswer == Website!ScreenIsTheAnswer

\* every worker that runs is the current one,
NoLeakedWorker == Website!NoLeakedWorker

\* a page is read from the results it belongs to,
NeverObsolete == Website!NeverObsolete

\* and loading ends.
LoadingEnds == part = "search" => Website!LoadingEnds

\* DevServer's: one reader at a time, never beside a generation;
ReaderIsAlone == Website!ReaderIsAlone

\* the last edit is served unless the watcher closed;
EditsAreServed == part = "dev" => Website!Dev!EditsAreServed

\* a failure or a signal ends the supervisor and every reader.
ClosingEnds == Website!Dev!ClosingEnds

\* Release's: every workflow run ends.
EveryRunEnds == Main!EveryRunEnds
=============================================================================
