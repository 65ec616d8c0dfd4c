----------------------------- MODULE MCPublish -----------------------------
(***************************************************************************)
(* The way of the website's content to its readers, for TLC: what the      *)
(* generator accepts (Publication), one generation (Content), the          *)
(* publication of the directory it staged (SnapshotPublish), and from a     *)
(* push to the public site (Release) in three settings: failed              *)
(* publications, reruns and pushes that do not concern the site; a race of  *)
(* pushes with a manual run; and pushes that restore an earlier content.    *)
(* They share no state: one of them runs and the others rest in their       *)
(* initial state.                                                          *)
(***************************************************************************)
EXTENDS SnapshotPublish, Naturals

CONSTANTS
  Bytes,        \* the bytes a source may have
  MaxChanges,   \* bound: edits, commits, verifications and recordings
  MaxEdits      \* bound: edits of the configuration

VARIABLES
  files, commits, records, tested, capture, gen, snapshot, changes,
  tracked, manifest, rules, directories, assets, example, links, reader, public, edits,
  trees, runs, deployments, group, site, redirect, edge, probes, qualified,
  part

contentVars == <<files, commits, records, tested, capture, gen, snapshot, changes>>
configVars == <<tracked, manifest, rules, directories, assets, example, links, reader, public, edits>>
siteVars == <<trees, runs, deployments, group, site, redirect, edge, probes, qualified>>
allVars == <<vars, contentVars, configVars, siteVars, part>>

Config == INSTANCE Publication

Sources == INSTANCE Content WITH Versions <- Bytes

Reruns == INSTANCE ReleaseProofs WITH
  PushSets <- {{"maintainer"}, {"website"}, {"policy", "runtime"}}, MaxPushes <- 2,
  MaxDispatches <- 0, MaxReruns <- 1, MaxProbes <- 2, MayRevert <- FALSE, MayFail <- TRUE

Race == INSTANCE ReleaseProofs WITH
  PushSets <- {{"prose"}}, MaxPushes <- 2,
  MaxDispatches <- 1, MaxReruns <- 0, MaxProbes <- 1, MayRevert <- FALSE, MayFail <- TRUE

Reverts == INSTANCE ReleaseProofs WITH
  PushSets <- {{"maintainer"}, {"website"}}, MaxPushes <- 3,
  MaxDispatches <- 0, MaxReruns <- 0, MaxProbes <- 1, MayRevert <- TRUE, MayFail <- TRUE

MCInit ==
  /\ Init /\ Sources!Init /\ Config!Init /\ Race!Init
  /\ part \in {"configuration", "generation", "publication", "reruns", "race", "reverts"}

MCNext ==
  /\ UNCHANGED part
  /\ IF part = "configuration" THEN Config!Next ELSE UNCHANGED configVars
  /\ IF part = "generation" THEN Sources!Next ELSE UNCHANGED contentVars
  /\ IF part = "publication" THEN Next ELSE UNCHANGED vars
  /\ \/ part = "reruns" /\ Reruns!Next
     \/ part = "race" /\ Race!Next
     \/ part = "reverts" /\ Reverts!Next
     \/ part \notin {"reruns", "race", "reverts"} /\ UNCHANGED siteVars

MCSpec == MCInit /\ [][MCNext]_allVars

\* Content's properties: production publishes committed bytes,
ProductionIsCommitted == part = "generation" => Sources!ProductionIsCommitted

\* what is shown as verified was tested with the published bytes,
LabelsAreEarned == part = "generation" => Sources!LabelsAreEarned

\* and the recording and its transcript are of the sample that is published with them.
RecordingIsOfSample == part = "generation" => Sources!RecordingIsOfSample

\* Publication's: every copy has an approval of its own,
CopiesAreApproved == part = "configuration" => Config!CopiesAreApproved

\* every local link leads to something published, and no address is written twice.
LinksAreServed == part = "configuration" => Config!LinksAreServed /\ Config!OneOwner

\* Release's: what visitors are served passed the checks of its content,
LiveIsQualified == Race!LiveIsQualified

\* a publication that reports success is live,
SuccessMeansLive == Race!SuccessMeansLive

\* a green main with nothing under way is what visitors see, also after a revert unless a
\* run since the live revision has failed,
GreenMainIsLive == Race!GreenMainIsLive

\* and the site never goes back to an earlier revision.
LiveNeverGoesBack == Race!LiveNeverGoesBack
=============================================================================
