------------------------------ MODULE Release ------------------------------
(***************************************************************************)
(* From a push on main to the public site: check selection                 *)
(* (.github/scripts/select-checks.mjs and ci-policy.mjs), the release gate, *)
(* the serialized publisher (website/scripts/publish-production.mjs) and   *)
(* the verification of the live site (rehearse-hosted.mjs).                *)
(*                                                                         *)
(* Every push starts a workflow run of its own; the runs overlap freely    *)
(* until the publisher, which the concurrency group                        *)
(* ochat-website-production admits one at a time.  A tree is abstracted to *)
(* the version of each class of path the selection tells apart; "prose" is *)
(* the part of a documentation file that documentationOnlyPaths proves not *)
(* to be executable, and its protected part belongs to "runtime".          *)
(***************************************************************************)
EXTENDS Naturals, Sequences, FiniteSets, FiniteSetsExt, TLC

CONSTANTS
  PushSets,       \* the sets of classes of path one push may change
  MaxPushes,      \* bound: pushes to main
  MaxDispatches,  \* bound: manual runs
  MaxReruns,      \* bound: reruns of one workflow run
  MaxProbes,      \* bound: readiness probes of the live site (12 in the code)
  MayRevert,      \* may a push restore an earlier content?
  MayFail         \* may jobs, lookups and uploads fail?

Areas == {"maintainer", "prose", "policy", "website", "runtime"}

VARIABLES
  trees,        \* main: the tree of each revision, oldest first
  runs,         \* the workflow runs, in the order they were triggered
  deployments,  \* GitHub's deployment records of the production environment
  group,        \* the concurrency group: the running and the pending publisher
  site,         \* the revision of the uploaded site Worker
  redirect,     \* the revision of the uploaded redirect Worker
  edge,         \* the revision of the site visitors are served
  probes,       \* readiness probes the running publisher has made
  qualified     \* runtime contents that the framework jobs have passed

vars == <<trees, runs, deployments, group, site, redirect, edge, probes, qualified>>
liveVars == <<site, redirect, edge>>

MainHead == Len(trees)
None == 0

(* Check selection *)

\* `git diff --name-only --no-renames`: every path that differs.
ChangedPaths(base, head) == {a \in Areas : trees[base][a] # trees[head][a]}

ClassifyPaths(paths) ==
  LET shipped == paths \cap {"prose", "policy", "website", "runtime"} # {}
  IN [framework |-> "runtime" \in paths, semantics |-> shipped, website |-> shipped]

\* Mutant: what is unshipped since the last deployment is forgotten.
OnlyCurrent(current, pending) == current

Either(current, pending) == [j \in DOMAIN current |-> current[j] \/ pending[j]]

AllChosen == [framework |-> TRUE, semantics |-> TRUE, website |-> TRUE]

\* Pushes and redeploys publish what they qualified for the website.
ChooseChecks(event, mode, paths, pendingPaths, fallback) ==
  LET full   == fallback \/ event = "workflow_dispatch"
      chosen == IF full THEN AllChosen
                ELSE Either(ClassifyPaths(paths), ClassifyPaths(pendingPaths))
      deploy == chosen.website /\ (event = "push" \/ mode = "redeploy")
  IN [framework |-> chosen.framework, semantics |-> chosen.semantics,
      website |-> chosen.website, deploy |-> deploy]

NothingChosen == [framework |-> FALSE, semantics |-> FALSE, website |-> FALSE, deploy |-> FALSE]

Successful == {d \in DOMAIN deployments : deployments[d].success}

\* Mutant: the newest attempt is the baseline, whatever its status.
NewestAttempt == deployments[Len(deployments)].rev

\* The newest deployment with a success status, 0 when there is none.
LastSuccessfulDeployment ==
  IF Successful = {} THEN None ELSE deployments[Max(Successful)].rev

\* The one-off proof of PR 112: revision 1 is its base, and its head differs
\* from the base by the first new runtime content.
ReferenceBase == 1
ReferenceTree == [trees[ReferenceBase] EXCEPT !["runtime"] = 1]

\* Mutant: the tree is not compared with the qualified one.
ReuseUnproven(run, fallback, selection) ==
  run.event = "push" /\ run.rev - 1 = ReferenceBase /\ ~fallback /\ selection.framework

ReuseApplies(run, fallback, selection) ==
  /\ run.event = "push" /\ run.rev - 1 = ReferenceBase
  /\ ~fallback /\ selection.framework
  /\ {a \in Areas : ReferenceTree[a] # trees[run.rev][a]} \subseteq {"policy"}

Reused(selection) == [selection EXCEPT !.framework = FALSE]

(* Runs, the gate and the publisher's queue *)

NewRun(event, mode, rev) ==
  [event |-> event, mode |-> mode, rev |-> rev, checks |-> NothingChosen,
   stage |-> "triggered", failedAt |-> "none", result |-> "none", reruns |-> 0]

PublisherStages == {"verify", "head", "site", "redirect", "probe", "live"}

SelectionOf(job) ==
  CASE job \in {"framework-plan", "framework"} -> "framework"
    [] job = "semantics" -> "semantics"
    [] OTHER -> "website"

GateJobs == {"semantics", "framework-plan", "framework",
             "website", "browser", "website-qualification"}

Expected(run, job) == IF run.checks[SelectionOf(job)] THEN "success" ELSE "skipped"

RequireSelectedJobs(run, results) == \A job \in GateJobs : results[job] = Expected(run, job)

\* The outcomes of a run's jobs: an unselected job is skipped; a selected one
\* succeeds, or is the one that fails.
JobResults(run) ==
  LET clean == [job \in GateJobs |-> Expected(run, job)]
  IN {clean} \cup (IF MayFail
                   THEN {[clean EXCEPT ![job] = "failure"] :
                           job \in {j \in GateJobs : clean[j] = "success"}}
                   ELSE {})

\* Ends run i; a publisher hands the group over to the pending one, whose job
\* starts by opening a deployment record.
End(i, result, failedAt, records) ==
  LET ended == [runs EXCEPT ![i].stage = "done", ![i].result = result, ![i].failedAt = failedAt]
      next  == group.pending
  IN IF group.running = i
     THEN /\ group' = [running |-> next, pending |-> None]
          /\ probes' = 0
          /\ IF next = None
             THEN runs' = ended /\ deployments' = records
             ELSE /\ runs' = [ended EXCEPT ![next].stage = "verify"]
                  /\ deployments' = Append(records, [rev |-> runs[next].rev, success |-> FALSE])
     ELSE /\ runs' = ended
          /\ deployments' = records
          /\ UNCHANGED <<group, probes>>

Fail(i) == End(i, "failure", runs[i].stage, deployments)

Move(i, stage) ==
  /\ runs' = [runs EXCEPT ![i].stage = stage]
  /\ UNCHANGED <<deployments, group>>

InitialTree == [a \in Areas |-> 0]

Init ==
  /\ trees = <<InitialTree>>
  /\ runs = <<>>
  /\ deployments = <<[rev |-> 1, success |-> TRUE]>>
  /\ group = [running |-> None, pending |-> None]
  /\ site = 1 /\ redirect = 1 /\ edge = 1
  /\ probes = 0
  /\ qualified = {InitialTree["runtime"], 1}

(* Actions *)

\* The contents a push may bring: new ones, the one of the PR 112 proof, or,
\* reverting, the first ones.
Contents ==
  {MainHead + 1} \cup (IF MainHead = ReferenceBase THEN {1} ELSE {}) \cup (IF MayRevert THEN {0} ELSE {})

\* A push to main; its workflow run starts.
Push(paths) ==
  /\ Len(trees) <= MaxPushes
  /\ \E content \in Contents :
       LET new == [a \in Areas |-> IF a \in paths THEN content ELSE trees[MainHead][a]]
       IN /\ new # trees[MainHead]
          /\ trees' = Append(trees, new)
          /\ runs' = Append(runs, NewRun("push", "validate", MainHead + 1))
  /\ UNCHANGED <<deployments, group, liveVars, probes, qualified>>

\* A manual run on main.
Dispatch(mode) ==
  /\ Cardinality({i \in DOMAIN runs : runs[i].event # "push"}) < MaxDispatches
  /\ runs' = Append(runs, NewRun("workflow_dispatch", mode, MainHead))
  /\ UNCHANGED <<trees, deployments, group, liveVars, probes, qualified>>

\* The changes job: the immediate push and everything since the last
\* successful deployment, each against its own baseline.
Select(i) ==
  /\ runs[i].stage = "triggered"
  /\ \E unavailable \in (IF MayFail /\ runs[i].event = "push" THEN BOOLEAN ELSE {FALSE}) :
     \E reuse \in BOOLEAN :
       LET run      == runs[i]
           baseline == LastSuccessfulDeployment
           fallback == run.event = "push" /\ (unavailable \/ baseline = None)
           known    == run.event = "push" /\ ~fallback
           paths    == IF known THEN ChangedPaths(run.rev - 1, run.rev) ELSE {}
           pending  == IF known THEN ChangedPaths(baseline, run.rev) ELSE {}
           chosen   == ChooseChecks(run.event, run.mode, paths, pending, fallback)
       IN /\ reuse => ReuseApplies(run, fallback, chosen)
          /\ runs' = [runs EXCEPT ![i].checks = IF reuse THEN Reused(chosen) ELSE chosen,
                                  ![i].stage = "selected"]
  /\ UNCHANGED <<trees, deployments, group, liveVars, probes, qualified>>

\* The mandatory policy tests of the changes job fail; so does the gate.
DetectionFails(i) ==
  /\ MayFail
  /\ runs[i].stage = "triggered"
  /\ Fail(i)
  /\ UNCHANGED <<trees, liveVars, qualified>>

\* The selected jobs and the gate over them.
Gate(i) ==
  /\ runs[i].stage = "selected"
  /\ \E results \in JobResults(runs[i]) :
       /\ qualified' = IF results["framework"] = "success"
                       THEN qualified \cup {trees[runs[i].rev]["runtime"]}
                       ELSE qualified
       /\ IF ~RequireSelectedJobs(runs[i], results) THEN Fail(i)
          ELSE IF runs[i].checks.deploy THEN Move(i, "gated") /\ UNCHANGED probes
          ELSE End(i, "success", "none", deployments)
  /\ UNCHANGED <<trees, liveVars>>

\* deploy-production asks for the group.  A publisher that is already pending
\* there is cancelled in favour of the one that asks last.
Enqueue(i) ==
  /\ runs[i].stage = "gated"
  /\ IF group.running = None
     THEN /\ group' = [group EXCEPT !.running = i]
          /\ runs' = [runs EXCEPT ![i].stage = "verify"]
          /\ deployments' = Append(deployments, [rev |-> runs[i].rev, success |-> FALSE])
     ELSE /\ group' = [group EXCEPT !.pending = i]
          /\ runs' = [j \in DOMAIN runs |->
                        IF j = i THEN [runs[j] EXCEPT !.stage = "pending"]
                        ELSE IF j = group.pending
                        THEN [runs[j] EXCEPT !.stage = "done", !.result = "cancelled",
                                             !.failedAt = "gated"]
                        ELSE runs[j]]
          /\ UNCHANGED deployments
  /\ UNCHANGED <<trees, liveVars, probes, qualified>>

\* verify-production.mjs: artifact, evidence and approval belong to this revision.
Verify(i) ==
  /\ runs[i].stage = "verify"
  /\ \/ Move(i, "head") /\ UNCHANGED probes
     \/ MayFail /\ Fail(i)
  /\ UNCHANGED <<trees, liveVars, qualified>>

\* Mutant: a superseded revision is uploaded all the same.
UploadsSuperseded(i) ==
  /\ runs[i].stage = "head"
  /\ Move(i, "site")
  /\ UNCHANGED <<trees, liveVars, probes, qualified>>

\* Mutant: a superseded publisher waits until its revision is main's head.
WaitsForHead(i) ==
  /\ runs[i].stage = "head"
  /\ runs[i].rev = MainHead
  /\ Move(i, "site")
  /\ UNCHANGED <<trees, liveVars, probes, qualified>>

\* publish-production.mjs refuses a revision that is no longer main's head.
CheckHead(i) ==
  /\ runs[i].stage = "head"
  /\ \/ runs[i].rev = MainHead /\ Move(i, "site") /\ UNCHANGED probes
     \/ (runs[i].rev # MainHead \/ MayFail) /\ Fail(i)
  /\ UNCHANGED <<trees, liveVars, qualified>>

\* The two uploads are sequential.  Wrangler may fail before or after the new
\* version became active; either way the script stops.
UploadSite(i) ==
  /\ runs[i].stage = "site"
  /\ \/ site' = runs[i].rev /\ Move(i, "redirect") /\ UNCHANGED probes
     \/ MayFail /\ site' \in {site, runs[i].rev} /\ Fail(i)
  /\ UNCHANGED <<trees, redirect, edge, qualified>>

\* Mutant: the status of the second upload is not looked at.
UploadRedirectUnchecked(i) ==
  /\ runs[i].stage = "redirect"
  /\ redirect' \in {redirect, runs[i].rev}
  /\ Move(i, "probe")
  /\ UNCHANGED <<trees, site, edge, probes, qualified>>

UploadRedirect(i) ==
  /\ runs[i].stage = "redirect"
  /\ \/ redirect' = runs[i].rev /\ Move(i, "probe") /\ UNCHANGED probes
     \/ MayFail /\ redirect' \in {redirect, runs[i].rev} /\ Fail(i)
  /\ UNCHANGED <<trees, site, edge, qualified>>

\* The uploaded site reaches the edge some time after its upload.
Propagate ==
  /\ edge # site
  /\ edge' = site
  /\ UNCHANGED <<trees, runs, deployments, group, site, redirect, probes, qualified>>

\* Mutant: one probe more than the bound.
ProbeOnceMore(i) ==
  /\ runs[i].stage = "probe"
  /\ \/ edge = runs[i].rev /\ Move(i, "live") /\ UNCHANGED probes
     \/ /\ edge # runs[i].rev \/ MayFail
        /\ IF probes > MaxProbes THEN Fail(i)
           ELSE probes' = probes + 1 /\ UNCHANGED <<runs, deployments, group>>
  /\ UNCHANGED <<trees, liveVars, qualified>>

\* waitForProduction: retry until the homepage has the artifact's bytes.
Probe(i) ==
  /\ runs[i].stage = "probe"
  /\ \/ edge = runs[i].rev /\ Move(i, "live") /\ UNCHANGED probes
     \/ /\ edge # runs[i].rev \/ MayFail
        /\ IF probes + 1 = MaxProbes THEN Fail(i)
           ELSE probes' = probes + 1 /\ UNCHANGED <<runs, deployments, group>>
  /\ UNCHANGED <<trees, liveVars, qualified>>

\* The success status belongs to the newest record, the one of this run.
Succeeded == [deployments EXCEPT ![Len(deployments)].success = TRUE]

\* rehearse-hosted.mjs compares every served file with the retained artifact.
VerifyLive(i) ==
  /\ runs[i].stage = "live"
  /\ \/ edge = runs[i].rev /\ End(i, "success", "none", Succeeded)
     \/ (edge # runs[i].rev \/ MayFail) /\ Fail(i)
  /\ UNCHANGED <<trees, liveVars, qualified>>

\* `gh run rerun`, from the start or with --failed: the failed job again, with
\* the outputs of the jobs that succeeded.
Rerun(i) ==
  /\ runs[i].stage = "done" /\ runs[i].result # "success"
  /\ runs[i].reruns < MaxReruns
  /\ \E stage \in {"triggered",
                   IF runs[i].failedAt \in PublisherStages THEN "gated" ELSE runs[i].failedAt} :
       runs' = [runs EXCEPT ![i].stage = stage, ![i].result = "none",
                            ![i].failedAt = "none", ![i].reruns = @ + 1]
  /\ UNCHANGED <<trees, deployments, group, liveVars, probes, qualified>>

Advance(i) ==
  \/ Select(i) \/ DetectionFails(i) \/ Gate(i) \/ Enqueue(i) \/ Verify(i) \/ CheckHead(i)
  \/ UploadSite(i) \/ UploadRedirect(i) \/ Probe(i) \/ VerifyLive(i)

Next ==
  \/ \E paths \in PushSets : Push(paths)
  \/ \E mode \in {"validate", "redeploy"} : Dispatch(mode)
  \/ \E i \in DOMAIN runs : Advance(i) \/ Rerun(i)
  \/ Propagate

Spec == Init /\ [][Next]_vars

\* Every runner eventually performs its next step: each job has a timeout.
RunIds == 1..(MaxPushes + MaxDispatches)
FairSpec == Spec /\ \A i \in RunIds : WF_vars(i \in DOMAIN runs /\ Advance(i))

(* Properties *)

\* The state has the shape the scripts give it.
TypeOK ==
  /\ trees \in Seq([Areas -> Nat])
  /\ \A i \in DOMAIN runs :
       /\ runs[i].rev \in DOMAIN trees
       /\ runs[i].stage \in PublisherStages \cup
            {"triggered", "selected", "gated", "pending", "done"}
       /\ runs[i].result \in {"none", "success", "failure", "cancelled"}
       /\ runs[i].stage = "done" <=> runs[i].result # "none"
  /\ \A d \in DOMAIN deployments : deployments[d].rev \in DOMAIN trees
  /\ {group.running, group.pending} \subseteq DOMAIN runs \cup {None}
  /\ {site, redirect, edge} \subseteq DOMAIN trees
  /\ probes \in 0..MaxProbes

\* Whatever the interleaving of pushes, failed publications and reruns, the
\* runtime content of what production serves has passed the framework jobs,
\* although a publishing run may have skipped them
\* (website/planning/ci-enforcement.md: an unshipped runtime change still
\* selects all jobs even if the latest push is only prose).
LiveIsQualified ==
  \A rev \in {site, redirect, edge} : trees[rev]["runtime"] \in qualified

\* Production never goes back to an older revision of main: the serialized
\* publisher refuses an older queued run (publish-production.mjs:88).
LiveNeverGoesBack ==
  [][site' >= site /\ redirect' >= redirect /\ edge' >= edge]_vars

\* A publication recorded as successful put both Workers and the edge at its
\* revision, as long as no later publication was attempted
\* (planning/p11-launch.md: failure of either upload marks the run failed).
SuccessMeansLive ==
  LET last == Len(deployments)
  IN deployments[last].success => {site, redirect, edge} = {deployments[last].rev}

\* The part of a tree whose change selects a publication.
SiteContent(rev) == [a \in Areas \ {"maintainer"} |-> trees[rev][a]]

Quiet == \A i \in DOMAIN runs : runs[i].stage = "done"

\* Main came back to a content of the site that it had before.
WentBack ==
  \E old, rev \in 1..MainHead :
    old < rev /\ SiteContent(old) = SiteContent(MainHead) /\ SiteContent(rev) # SiteContent(MainHead)

\* The run of a push to this revision succeeded.
Green(rev) == \E i \in DOMAIN runs : runs[i].event = "push" /\ runs[i].rev = rev /\ runs[i].result = "success"

\* When nothing runs and the run of main's head is green, production shows
\* main's content: a failed publication is not stranded by an unrelated push
\* (planning/release-runbook.md:25-26).  When main went back to an earlier
\* content, which the runbook recommends as a recovery (278-280), it takes more:
\* the run of every revision since the live one has to be green.  Otherwise a
\* failed publication may have been uploaded, and as the baseline still has the
\* content that was restored, nothing replaces it.
GreenMainIsLive ==
  Quiet /\ Green(MainHead) /\ (WentBack => \A rev \in site + 1..MainHead : Green(rev)) =>
    SiteContent(site) = SiteContent(MainHead)

\* Every run ends: a publisher that waits for the group is admitted, cancelled
\* or refused, and the readiness probes are bounded.
EveryRunEnds == []<>Quiet
=============================================================================
