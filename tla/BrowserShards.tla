--------------------------- MODULE BrowserShards ---------------------------
(***************************************************************************)
(* The website's browser qualification: one workflow run builds the site   *)
(* and retains it (release-artifact.mjs), discovers the browser tests,     *)
(* runs them in two shards against the retained bytes (browser-ci.mjs,     *)
(* browser-reporter.mjs), merges their reports into evidence               *)
(* (browser-evidence.mjs) and publishes the bytes the evidence names.      *)
(*                                                                         *)
(* Jobs die, fail and are run again; what a job uploads replaces what an   *)
(* earlier attempt uploaded under the same name, and stays when the next   *)
(* attempt uploads nothing.  A build need not give the same bytes twice.   *)
(* One environment is modelled.                                            *)
(***************************************************************************)
EXTENDS Naturals, FiniteSets

CONSTANTS
  Tests,         \* the browser tests of the revision, numbered
  Builds,        \* the bytes a build may give
  MaxAttempts    \* bound: attempts of the run

Shards == 1..2
Jobs == {"website", "browser1", "browser2", "qualification", "gate", "publish"}
BrowserJob(i) == IF i = 1 THEN "browser1" ELSE "browser2"
BrowserJobs == {BrowserJob(i) : i \in Shards}
Nothing == [status |-> "none"]

VARIABLES
  result,      \* the latest result of each job
  attempt,     \* of the run
  build,       \* upload of the website job: the retained bytes and the plan
  reports,     \* uploads of the shards
  release,     \* upload of the qualification: what may be published
  executed     \* the latest execution of each shard, reported or not (history)

vars == <<result, attempt, build, reports, release, executed>>
uploads == <<build, reports, release>>

Init ==
  /\ result = [j \in Jobs |-> "pending"]
  /\ attempt = 1
  /\ build = Nothing
  /\ reports = [i \in Shards |-> Nothing]
  /\ release = Nothing
  /\ executed = [i \in Shards |-> Nothing]

Ends(j, r) == result' = [result EXCEPT ![j] = r]
Done(jobs) == \A j \in jobs : result[j] # "pending"
Succeeded(jobs) == \A j \in jobs : result[j] = "success"

\* A job whose runner is lost uploads nothing.
Dies(j) ==
  /\ result[j] = "pending"
  /\ Ends(j, "failure")
  /\ UNCHANGED <<attempt, uploads, executed>>

\* retainArtifact and the discovery of the suite.
Website ==
  /\ result["website"] = "pending"
  /\ \E b \in Builds :
       build' = [status |-> "passed", bytes |-> b, tests |-> Tests]
  /\ Ends("website", "success")
  /\ UNCHANGED <<attempt, reports, release, executed>>

\* Playwright's share of the tests a shard discovers.
Share(discovered, i) ==
  {t \in discovered : Cardinality({u \in discovered : u < t}) % 2 = i - 1}

\* Bound: at most one test of an execution fails or is skipped.
Outcomes(share) ==
  {o \in [share -> {"passed", "failed", "skipped"}] :
     Cardinality({t \in share : o[t] # "passed"}) <= 1}

\* The reporter names the bytes of the artifact; the served copy is verified
\* again after it wrote its report, which is uploaded even when the job fails.
\* A spec file that a shard does not load leaves its tests undiscovered, and a
\* runner may be lost before it uploads.
RunShard(i) ==
  /\ result[BrowserJob(i)] = "pending"
  /\ result["website"] = "success"
  /\ \E missed \in {{}} \cup {{t} : t \in Tests}, served \in Builds :
       \E outcome \in Outcomes(Share(Tests \ missed, i)) :
         LET passes == \A t \in DOMAIN outcome : outcome[t] # "failed"
             report == [status |-> IF passes THEN "passed" ELSE "failed",
                        bytes |-> build.bytes, outcome |-> outcome]
         IN /\ executed' = [executed EXCEPT ![i] = [report EXCEPT !.bytes = served]]
            /\ \/ /\ reports' = [reports EXCEPT ![i] = report]
                  /\ Ends(BrowserJob(i), IF passes /\ served = build.bytes
                                        THEN "success" ELSE "failure")
               \/ UNCHANGED reports /\ Ends(BrowserJob(i), "failure")
  /\ UNCHANGED <<attempt, build, release>>

CheckIdentity(report) ==
  /\ report.status = "passed"
  /\ report.bytes = build.bytes
  /\ DOMAIN report.outcome # {}

\* Mutant: a test that no shard reports is not missed.
NoneMissed(plan) ==
  /\ \A i \in Shards : CheckIdentity(reports[i]) /\ DOMAIN reports[i].outcome \subseteq plan
  /\ DOMAIN reports[1].outcome \cap DOMAIN reports[2].outcome = {}

\* Every planned test is in one report, and some test passed.
QualifyBrowserShards(plan) ==
  /\ \A i \in Shards : CheckIdentity(reports[i]) /\ DOMAIN reports[i].outcome \subseteq plan
  /\ DOMAIN reports[1].outcome \cap DOMAIN reports[2].outcome = {}
  /\ DOMAIN reports[1].outcome \cup DOMAIN reports[2].outcome = plan
  /\ \E i \in Shards : \E t \in DOMAIN reports[i].outcome : reports[i].outcome[t] = "passed"

Evidence == [status |-> "passed", bytes |-> build.bytes, reports |-> reports]

\* Runs after failed shards too, but then it uploads no release.
Qualify ==
  /\ result["qualification"] = "pending"
  /\ Done(BrowserJobs) /\ result["website"] = "success"
  /\ IF QualifyBrowserShards(build.tests)
     THEN /\ release' = IF Succeeded(BrowserJobs) THEN Evidence ELSE release
          /\ Ends("qualification", "success")
     ELSE Ends("qualification", "failure") /\ UNCHANGED release
  /\ UNCHANGED <<attempt, build, reports, executed>>

\* A job whose needs failed is skipped.
Skip(j) ==
  /\ result[j] = "pending"
  /\ \/ j \in BrowserJobs \cup {"qualification"} /\ result["website"] \notin {"pending", "success"}
     \/ j = "publish" /\ result["gate"] \notin {"pending", "success"}
  /\ Ends(j, "skipped")
  /\ UNCHANGED <<attempt, uploads, executed>>

Gate ==
  /\ result["gate"] = "pending"
  /\ LET needs == Jobs \ {"gate", "publish"}
     IN Done(needs) /\ Ends("gate", IF Succeeded(needs) THEN "success" ELSE "failure")
  /\ UNCHANGED <<attempt, uploads, executed>>

\* verifyProduction and the upload, which may fail.
Publish ==
  /\ result["publish"] = "pending" /\ result["gate"] = "success"
  /\ Ends("publish", "success") \/ Ends("publish", "failure")
  /\ UNCHANGED <<attempt, uploads, executed>>

After(j) ==
  CASE j = "website" -> Jobs
    [] j \in BrowserJobs -> {j, "qualification", "gate", "publish"}
    [] j = "qualification" -> {j, "gate", "publish"}
    [] j = "gate" -> {j, "publish"}
    [] OTHER -> {j}

\* Running again everything, what failed, or one job, each with what needs it.
Rerun ==
  /\ Done(Jobs) /\ attempt < MaxAttempts
  /\ \E again \in {Jobs} \cup {{j} : j \in Jobs} \cup {{j \in Jobs : result[j] # "success"}} :
       /\ again # {}
       /\ result' = [j \in Jobs |->
            IF \E k \in again : j \in After(k) THEN "pending" ELSE result[j]]
  /\ attempt' = attempt + 1
  /\ UNCHANGED <<uploads, executed>>

Next ==
  \/ Website \/ Qualify \/ Gate \/ Publish \/ Rerun
  \/ \E i \in Shards : RunShard(i)
  \/ \E j \in Jobs : Skip(j) \/ (Dies(j) /\ j \in {"website", "qualification"} \cup BrowserJobs)

Spec == Init /\ [][Next]_vars

(* Properties *)

\* Once the publisher may run, each browser test was run by one shard alone,
\* and its shard's latest execution, in whatever attempt and whether or not its
\* report was uploaded, was against the bytes of the release and passed the test
\* or skipped it (website/scripts/browser-evidence.mjs:28-90).
PublishableIsTested ==
  result["gate"] = "success" /\ result["publish"] = "pending" =>
    \A t \in Tests : \E i \in Shards :
      /\ \A j \in Shards : t \in DOMAIN executed[j].outcome <=> j = i
      /\ executed[i].bytes = release.bytes
      /\ executed[i].outcome[t] \in {"passed", "skipped"}
=============================================================================
