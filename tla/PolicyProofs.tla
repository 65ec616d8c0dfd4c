---------------------------- MODULE PolicyProofs ----------------------------
(***************************************************************************)
(* Proofs about what the jobs of a workflow run prove before its release,  *)
(* whatever job dies, is skipped or is run again, in any number of         *)
(* attempts:                                                               *)
(*                                                                         *)
(*   ShardsQualify    the gate passes when every framework test passed     *)
(*   BrowserQualifies the publisher runs when every browser test passed    *)
(*                    against the bytes it publishes                       *)
(*   PlansAreValid    a plan gives each test one shard, leaves none empty  *)
(*                    and spreads the weight                               *)
(*   DocumentsStayExact   a documentation-only change leaves every fenced  *)
(*                    block                                                *)
(*   InventoryStaysExact  an accepted inventory is what Dune's runtest     *)
(*                    reaches                                              *)
(*                                                                         *)
(* An upload outlives the attempt that made it, so each invariant says     *)
(* which results the uploads of today still stand for.  A document is      *)
(* settled by a simulation: whatever the length of it is, a reader of what *)
(* the scanner keeps stands where a reader of the document stands.  A plan *)
(* is settled by induction over the sets of aliases that are assigned, and *)
(* the inventory over the names that are active and the steps Dune takes.  *)
(***************************************************************************)
EXTENDS MCPolicy, TLAPS, WellFoundedInduction, SequenceTheorems,
        FiniteSetTheorems

(* FrameworkShards *)

\* A job that has succeeded tested the aliases of its shard, and no later execution
\* failed one of them; a gate that passes has seen every job succeed on a partition.
ShardsInv ==
  /\ plan = NoPlan => \A j \in Jobs : job[j] = "waiting"
  /\ plan # NoPlan => ValidPlan(plan)
  /\ job = [j \in Jobs |-> job[j]]
  /\ \A s \in Shards : job[s] = "success" => \A a \in plan[s] : last[a] = "pass"
  /\ gate = "pass" => ValidPlan(plan) /\ \A j \in Jobs : job[j] = "success"
  /\ gate # "none" => \A j \in Jobs : job[j] \in {"success", "failure"}

\* A shard is a job, and another job than the end-to-end one.
LEMMA ShardJobs == Shards \subseteq Jobs /\ E2E \in Jobs /\ E2E \notin Shards
BY ShardsAssumption DEF Jobs, Shards, E2E

\* Nothing is planned and no job has run.
LEMMA ShardsInit == Init => ShardsInv
<1> SUFFICES ASSUME Init PROVE ShardsInv
  OBVIOUS
<1>1. \A j \in Jobs : job[j] = "waiting"
  BY DEF Init
<1> QED BY <1>1, ShardJobs DEF Init, ShardsInv

\* An alias is in one shard.
LEMMA OneShard ==
  ASSUME NEW p, ValidPlan(p), NEW s \in Shards, NEW t \in Shards, s # t, NEW a \in p[s]
  PROVE  a \notin p[t]
<1>1. p[s] \cap p[t] = {}
  BY DEF ValidPlan
<1> QED BY <1>1

\* A running job means that there is a plan, and that the gate has not run.
LEMMA Running ==
  ASSUME ShardsInv, NEW j \in Jobs, job[j] \notin {"waiting", "success", "failure"}
  PROVE  plan # NoPlan /\ ValidPlan(plan) /\ gate = "none"
BY DEF ShardsInv

\* Every step keeps the invariant: a failed alias is in one shard only, whose job
\* fails with it.
LEMMA ShardsStep == ShardsInv /\ [Next]_vars => ShardsInv'
<1> SUFFICES ASSUME ShardsInv, [Next]_vars PROVE ShardsInv'
  OBVIOUS
<1>1. CASE UNCHANGED vars
  BY <1>1 DEF vars, ShardsInv, ValidPlan
<1>2. CASE Plan
  <2>1. \A s \in Shards : job[s] # "success"
    BY <1>2, ShardJobs DEF Plan, ShardsInv
  <2>2. gate = "none"
    BY <1>2, ShardJobs DEF Plan, ShardsInv
  <2>3. ValidPlan(plan')
    BY <1>2 DEF Plan
  <2>4. plan' # NoPlan
    <3>1. \E s \in Shards : TRUE
      BY ShardsAssumption DEF Shards
    <3> QED BY <2>3, <3>1 DEF ValidPlan, NoPlan
  <2>5. job' = job /\ last' = last /\ gate' = gate
    BY <1>2 DEF Plan
  <2> QED BY <2>1, <2>2, <2>3, <2>4, <2>5 DEF ShardsInv, ValidPlan
<1>3. ASSUME NEW j \in Jobs, Start(j) PROVE ShardsInv'
  <2>1. /\ job[j] = "waiting" /\ plan # NoPlan /\ job' = [job EXCEPT ![j] = "running"]
        /\ plan' = plan /\ last' = last /\ gate' = gate
    BY <1>3 DEF Start
  <2>2. gate = "none"
    BY <2>1 DEF ShardsInv
  <2>3. \A s \in Shards : job'[s] = "success" => job[s] = "success"
    BY <2>1, ShardJobs DEF ShardsInv
  <2>4. job' = [i \in Jobs |-> job'[i]]
    BY <2>1 DEF ShardsInv
  <2> QED BY <2>1, <2>2, <2>3, <2>4 DEF ShardsInv, ValidPlan
<1>4. ASSUME NEW s \in Shards, NEW failed \in AtMostOne(plan[s]), Finish(s, failed)
      PROVE ShardsInv'
  <2>1. /\ job[s] = "running" /\ plan' = plan /\ gate' = gate
        /\ job' = [job EXCEPT ![s] = IF failed = {} THEN "success" ELSE "failure"]
        /\ last' = [a \in Aliases |-> IF a \in failed THEN "fail"
                                      ELSE IF a \in plan[s] /\ failed = {} THEN "pass"
                                      ELSE last[a]]
    BY <1>4 DEF Finish, Command
  <2>2. plan # NoPlan /\ ValidPlan(plan) /\ gate = "none"
    BY <2>1, Running, ShardJobs
  <2>3. failed \subseteq plan[s]
    BY DEF AtMostOne
  <2>4. ASSUME NEW t \in Shards, job'[t] = "success", NEW a \in plan[t] PROVE last'[a] = "pass"
    <3>1. a \in Aliases
      BY <2>2 DEF ValidPlan
    <3>2. CASE t = s
      BY <2>1, <2>3, <2>4, <3>1, <3>2, ShardJobs DEF ShardsInv
    <3>3. CASE t # s
      <4>1. job[t] = "success"
        BY <2>1, <2>4, <3>3, ShardJobs DEF ShardsInv
      <4>2. a \notin plan[s]
        BY <2>2, <3>3, OneShard
      <4> QED BY <4>1, <4>2, <2>1, <2>3, <3>1 DEF ShardsInv
    <3> QED BY <3>2, <3>3
  <2>5. job' = [i \in Jobs |-> job'[i]]
    BY <2>1 DEF ShardsInv
  <2>6. ValidPlan(plan') /\ plan' # NoPlan /\ gate' = "none"
    BY <2>1, <2>2
  <2> QED BY <2>1, <2>4, <2>5, <2>6 DEF ShardsInv
<1>5. ASSUME NEW j \in Jobs, NEW failed, Die(j, failed),
             failed = {} \/ (j \in Shards /\ failed \subseteq plan[j])
      PROVE ShardsInv'
  <2>1. /\ job[j] = "running" /\ plan' = plan /\ gate' = gate
        /\ job' = [job EXCEPT ![j] = "failure"]
        /\ last' = [a \in Aliases |-> IF a \in failed THEN "fail" ELSE last[a]]
    BY <1>5 DEF Die
  <2>2. plan # NoPlan /\ ValidPlan(plan) /\ gate = "none"
    BY <2>1, Running
  <2>3. ASSUME NEW t \in Shards, job'[t] = "success", NEW a \in plan[t] PROVE last'[a] = "pass"
    <3>1. a \in Aliases
      BY <2>2 DEF ValidPlan
    <3>2. t # j /\ job[t] = "success"
      BY <2>1, <2>3, ShardJobs DEF ShardsInv
    <3>3. a \notin failed
      BY <1>5, <2>2, <3>2, OneShard
    <3> QED BY <2>1, <3>1, <3>2, <3>3 DEF ShardsInv
  <2>4. job' = [i \in Jobs |-> job'[i]]
    BY <2>1 DEF ShardsInv
  <2>5. ValidPlan(plan') /\ plan' # NoPlan /\ gate' = "none"
    BY <2>1, <2>2
  <2> QED BY <2>1, <2>3, <2>4, <2>5 DEF ShardsInv
<1>6. CASE FinishE2E
  <2>1. /\ job[E2E] = "running" /\ job' = [job EXCEPT ![E2E] = "success"]
        /\ plan' = plan /\ gate' = gate /\ last' = last
    BY <1>6 DEF FinishE2E
  <2>2. plan # NoPlan /\ ValidPlan(plan) /\ gate = "none"
    BY <2>1, Running, ShardJobs
  <2>3. \A s \in Shards : job'[s] = job[s]
    BY <2>1, ShardJobs DEF ShardsInv
  <2>4. job' = [i \in Jobs |-> job'[i]]
    BY <2>1 DEF ShardsInv
  <2> QED BY SMTT(60), <2>1, <2>2, <2>3, <2>4 DEF ShardsInv, ValidPlan
<1>7. CASE Gate
  BY <1>7 DEF Gate, MatrixSucceeded, Qualify, ShardsInv, ValidPlan
<1>8. CASE Rerun
  <2>1. PICK all \in BOOLEAN :
          job' = [j \in Jobs |-> IF all \/ job[j] = "failure" THEN "waiting" ELSE job[j]]
    BY <1>8 DEF Rerun
  <2>2. plan' = plan /\ last' = last /\ gate' = "none"
    BY <1>8 DEF Rerun
  <2>3. \A j \in Jobs : job'[j] \in {"waiting", job[j]}
    BY <2>1
  <2>4. job' = [j \in Jobs |-> job'[j]]
    BY <2>1
  <2> QED BY <2>2, <2>3, <2>4, ShardJobs DEF ShardsInv, ValidPlan
<1>9. \A s \in Shards : \A failed \in AtMostOne(plan[s]) : failed \subseteq plan[s]
  BY DEF AtMostOne
<1> QED
  BY <1>1, <1>2, <1>3, <1>4, <1>5, <1>6, <1>7, <1>8, <1>9, ShardJobs DEF Next

(* BrowserShards *)

\* The browser job of shard i has run to its end on the site that is retained now, and
\* its report says what it did.
Tested(i) ==
  /\ result["website"] = "success"
  /\ executed[i] = shardReports[i] /\ executed[i].bytes = build.bytes
  /\ \A t \in DOMAIN executed[i].outcome : executed[i].outcome[t] \in {"passed", "skipped"}

\* What each success still stands for, after any reruns.
BrowserInv ==
  /\ result = [j \in Browser!Jobs |-> result[j]]
  /\ executed = [i \in Browser!Shards |-> executed[i]]
  /\ shardReports = [i \in Browser!Shards |-> shardReports[i]]
  /\ result["website"] = "success" => build.tests = BrowserTests
  /\ \A i \in Browser!Shards : result[Browser!BrowserJob(i)] = "success" => Tested(i)
  /\ result["qualification"] = "success" =>
       /\ result["website"] = "success"
       /\ \A i \in Browser!Shards : result[Browser!BrowserJob(i)] # "pending"
       /\ Browser!QualifyBrowserShards(build.tests)
       /\ Browser!Succeeded(Browser!BrowserJobs) => release = Browser!Evidence
  /\ result["gate"] = "success" => Browser!Succeeded(Browser!Jobs \ {"gate", "publish"})

\* The two shards have a job each.
LEMMA TwoShards ==
  /\ Browser!Shards = {1, 2}
  /\ Browser!BrowserJob(1) = "browser1" /\ Browser!BrowserJob(2) = "browser2"
  /\ Browser!BrowserJobs = {"browser1", "browser2"}
  /\ Browser!BrowserJobs \subseteq Browser!Jobs
<1>1. Browser!Shards = {1, 2}
  BY DEF Browser!Shards
<1> QED BY <1>1 DEF Browser!BrowserJob, Browser!BrowserJobs, Browser!Jobs

\* Every job is pending.
LEMMA BrowserInit == Browser!Init => BrowserInv
BY TwoShards DEF Browser!Init, BrowserInv, Browser!Jobs

\* What does not change does not change what the reports prove.
LEMMA SameUploads ==
  ASSUME UNCHANGED <<build, shardReports, release>>
  PROVE  /\ (Browser!QualifyBrowserShards(build.tests))'
              <=> Browser!QualifyBrowserShards(build.tests)
         /\ (release = Browser!Evidence)' <=> release = Browser!Evidence
BY DEF Browser!QualifyBrowserShards, Browser!CheckIdentity, Browser!Evidence

\* A change of the results that keeps each success, or takes those that rest on it too.
LEMMA ResultsKept ==
  ASSUME BrowserInv, UNCHANGED <<build, shardReports, release, executed>>,
         result' = [j \in Browser!Jobs |-> result'[j]],
         \A j \in Browser!Jobs \ {"publish"} : result'[j] = "success" => result[j] = "success",
         \/ \A j \in {"website"} \cup Browser!BrowserJobs : result'[j] = result[j]
         \/ result'["qualification"] # "success" /\ result'["gate"] # "success",
         \/ result'["website"] = result["website"]
         \/ \A j \in Browser!BrowserJobs : result'[j] # "success",
         result'["qualification"] = result["qualification"] \/ result'["gate"] # "success"
  PROVE  BrowserInv'
<1>1. \A j \in {"website", "browser1", "browser2", "qualification", "gate"} :
        result'[j] = "success" => result[j] = "success"
  BY DEF Browser!Jobs
<1>2. \A i \in Browser!Shards : result'[Browser!BrowserJob(i)] = "success" => Tested(i)'
  <2>1. ASSUME NEW i \in Browser!Shards, result'[Browser!BrowserJob(i)] = "success"
        PROVE Tested(i)'
    <3>1. Browser!BrowserJob(i) \in Browser!BrowserJobs /\ result[Browser!BrowserJob(i)] = "success"
      BY <1>1, <2>1, TwoShards
    <3>2. Tested(i) /\ result'["website"] = result["website"]
      BY <2>1, <3>1 DEF BrowserInv
    <3> QED BY <3>2 DEF Tested
  <2> QED BY <2>1
<1>3. result'["qualification"] = "success" =>
       /\ result'["website"] = "success"
       /\ \A i \in Browser!Shards : result'[Browser!BrowserJob(i)] # "pending"
       /\ Browser!QualifyBrowserShards(build.tests)'
       /\ Browser!Succeeded(Browser!BrowserJobs)' => (release = Browser!Evidence)'
  <2>1. SUFFICES ASSUME result'["qualification"] = "success"
        PROVE  /\ result'["website"] = "success"
               /\ \A i \in Browser!Shards : result'[Browser!BrowserJob(i)] # "pending"
               /\ Browser!QualifyBrowserShards(build.tests)'
               /\ Browser!Succeeded(Browser!BrowserJobs)' => (release = Browser!Evidence)'
    OBVIOUS
  <2>2. \A j \in {"website", "browser1", "browser2"} : result'[j] = result[j]
    BY <2>1, TwoShards
  <2>3. Browser!Succeeded(Browser!BrowserJobs)' <=> Browser!Succeeded(Browser!BrowserJobs)
    BY <2>2, TwoShards DEF Browser!Succeeded
  <2>4. /\ result["website"] = "success"
        /\ \A i \in Browser!Shards : result[Browser!BrowserJob(i)] # "pending"
        /\ Browser!QualifyBrowserShards(build.tests)
        /\ Browser!Succeeded(Browser!BrowserJobs) => release = Browser!Evidence
    BY <1>1, <2>1 DEF BrowserInv
  <2> QED BY <2>2, <2>3, <2>4, TwoShards, SameUploads
<1>4. result'["gate"] = "success" => Browser!Succeeded(Browser!Jobs \ {"gate", "publish"})'
  <2>1. SUFFICES ASSUME result'["gate"] = "success"
        PROVE  Browser!Succeeded(Browser!Jobs \ {"gate", "publish"})'
    OBVIOUS
  <2>2. \A j \in {"website", "browser1", "browser2", "qualification"} : result'[j] = result[j]
    BY <2>1, TwoShards
  <2>3. \A j \in {"website", "browser1", "browser2", "qualification"} : result[j] = "success"
    BY <1>1, <2>1 DEF BrowserInv, Browser!Succeeded, Browser!Jobs
  <2> QED BY <2>2, <2>3 DEF Browser!Succeeded, Browser!Jobs
<1> QED BY <1>1, <1>2, <1>3, <1>4 DEF BrowserInv

\* A job's end changes no other result.
LEMMA OneEnds ==
  ASSUME BrowserInv, NEW j \in Browser!Jobs, NEW r, Browser!Ends(j, r)
  PROVE  /\ result' = [k \in Browser!Jobs |-> result'[k]]
         /\ result'[j] = r /\ \A k \in Browser!Jobs \ {j} : result'[k] = result[k]
BY DEF BrowserInv, Browser!Ends

\* A pending job that ends otherwise than in success.
LEMMA PendingEnds ==
  ASSUME BrowserInv, NEW j \in Browser!Jobs, NEW r, r # "success", result[j] = "pending",
         Browser!Ends(j, r), UNCHANGED <<build, shardReports, release, executed>>
  PROVE  BrowserInv'
<1>1. /\ result' = [k \in Browser!Jobs |-> result'[k]]
      /\ result'[j] = r /\ \A k \in Browser!Jobs \ {j} : result'[k] = result[k]
  BY OneEnds
<1>2. \A k \in Browser!Jobs \ {"publish"} : result'[k] = "success" => result[k] = "success"
  BY <1>1
<1>3. CASE j \in {"gate", "publish"}
  <2>1. \A k \in {"website", "qualification"} \cup Browser!BrowserJobs : result'[k] = result[k]
    BY <1>1, <1>3, TwoShards DEF Browser!Jobs
  <2> QED BY <1>1, <1>2, <2>1, ResultsKept
<1>4. CASE j \in {"website", "qualification"} \cup Browser!BrowserJobs
  <2>1. result["gate"] # "success" /\ result'["gate"] # "success"
    BY <1>1, <1>4, TwoShards DEF BrowserInv, Browser!Succeeded, Browser!Jobs
  <2>2. CASE j = "qualification"
    BY <1>1, <1>2, <2>1, <2>2, TwoShards, ResultsKept DEF Browser!Jobs
  <2>3. CASE j # "qualification"
    <3>1. result["qualification"] # "success" /\ result'["qualification"] # "success"
      BY <1>1, <1>4, <2>3, TwoShards DEF BrowserInv, Browser!Jobs
    <3>2. CASE j = "website"
      <4>1. \A k \in Browser!BrowserJobs : result'[k] # "success"
        BY <1>1, <3>2, TwoShards DEF BrowserInv, Tested, Browser!Jobs
      <4> QED BY <1>1, <1>2, <2>1, <3>1, <4>1, ResultsKept
    <3>3. CASE j # "website"
      <4>1. result'["website"] = result["website"]
        BY <1>1, <3>3 DEF Browser!Jobs
      <4> QED BY <1>1, <1>2, <2>1, <3>1, <4>1, ResultsKept
    <3> QED BY <3>2, <3>3
  <2> QED BY <2>2, <2>3
<1> QED BY <1>3, <1>4, TwoShards DEF Browser!Jobs

\* A shard runs: its job was pending, so that nothing rested on it.
LEMMA RunShardStep ==
  ASSUME BrowserInv, NEW i \in Browser!Shards, Browser!RunShard(i)
  PROVE  BrowserInv'
<1> DEFINE j == Browser!BrowserJob(i)
<1>1. /\ result[j] = "pending" /\ result["website"] = "success"
      /\ build' = build /\ release' = release
  BY DEF Browser!RunShard
<1>2. j \in Browser!Jobs /\ j \in {"browser1", "browser2"}
  BY TwoShards
<1>3. /\ result["qualification"] # "success" /\ result["gate"] # "success"
  BY <1>1, <1>2, TwoShards DEF BrowserInv, Browser!Succeeded, Browser!Jobs
<1>4. PICK missed \in {{}} \cup {{t} : t \in BrowserTests}, served \in Builds :
       \E outcome \in Browser!Outcomes(Browser!Share(BrowserTests \ missed, i)) :
         LET passes == \A t \in DOMAIN outcome : outcome[t] # "failed"
             report == [status |-> IF passes THEN "passed" ELSE "failed",
                        bytes |-> build.bytes, outcome |-> outcome]
         IN /\ executed' = [executed EXCEPT ![i] = [report EXCEPT !.bytes = served]]
            /\ \/ /\ shardReports' = [shardReports EXCEPT ![i] = report]
                  /\ Browser!Ends(j, IF passes /\ served = build.bytes
                                     THEN "success" ELSE "failure")
               \/ UNCHANGED shardReports /\ Browser!Ends(j, "failure")
  BY DEF Browser!RunShard
<1>5. PICK outcome \in Browser!Outcomes(Browser!Share(BrowserTests \ missed, i)) :
         LET passes == \A t \in DOMAIN outcome : outcome[t] # "failed"
             report == [status |-> IF passes THEN "passed" ELSE "failed",
                        bytes |-> build.bytes, outcome |-> outcome]
         IN /\ executed' = [executed EXCEPT ![i] = [report EXCEPT !.bytes = served]]
            /\ \/ /\ shardReports' = [shardReports EXCEPT ![i] = report]
                  /\ Browser!Ends(j, IF passes /\ served = build.bytes
                                     THEN "success" ELSE "failure")
               \/ UNCHANGED shardReports /\ Browser!Ends(j, "failure")
  BY <1>4
<1> DEFINE passes == \A t \in DOMAIN outcome : outcome[t] # "failed"
<1> DEFINE report == [status |-> IF passes THEN "passed" ELSE "failed",
                      bytes |-> build.bytes, outcome |-> outcome]
<1>6. \A t \in DOMAIN outcome : outcome[t] \in {"passed", "failed", "skipped"}
  BY <1>5 DEF Browser!Outcomes
<1>7. executed' = [executed EXCEPT ![i] = [report EXCEPT !.bytes = served]]
  BY <1>5
<1>8. \/ /\ shardReports' = [shardReports EXCEPT ![i] = report]
         /\ Browser!Ends(j, IF passes /\ served = build.bytes THEN "success" ELSE "failure")
      \/ UNCHANGED shardReports /\ Browser!Ends(j, "failure")
  BY <1>5
<1>9. report.outcome = outcome /\ report.bytes = build.bytes
  OBVIOUS
<1>10. [report EXCEPT !.bytes = served].outcome = outcome
  BY <1>9
<1>11. served = build.bytes => [report EXCEPT !.bytes = served] = report
  BY <1>9
<1> HIDE DEF report, passes
<1>12. PICK r \in {"success", "failure"} :
         /\ Browser!Ends(j, r)
         /\ r = "success" => /\ shardReports' = [shardReports EXCEPT ![i] = report]
                             /\ passes /\ served = build.bytes
  BY <1>8
<1>13. /\ result' = [k \in Browser!Jobs |-> result'[k]]
       /\ result'[j] = r /\ \A k \in Browser!Jobs \ {j} : result'[k] = result[k]
  BY <1>2, <1>12, OneEnds
<1>14. /\ result'["website"] = "success" /\ result'["qualification"] # "success"
       /\ result'["gate"] # "success"
  BY <1>1, <1>2, <1>3, <1>13 DEF Browser!Jobs
<1>15. ASSUME NEW k \in Browser!Shards, result'[Browser!BrowserJob(k)] = "success"
       PROVE Tested(k)'
  <2>1. CASE k = i
    <3>1. executed'[i] = report /\ shardReports'[i] = report /\ passes
      BY <1>7, <1>11, <1>12, <1>13, <1>15, <2>1 DEF BrowserInv
    <3> QED BY <1>1, <1>6, <1>9, <1>14, <2>1, <3>1 DEF Tested, passes
  <2>2. CASE k # i
    <3>1. Browser!BrowserJob(k) # j /\ Browser!BrowserJob(k) \in Browser!Jobs
      BY <2>2, TwoShards
    <3>2. Tested(k)
      BY <1>13, <1>15, <3>1 DEF BrowserInv
    <3>3. executed'[k] = executed[k] /\ shardReports'[k] = shardReports[k]
      BY <1>7, <1>8, <2>2 DEF BrowserInv
    <3> QED BY <1>1, <1>14, <3>2, <3>3 DEF Tested
  <2> QED BY <2>1, <2>2
<1>16. /\ executed' = [k \in Browser!Shards |-> executed'[k]]
       /\ shardReports' = [k \in Browser!Shards |-> shardReports'[k]]
  BY <1>7, <1>8 DEF BrowserInv
<1>17. build'.tests = BrowserTests
  BY <1>1 DEF BrowserInv
<1> QED BY <1>13, <1>14, <1>15, <1>16, <1>17 DEF BrowserInv

\* A rerun takes with a job whatever needs it.
LEMMA RerunStep == ASSUME BrowserInv, Browser!Rerun PROVE BrowserInv'
<1>1. PICK again : result' = [j \in Browser!Jobs |->
            IF \E k \in again : j \in Browser!After(k) THEN "pending" ELSE result[j]]
  BY DEF Browser!Rerun
<1>2. UNCHANGED <<build, shardReports, release, executed>>
  BY DEF Browser!Rerun, Browser!uploads
<1> DEFINE taken(j) == \E k \in again : j \in Browser!After(k)
<1>3. \A j \in Browser!Jobs : result'[j] = IF taken(j) THEN "pending" ELSE result[j]
  BY <1>1
<1>4. /\ taken("website") => \A j \in Browser!Jobs : taken(j)
      /\ \A j \in Browser!BrowserJobs : taken(j) => taken("qualification") /\ taken("gate")
      /\ taken("qualification") => taken("gate")
  BY TwoShards DEF Browser!After, Browser!Jobs
<1> HIDE DEF taken
<1>5. {"website", "browser1", "browser2", "qualification", "gate"} \subseteq Browser!Jobs
  BY DEF Browser!Jobs
<1>6. result' = [j \in Browser!Jobs |-> result'[j]]
  BY <1>1
<1>7. \A j \in Browser!Jobs \ {"publish"} : result'[j] = "success" => result[j] = "success"
  BY <1>3
<1>8. \/ \A j \in {"website"} \cup Browser!BrowserJobs : result'[j] = result[j]
      \/ result'["qualification"] # "success" /\ result'["gate"] # "success"
  BY <1>3, <1>4, <1>5, TwoShards
<1>9. \/ result'["website"] = result["website"]
      \/ \A j \in Browser!BrowserJobs : result'[j] # "success"
  BY <1>3, <1>4, <1>5, TwoShards
<1>10. result'["qualification"] = result["qualification"] \/ result'["gate"] # "success"
  BY <1>3, <1>4, <1>5
<1> QED BY <1>2, <1>6, <1>7, <1>8, <1>9, <1>10, ResultsKept

\* Every step keeps the invariant.
LEMMA BrowserStep == BrowserInv /\ [Browser!Next]_(Browser!vars) => BrowserInv'
<1> SUFFICES ASSUME BrowserInv, [Browser!Next]_(Browser!vars) PROVE BrowserInv'
  OBVIOUS
<1> USE DEF Browser!uploads
<1>1. CASE UNCHANGED Browser!vars
  <2>1. result' = result /\ UNCHANGED <<build, shardReports, release, executed>>
    BY <1>1 DEF Browser!vars
  <2>2. result' = [j \in Browser!Jobs |-> result'[j]]
    BY <2>1 DEF BrowserInv
  <2> QED BY <2>1, <2>2, ResultsKept
<1>2. CASE Browser!Website
  <2>1. /\ result["website"] = "pending" /\ Browser!Ends("website", "success")
        /\ build'.tests = BrowserTests
        /\ UNCHANGED <<shardReports, release, executed>>
    BY <1>2 DEF Browser!Website
  <2>2. "website" \in Browser!Jobs
    BY DEF Browser!Jobs
  <2>3. /\ result' = [k \in Browser!Jobs |-> result'[k]]
        /\ \A k \in Browser!Jobs \ {"website"} : result'[k] = result[k]
    BY <2>1, <2>2, OneEnds
  <2>4. /\ \A i \in Browser!Shards : result'[Browser!BrowserJob(i)] # "success"
        /\ result'["qualification"] # "success" /\ result'["gate"] # "success"
    BY <2>1, <2>3, TwoShards DEF BrowserInv, Tested, Browser!Succeeded, Browser!Jobs
  <2> QED BY <2>1, <2>3, <2>4 DEF BrowserInv
<1>3. CASE Browser!Qualify
  <2>1. /\ result["qualification"] = "pending" /\ result["website"] = "success"
        /\ Browser!Done(Browser!BrowserJobs)
        /\ UNCHANGED <<build, shardReports, executed>>
    BY <1>3 DEF Browser!Qualify
  <2>2. "qualification" \in Browser!Jobs
    BY DEF Browser!Jobs
  <2>3. CASE Browser!QualifyBrowserShards(build.tests)
    <3>1. /\ release' = IF Browser!Succeeded(Browser!BrowserJobs) THEN Browser!Evidence ELSE release
          /\ Browser!Ends("qualification", "success")
      BY <1>3, <2>3 DEF Browser!Qualify
    <3>2. /\ result' = [k \in Browser!Jobs |-> result'[k]]
          /\ \A k \in Browser!Jobs \ {"qualification"} : result'[k] = result[k]
      BY <2>2, <3>1, OneEnds
    <3>3. /\ \A k \in {"website", "browser1", "browser2", "gate"} : result'[k] = result[k]
          /\ result["gate"] # "success"
      BY <2>1, <3>2 DEF BrowserInv, Browser!Succeeded, Browser!Jobs
    <3>4. \A i \in Browser!Shards : result'[Browser!BrowserJob(i)] = result[Browser!BrowserJob(i)]
      BY <3>3, TwoShards
    <3>5. \A i \in Browser!Shards : result'[Browser!BrowserJob(i)] = "success" => Tested(i)'
      BY <2>1, <3>3, <3>4 DEF BrowserInv, Tested
    <3>6. \A i \in Browser!Shards : result'[Browser!BrowserJob(i)] # "pending"
      BY <2>1, <3>4, TwoShards DEF Browser!Done
    <3>7. Browser!Succeeded(Browser!BrowserJobs)' <=> Browser!Succeeded(Browser!BrowserJobs)
      BY <3>3, TwoShards DEF Browser!Succeeded
    <3>8. Browser!Evidence' = Browser!Evidence
      BY <2>1 DEF Browser!Evidence
    <3>9. Browser!QualifyBrowserShards(build.tests)'
      BY <2>1, <2>3 DEF Browser!QualifyBrowserShards, Browser!CheckIdentity
    <3>10. /\ executed' = [i \in Browser!Shards |-> executed'[i]]
           /\ shardReports' = [i \in Browser!Shards |-> shardReports'[i]]
           /\ build'.tests = BrowserTests
      BY <2>1 DEF BrowserInv
    <3> QED BY <2>1, <3>1, <3>2, <3>3, <3>5, <3>6, <3>7, <3>8, <3>9, <3>10 DEF BrowserInv
  <2>4. CASE ~Browser!QualifyBrowserShards(build.tests)
    BY <1>3, <2>1, <2>2, <2>4, PendingEnds DEF Browser!Qualify
  <2> QED BY <2>3, <2>4
<1>4. CASE Browser!Gate
  <2> DEFINE needs == Browser!Jobs \ {"gate", "publish"}
  <2>1. /\ result["gate"] = "pending" /\ UNCHANGED <<build, shardReports, release, executed>>
        /\ Browser!Ends("gate", IF Browser!Succeeded(needs) THEN "success" ELSE "failure")
    BY <1>4 DEF Browser!Gate
  <2>2. "gate" \in Browser!Jobs
    BY DEF Browser!Jobs
  <2>3. CASE ~Browser!Succeeded(needs)
    BY <2>1, <2>2, <2>3, PendingEnds
  <2>4. CASE Browser!Succeeded(needs)
    <3>1. /\ result' = [k \in Browser!Jobs |-> result'[k]]
          /\ \A k \in Browser!Jobs \ {"gate"} : result'[k] = result[k]
      BY <2>1, <2>2, OneEnds
    <3>2. Browser!Succeeded(Browser!Jobs \ {"gate", "publish"})'
      BY <2>4, <3>1 DEF Browser!Succeeded
    <3>3. \A k \in {"website", "browser1", "browser2", "qualification"} : result'[k] = result[k]
      BY <3>1 DEF Browser!Jobs
    <3>4. \A i \in Browser!Shards : result'[Browser!BrowserJob(i)] = result[Browser!BrowserJob(i)]
      BY <3>3, TwoShards
    <3>5. \A i \in Browser!Shards : Tested(i)' <=> Tested(i)
      BY <2>1, <3>3 DEF Tested
    <3>6. Browser!Succeeded(Browser!BrowserJobs)' <=> Browser!Succeeded(Browser!BrowserJobs)
      BY <3>3, TwoShards DEF Browser!Succeeded
    <3> QED BY <2>1, <3>1, <3>2, <3>3, <3>4, <3>5, <3>6, SameUploads DEF BrowserInv
  <2> QED BY <2>3, <2>4
<1>5. CASE Browser!Publish
  <2>1. /\ UNCHANGED <<build, shardReports, release, executed>>
        /\ \E r : Browser!Ends("publish", r)
    BY <1>5 DEF Browser!Publish
  <2>2. "publish" \in Browser!Jobs
    BY DEF Browser!Jobs
  <2>3. /\ result' = [k \in Browser!Jobs |-> result'[k]]
        /\ \A k \in Browser!Jobs \ {"publish"} : result'[k] = result[k]
    BY <2>1, <2>2, OneEnds
  <2>4. \A k \in {"website", "browser1", "browser2", "qualification", "gate"} :
          result'[k] = result[k]
    BY <2>3 DEF Browser!Jobs
  <2> QED BY <2>1, <2>3, <2>4, TwoShards, ResultsKept
<1>6. CASE Browser!Rerun
  BY <1>6, RerunStep
<1>7. ASSUME NEW i \in Browser!Shards, Browser!RunShard(i) PROVE BrowserInv'
  BY <1>7, RunShardStep
<1>8. ASSUME NEW j \in Browser!Jobs, Browser!Skip(j) PROVE BrowserInv'
  BY <1>8, PendingEnds DEF Browser!Skip
<1>9. ASSUME NEW j \in Browser!Jobs, Browser!Dies(j) PROVE BrowserInv'
  BY <1>9, PendingEnds DEF Browser!Dies
<1> QED BY <1>1, <1>2, <1>3, <1>4, <1>5, <1>6, <1>7, <1>8, <1>9 DEF Browser!Next

(* The partition of FrameworkShards *)

Precedes == {p \in Nat \X Nat : p[1] < p[2]}

\* Induction, over a set.
LEMMA NatSetInduction ==
  ASSUME NEW S, 0 \in S, \A n \in Nat : n \in S => n + 1 \in S
  PROVE  Nat \subseteq S
<1> SUFFICES ASSUME Nat \ S # {} PROVE FALSE
  OBVIOUS
<1>1. IsWellFoundedOn(Precedes, Nat)
  BY NatLessThanWellFounded DEF OpToRel, Precedes
<1>2. PICK x \in Nat \ S : \A y \in Nat \ S : ~(<<y, x>> \in Precedes)
  BY <1>1, WFMin
<1>3. x # 0 /\ x - 1 \in Nat /\ (x - 1) + 1 = x
  OBVIOUS
<1>4. x - 1 \notin S
  BY <1>2, <1>3
<1>5. <<x - 1, x>> \in Precedes
  BY <1>3 DEF Precedes
<1> QED BY <1>2, <1>3, <1>4, <1>5

\* The instance counts as the library does.
LEMMA Counted == \A S : Plans!Cardinality(S) = Cardinality(S)
BY DEF Cardinality, Plans!Cardinality

\* The weights of the inventory.
Weighed == weights \in [Plans!Aliases -> Nat]

\* The order has a last alias in every set.
LEMMA LightestIs ==
  ASSUME Weighed, NEW T \in SUBSET Plans!Aliases, T # {}
  PROVE  Plans!Lightest(T) \in T /\ \A b \in T :
          b = Plans!Lightest(T) \/ Plans!Heavier(b, Plans!Lightest(T))
<1> DEFINE LastOf(U, a) == a \in U /\ \A b \in U : b = a \/ Plans!Heavier(b, a)
           S == {m \in Nat : \A U \in SUBSET Plans!Aliases :
                               U \subseteq 1..m /\ U # {} => \E a : LastOf(U, a)}
<1>1. 0 \in S
  OBVIOUS
<1>2. ASSUME NEW m \in Nat, m \in S PROVE m + 1 \in S
  <2> SUFFICES ASSUME NEW U \in SUBSET Plans!Aliases, U \subseteq 1..(m + 1), U # {}
               PROVE  \E a : LastOf(U, a)
    OBVIOUS
  <2>1. U \ {m + 1} \subseteq 1..m /\ U \ {m + 1} \in SUBSET Plans!Aliases
    OBVIOUS
  <2>2. CASE U \ {m + 1} = {}
    <3>1. LastOf(U, m + 1)
      BY <2>2
    <3> QED BY <3>1
  <2>3. CASE m + 1 \notin U
    BY <1>2, <2>1, <2>3
  <2>4. CASE U \ {m + 1} # {} /\ m + 1 \in U
    <3>1. PICK a : LastOf(U \ {m + 1}, a)
      BY <1>2, <2>1, <2>4
    <3>2. a \in Plans!Aliases /\ m + 1 \in Plans!Aliases /\ weights[a] \in Nat
            /\ weights[m + 1] \in Nat
          /\ a \in Nat /\ a < m + 1
      BY <2>1, <2>4, <3>1, PlansAssumption DEF Weighed, Plans!Aliases
    <3>3. CASE Plans!Heavier(a, m + 1)
      <4>1. ASSUME NEW b \in U \ {m + 1} PROVE Plans!Heavier(b, m + 1)
        <5>1. b = a \/ Plans!Heavier(b, a)
          BY <3>1
        <5>2. b \in Nat /\ weights[b] \in Nat
          BY PlansAssumption DEF Weighed, Plans!Aliases
        <5> QED BY <3>2, <3>3, <5>1, <5>2 DEF Plans!Heavier
      <4>2. LastOf(U, m + 1)
        BY <2>4, <4>1
      <4> QED BY <4>2
    <3>4. CASE ~Plans!Heavier(a, m + 1)
      <4>1. Plans!Heavier(m + 1, a)
        BY <3>2, <3>4 DEF Plans!Heavier
      <4>2. LastOf(U, a)
        BY <3>1, <4>1
      <4> QED BY <4>2
    <3> QED BY <3>3, <3>4
  <2> QED BY <2>2, <2>3, <2>4
<1>3. PlanAliases \in S
  <2> HIDE DEF S
  <2> QED BY <1>1, <1>2, NatSetInduction, PlansAssumption
<1>4. \E a : LastOf(T, a)
  BY <1>3 DEF Plans!Aliases
<1>5. \E a \in T : \A b \in T : b = a \/ Plans!Heavier(b, a)
  BY <1>4
<1> QED BY <1>5 DEF Plans!Lightest

\* What is compared of the shards is numbers.
Measured(groups) ==
  \A s \in Plans!Shards : groups[s].weight \in Nat /\ IsFiniteSet(groups[s].aliases)

\* One shard precedes all others.
LEMMA FirstShard ==
  ASSUME NEW groups, Measured(groups)
  PROVE  \E s \in Plans!Shards : \A t \in Plans!Shards : Plans!Lighter(groups, s, t)
<1> DEFINE size(u) == Cardinality(groups[u].aliases)
           S == {m \in Nat : m < PlanShards =>
                   \E s \in 1..(m + 1) : \A t \in 1..(m + 1) : Plans!Lighter(groups, s, t)}
<1>1. \A s \in Plans!Shards : groups[s].weight \in Nat /\ size(s) \in Nat /\ s \in Nat
  BY FS_CardinalityType, PlansAssumption DEF Measured, Plans!Shards
<1>2. \A s, t, u \in Plans!Shards :
        /\ Plans!Lighter(groups, s, s)
        /\ Plans!Lighter(groups, s, t) \/ Plans!Lighter(groups, t, s)
        /\ Plans!Lighter(groups, s, t) /\ Plans!Lighter(groups, t, u) => Plans!Lighter(groups, s, u)
  <2> SUFFICES ASSUME NEW s \in Plans!Shards, NEW t \in Plans!Shards, NEW u \in Plans!Shards
               PROVE /\ Plans!Lighter(groups, s, s)
                     /\ Plans!Lighter(groups, s, t) \/ Plans!Lighter(groups, t, s)
                     /\ Plans!Lighter(groups, s, t) /\ Plans!Lighter(groups, t, u)
                          => Plans!Lighter(groups, s, u)
    OBVIOUS
  <2>1. \A w, v \in {s, t, u} :
          Plans!Lighter(groups, w, v) <=>
            \/ groups[w].weight < groups[v].weight
            \/ /\ groups[w].weight = groups[v].weight
               /\ size(w) < size(v) \/ (size(w) = size(v) /\ w <= v)
    BY Counted DEF Plans!Lighter
  <2> HIDE DEF size
  <2> QED BY <1>1, <2>1
<1>3. 0 \in S
  <2>1. 1 \in Plans!Shards /\ 1..(0 + 1) = {1}
    BY PlansAssumption DEF Plans!Shards
  <2> QED BY <1>2, <2>1
<1>4. ASSUME NEW m \in Nat, m \in S PROVE m + 1 \in S
  <2> SUFFICES ASSUME m + 1 < PlanShards
               PROVE  \E s \in 1..(m + 2) : \A t \in 1..(m + 2) : Plans!Lighter(groups, s, t)
    OBVIOUS
  <2>1. PICK s \in 1..(m + 1) : \A t \in 1..(m + 1) : Plans!Lighter(groups, s, t)
    BY <1>4, PlansAssumption
  <2>2. /\ 1..(m + 2) = (1..(m + 1)) \cup {m + 2} /\ 1..(m + 2) \subseteq Plans!Shards
        /\ s \in Plans!Shards /\ m + 2 \in Plans!Shards
    BY PlansAssumption DEF Plans!Shards
  <2>3. CASE Plans!Lighter(groups, s, m + 2)
    BY <2>1, <2>2, <2>3
  <2>4. CASE Plans!Lighter(groups, m + 2, s)
    <3>1. \A t \in 1..(m + 1) : t \in Plans!Shards /\ Plans!Lighter(groups, m + 2, t)
      BY <1>2, <2>1, <2>2, <2>4
    <3>2. Plans!Lighter(groups, m + 2, m + 2)
      BY <1>2, <2>2
    <3> QED BY <2>2, <3>1, <3>2
  <2> QED BY <1>2, <2>2, <2>3, <2>4
<1>5. PlanShards - 1 \in S
  <2> HIDE DEF S
  <2> QED BY <1>3, <1>4, NatSetInduction, PlansAssumption
<1>6. (PlanShards - 1) + 1 = PlanShards /\ PlanShards - 1 < PlanShards
  BY PlansAssumption
<1> QED BY <1>5, <1>6 DEF Plans!Shards

\* The sum of the weights of a set.
LoadOf(w, U) == Plans!MapThenSumSet(LAMBDA a : w[a], U)
Load(U) == LoadOf(weights, U)

\* A function of the sets of aliases that adds the weights.
Adds(c) ==
  /\ c[{}] = 0
  /\ \A U \in SUBSET Plans!Aliases : c[U] \in Nat /\ \A x \in U : c[U] = weights[x] + c[U \ {x}]

\* There is one: the weights are added alias by alias.
LEMMA AddsExists == ASSUME Weighed PROVE \E c : Adds(c)
<1> DEFINE Upto(c, m) ==
             /\ c[{}] = 0
             /\ \A U \in SUBSET (1..m) : /\ c[U] \in Nat
                                         /\ \A x \in U : c[U] = weights[x] + c[U \ {x}]
           S == {m \in Nat : m <= PlanAliases => \E c : Upto(c, m)}
<1>1. 0 \in S
  <2>1. SUBSET (1..0) = {{}}
    OBVIOUS
  <2>2. Upto([U \in {{}} |-> 0], 0)
    BY <2>1
  <2> QED BY <2>2
<1>2. ASSUME NEW m \in Nat, m \in S PROVE m + 1 \in S
  <2> HIDE DEF Upto
  <2> SUFFICES ASSUME m + 1 <= PlanAliases PROVE \E c : Upto(c, m + 1)
    OBVIOUS
  <2>1. PICK c : Upto(c, m)
    <3>1. m <= PlanAliases
      BY PlansAssumption
    <3> QED BY <1>2, <3>1
  <2> USE DEF Upto
  <2>2. \A x \in 1..(m + 1) : weights[x] \in Nat
    BY PlansAssumption DEF Weighed, Plans!Aliases
  <2> DEFINE T == SUBSET (1..(m + 1))
             d == [U \in T |-> IF m + 1 \in U THEN weights[m + 1] + c[U \ {m + 1}] ELSE c[U]]
  <2>3. \A U \in T : U \ {m + 1} \in SUBSET (1..m)
    OBVIOUS
  <2>4. d[{}] = 0
    BY <2>1
  <2>5. ASSUME NEW U \in T
        PROVE  d[U] \in Nat /\ \A x \in U : d[U] = weights[x] + d[U \ {x}]
    <3>1. CASE m + 1 \notin U
      <4>1. U \in SUBSET (1..m) /\ d[U] = c[U]
        BY <2>3, <3>1
      <4>2. \A x \in U : d[U \ {x}] = c[U \ {x}]
        BY <3>1
      <4> HIDE DEF d
      <4> QED BY <2>1, <4>1, <4>2
    <3>2. CASE m + 1 \in U
      <4> DEFINE V == U \ {m + 1}
      <4>1. V \in SUBSET (1..m) /\ d[U] = weights[m + 1] + c[V] /\ d[V] = c[V]
        BY <2>3, <3>2
      <4>2. ASSUME NEW x \in V
            PROVE /\ d[U \ {x}] = weights[m + 1] + c[V \ {x}]
                  /\ c[V] = weights[x] + c[V \ {x}] /\ c[V \ {x}] \in Nat /\ weights[x] \in Nat
        <5>1. U \ {x} \in T /\ m + 1 \in U \ {x} /\ (U \ {x}) \ {m + 1} = V \ {x}
          BY <3>2
        <5>2. d[U \ {x}] = weights[m + 1] + c[V \ {x}]
          BY <5>1
        <5>3. V \ {x} \in SUBSET (1..m)
          BY <4>1
        <5>4. x \in 1..(m + 1) /\ x \in V
          BY <4>2
        <5> HIDE DEF d, V
        <5>5. c[V] = weights[x] + c[V \ {x}] /\ c[V \ {x}] \in Nat
          BY <2>1, <4>1, <5>3, <5>4
        <5> QED BY <2>2, <5>2, <5>4, <5>5
      <4>3. c[V] \in Nat /\ weights[m + 1] \in Nat
        BY <2>1, <2>2, <4>1
      <4>4. ASSUME NEW x \in V PROVE d[U] = weights[x] + d[U \ {x}]
        <5> HIDE DEF d, V
        <5>1. PICK k, l, e, f, g : /\ k = d[U] /\ l = c[V] /\ e = weights[x]
                                   /\ f = weights[m + 1] /\ g = c[V \ {x}]
          OBVIOUS
        <5>2. k = f + l /\ l = e + g /\ d[U \ {x}] = f + g /\ g \in Nat /\ e \in Nat /\ f \in Nat
          BY <4>1, <4>2, <4>3, <4>4, <5>1
        <5>3. k = e + (f + g)
          BY ONLY <5>2
        <5> QED BY ONLY <5>1, <5>2, <5>3
      <4>5. d[U] = weights[m + 1] + d[U \ {m + 1}]
        BY <4>1
      <4>6. d[U] \in Nat
        <5> HIDE DEF d, V
        <5> QED BY <4>1, <4>3
      <4> HIDE DEF d
      <4> QED BY <4>4, <4>5, <4>6
    <3> QED BY <3>1, <3>2
  <2>6. Upto(d, m + 1)
    <3> HIDE DEF d
    <3> QED BY <2>4, <2>5
  <2> HIDE DEF Upto
  <2> QED BY <2>6
<1>3. PlanAliases \in S
  <2> HIDE DEF S
  <2> QED BY <1>1, <1>2, NatSetInduction, PlansAssumption
<1>4. PICK c : Upto(c, PlanAliases)
  <2> HIDE DEF Upto
  <2> QED BY <1>3, PlansAssumption
<1> QED BY <1>4 DEF Adds, Plans!Aliases

\* The sum is that function, whatever the order in which it adds.
LEMMA LoadAdds ==
  ASSUME Weighed, NEW c, Adds(c), NEW U \in SUBSET Plans!Aliases
  PROVE  Load(U) = c[U]
<1> DEFINE Iterates(g) ==
      g = [s \in SUBSET U |->
             IF s = {} THEN 0 ELSE weights[CHOOSE x \in s : TRUE] + g[s \ {CHOOSE x \in s : TRUE}]]
<1>1. Iterates([s \in SUBSET U |-> c[s]])
  <2> DEFINE d == [s \in SUBSET U |-> c[s]]
  <2>1. ASSUME NEW s \in SUBSET U, s # {}
        PROVE  d[s] = weights[CHOOSE x \in s : TRUE] + d[s \ {CHOOSE x \in s : TRUE}]
    <3>1. PICK x : x = CHOOSE y \in s : TRUE
      OBVIOUS
    <3>2. x \in s
      BY <2>1, <3>1
    <3>3. d[s] = weights[x] + d[s \ {x}]
      BY <3>2 DEF Adds
    <3> HIDE DEF d
    <3> QED BY <3>1, <3>3
  <2>2. d[{}] = 0
    BY DEF Adds
  <2>3. d = [s \in SUBSET U |-> d[s]]
    OBVIOUS
  <2> HIDE DEF d
  <2>4. Iterates(d)
    BY <2>1, <2>2, <2>3
  <2> QED BY <2>4 DEF d
<1> DEFINE iter == CHOOSE g : Iterates(g)
<1>2. Load(U) = iter[U]
  BY Zenon DEF Load, LoadOf, Plans!MapThenSumSet, Plans!MapThenFoldSet
<1>3. Iterates(iter)
  <2> HIDE DEF Iterates
  <2> QED BY <1>1
<1> HIDE DEF iter
<1>4. IsFiniteSet(U) /\ \A s \in SUBSET U : IsFiniteSet(s) /\ Cardinality(s) \in Nat
  <2>1. IsFiniteSet(Plans!Aliases)
    BY FS_Interval, PlansAssumption DEF Plans!Aliases
  <2> QED BY <2>1, FS_Subset, FS_CardinalityType
<1> DEFINE S == {m \in Nat : \A s \in SUBSET U : Cardinality(s) = m => iter[s] = c[s]}
<1>5. 0 \in S
  <2>1. ASSUME NEW s \in SUBSET U, Cardinality(s) = 0 PROVE iter[s] = c[s]
    <3>1. s = {}
      BY <1>4, <2>1, FS_EmptySet
    <3> QED BY <1>3, <3>1 DEF Adds
  <2> QED BY <2>1
<1>6. ASSUME NEW m \in Nat, m \in S PROVE m + 1 \in S
  <2> SUFFICES ASSUME NEW s \in SUBSET U, Cardinality(s) = m + 1 PROVE iter[s] = c[s]
    OBVIOUS
  <2>1. PICK x : x = CHOOSE y \in s : TRUE
    OBVIOUS
  <2>2. s # {}
    BY FS_EmptySet
  <2>3. x \in s /\ s \ {x} \in SUBSET U
    BY <2>1, <2>2
  <2>4. Cardinality(s \ {x}) = m
    BY <1>4, <2>3, FS_RemoveElement
  <2>5. iter[s \ {x}] = c[s \ {x}]
    BY <1>6, <2>3, <2>4
  <2>6. iter[s] = weights[x] + iter[s \ {x}]
    BY <1>3, <2>1, <2>2
  <2>7. c[s] = weights[x] + c[s \ {x}]
    BY <2>3 DEF Adds
  <2> QED BY <2>5, <2>6, <2>7
<1>7. Cardinality(U) \in S
  <2> HIDE DEF S
  <2> QED BY <1>4, <1>5, <1>6, NatSetInduction
<1> QED BY <1>2, <1>7

\* One alias more is its weight more.
LEMMA LoadMore ==
  ASSUME Weighed
  PROVE  /\ Load({}) = 0
         /\ \A U \in SUBSET Plans!Aliases : \A x \in Plans!Aliases \ U :
              Load(U \cup {x}) = Load(U) + weights[x]
<1>1. PICK c : Adds(c)
  BY AddsExists
<1>2. Load({}) = 0
  BY <1>1, LoadAdds DEF Adds
<1>3. ASSUME NEW U \in SUBSET Plans!Aliases, NEW x \in Plans!Aliases \ U
      PROVE  Load(U \cup {x}) = Load(U) + weights[x]
  <2>1. Load(U \cup {x}) = c[U \cup {x}] /\ Load(U) = c[U]
    BY <1>1, LoadAdds
  <2>2. (U \cup {x}) \ {x} = U /\ U \cup {x} \in SUBSET Plans!Aliases /\ x \in U \cup {x}
    OBVIOUS
  <2>3. c[U \cup {x}] = weights[x] + c[U] /\ c[U] \in Nat /\ weights[x] \in Nat
    BY <1>1, <2>2 DEF Adds, Weighed
  <2> QED BY <2>1, <2>3
<1> QED BY <1>2, <1>3

Empty(groups) == {s \in Plans!Shards : groups[s].aliases = {}}

\* The aliases of T are assigned: each to one shard, none carries more than another by
\* over its lightest alias, and no shard takes a second alias while one has none.
Assigned(groups, T) ==
  /\ groups \in [Plans!Shards -> [aliases : SUBSET T, weight : Nat]]
  /\ \A a \in T : \E s \in Plans!Shards : a \in groups[s].aliases
  /\ \A s, t \in Plans!Shards : s # t => groups[s].aliases \cap groups[t].aliases = {}
  /\ \A s \in Plans!Shards : groups[s].weight = Load(groups[s].aliases)
  /\ \A s, t \in Plans!Shards : \A a \in groups[s].aliases :
       groups[s].weight <= groups[t].weight + weights[a]
  /\ Empty(groups) = {} \/ Cardinality(Empty(groups)) + Cardinality(T) = PlanShards

\* Before the first of them every shard is empty.
LEMMA AssignedNone == ASSUME Weighed PROVE Assigned(Plans!EmptyGroups, {})
<1>1. \A s \in Plans!Shards : Plans!EmptyGroups[s].aliases = {} /\ Plans!EmptyGroups[s].weight = 0
  BY DEF Plans!EmptyGroups
<1>2. Empty(Plans!EmptyGroups) = Plans!Shards
  BY <1>1 DEF Empty
<1>3. Cardinality(Plans!Shards) = PlanShards
  BY FS_Interval, PlansAssumption DEF Plans!Shards
<1>4. Plans!EmptyGroups \in [Plans!Shards -> [aliases : SUBSET {}, weight : Nat]]
  BY DEF Plans!EmptyGroups
<1>5. Cardinality({}) = 0 /\ PlanShards \in Nat
  BY FS_EmptySet, PlansAssumption
<1>6. Cardinality(Empty(Plans!EmptyGroups)) + Cardinality({}) = PlanShards
  BY <1>2, <1>3, <1>5
<1>7. \A s \in Plans!Shards : Plans!EmptyGroups[s].weight = Load(Plans!EmptyGroups[s].aliases)
  BY <1>1, LoadMore
<1> QED BY <1>1, <1>4, <1>6, <1>7 DEF Assigned

\* The next alias, no heavier than those before it, goes to the first shard.
LEMMA AssignedMore ==
  ASSUME Weighed, NEW groups, NEW T \in SUBSET Plans!Aliases, Assigned(groups, T),
         NEW x \in Plans!Aliases \ T, \A b \in T : weights[b] >= weights[x]
  PROVE  Assigned(Plans!Assign(groups, x), T \cup {x})
<1>1. IsFiniteSet(T) /\ Cardinality(T) \in Nat /\ Cardinality(T \cup {x}) = Cardinality(T) + 1
  <2>1. IsFiniteSet(Plans!Aliases)
    BY FS_Interval, PlansAssumption DEF Plans!Aliases
  <2>2. IsFiniteSet(T)
    BY <2>1, FS_Subset
  <2> QED BY <2>2, FS_AddElement, FS_CardinalityType
<1>2. \A s \in Plans!Shards : /\ groups[s].aliases \subseteq T /\ groups[s].weight \in Nat
                        /\ IsFiniteSet(groups[s].aliases)
  <2>1. \A s \in Plans!Shards : groups[s].aliases \subseteq T /\ groups[s].weight \in Nat
    BY DEF Assigned
  <2> QED BY <1>1, <2>1, FS_Subset
<1>3. PICK s : s = CHOOSE u \in Plans!Shards : \A t \in Plans!Shards : Plans!Lighter(groups, u, t)
  OBVIOUS
<1>4. s \in Plans!Shards /\ \A t \in Plans!Shards : Plans!Lighter(groups, s, t)
  BY <1>2, <1>3, FirstShard DEF Measured
<1>5. PICK n : n = Plans!Assign(groups, x)
  OBVIOUS
<1>6. n = [groups EXCEPT ![s] = [aliases |-> groups[s].aliases \cup {x},
                                 weight  |-> groups[s].weight + weights[x]]]
  BY <1>3, <1>5 DEF Plans!Assign
<1>7. /\ n[s].aliases = groups[s].aliases \cup {x} /\ n[s].weight = groups[s].weight + weights[x]
      /\ \A t \in Plans!Shards \ {s} : n[t] = groups[t]
  BY <1>4, <1>6 DEF Assigned
<1>8. weights[x] \in Nat /\ \A b \in T : weights[b] \in Nat
  BY DEF Weighed
<1>9. n \in [Plans!Shards -> [aliases : SUBSET (T \cup {x}), weight : Nat]]
  <2>1. groups \in [Plans!Shards -> [aliases : SUBSET (T \cup {x}), weight : Nat]]
    BY DEF Assigned
  <2>2. groups[s].aliases \cup {x} \in SUBSET (T \cup {x}) /\ groups[s].weight + weights[x] \in Nat
    BY <1>2, <1>4, <1>8
  <2> DEFINE R == [aliases : SUBSET (T \cup {x}), weight : Nat]
             g == [aliases |-> groups[s].aliases \cup {x}, weight |-> groups[s].weight + weights[x]]
  <2>3. g \in R
    BY <2>2
  <2>4. groups \in [Plans!Shards -> R] /\ n = [groups EXCEPT ![s] = g]
    BY <1>6, <2>1
  <2> HIDE DEF R, g
  <2>5. n \in [Plans!Shards -> R]
    BY <1>4, <2>3, <2>4
  <2> QED BY <2>5 DEF R
<1>10. \A a \in T \cup {x} : \E t \in Plans!Shards : a \in n[t].aliases
  <2>1. x \in n[s].aliases
    BY <1>7
  <2>2. ASSUME NEW a \in T PROVE \E t \in Plans!Shards : a \in n[t].aliases
    <3>1. PICK t \in Plans!Shards : a \in groups[t].aliases
      BY DEF Assigned
    <3>2. a \in n[t].aliases
      BY <1>7, <3>1
    <3> QED BY <3>2
  <2> QED BY <1>4, <2>1, <2>2
<1>11. ASSUME NEW t \in Plans!Shards, NEW u \in Plans!Shards, t # u
       PROVE  n[t].aliases \cap n[u].aliases = {}
  <2>1. groups[t].aliases \cap groups[u].aliases = {}
    BY <1>11 DEF Assigned
  <2>2. x \notin groups[t].aliases /\ x \notin groups[u].aliases
    BY <1>2
  <2> QED BY <1>7, <1>11, <2>1, <2>2
<1>12. ASSUME NEW t \in Plans!Shards PROVE n[t].weight = Load(n[t].aliases)
  <2>1. groups[t].weight = Load(groups[t].aliases) /\ groups[t].aliases \in SUBSET Plans!Aliases
        /\ x \in Plans!Aliases \ groups[t].aliases
    BY <1>2 DEF Assigned
  <2> QED BY <1>7, <2>1, LoadMore
<1>13. ASSUME NEW t \in Plans!Shards, NEW u \in Plans!Shards, NEW a \in n[t].aliases
       PROVE  n[t].weight <= n[u].weight + weights[a]
  <2>1. groups[s].weight <= groups[u].weight
    BY <1>2, <1>4 DEF Plans!Lighter
  <2>2. groups[u].weight <= n[u].weight /\ n[u].weight \in Nat
    BY <1>2, <1>7, <1>8
  <2>3. CASE t = s
    <3>1. weights[a] >= weights[x] /\ weights[a] \in Nat
      BY <1>2, <1>7, <1>8, <1>13, <2>3
    <3>2. n[t].weight = groups[s].weight + weights[x]
      BY <1>7, <2>3
    <3>3. groups[s].weight \in Nat /\ groups[u].weight \in Nat
      BY <1>2, <1>4
    <3> QED BY <1>8, <2>1, <2>2, <3>1, <3>2, <3>3
  <2>4. CASE t # s
    <3>1. n[t] = groups[t] /\ a \in groups[t].aliases
      BY <1>7, <1>13, <2>4
    <3>2. groups[t].weight <= groups[u].weight + weights[a]
      BY <3>1 DEF Assigned
    <3>3. weights[a] \in Nat /\ groups[t].weight \in Nat /\ groups[u].weight \in Nat
      BY <1>2, <1>8, <3>1
    <3> QED BY <2>2, <3>1, <3>2, <3>3
  <2> QED BY <2>3, <2>4
<1>14. Empty(n) = {} \/ Cardinality(Empty(n)) + Cardinality(T \cup {x}) = PlanShards
  <2>1. Empty(n) = Empty(groups) \ {s}
    BY <1>4, <1>7 DEF Empty
  <2>2. CASE Empty(groups) = {}
    BY <2>1, <2>2
  <2>3. CASE Empty(groups) # {}
    <3>1. PICK e \in Plans!Shards : groups[e].aliases = {}
      BY <2>3 DEF Empty
    <3>2. groups[e].weight = 0 /\ Cardinality(groups[e].aliases) = 0
      BY <3>1, LoadMore, FS_EmptySet DEF Assigned
    <3>3. Cardinality(groups[s].aliases) \in Nat
      BY <1>2, <1>4, FS_CardinalityType
    <3>4. Plans!Lighter(groups, s, e) /\ groups[s].weight \in Nat
      BY <1>2, <1>4
    <3>5. Cardinality(groups[s].aliases) = 0
      <4>1. \/ groups[s].weight < groups[e].weight
            \/ Cardinality(groups[s].aliases) <= Cardinality(groups[e].aliases)
        BY <3>2, <3>3, <3>4, Counted DEF Plans!Lighter
      <4> QED BY <3>2, <3>3, <3>4, <4>1
    <3>6. groups[s].aliases = {}
      BY <1>2, <1>4, <3>5, FS_EmptySet
    <3>7. s \in Empty(groups)
      BY <1>4, <3>6 DEF Empty
    <3>8. IsFiniteSet(Empty(groups)) /\ Cardinality(Empty(groups)) \in Nat
      <4>1. Empty(groups) \in SUBSET Plans!Shards
        BY DEF Empty
      <4>2. IsFiniteSet(Plans!Shards)
        BY FS_Interval, PlansAssumption DEF Plans!Shards
      <4> QED BY <4>1, <4>2, FS_Subset, FS_CardinalityType
    <3>9. Cardinality(Empty(n)) = Cardinality(Empty(groups)) - 1
      <4>1. Cardinality(Empty(groups) \ {s}) = Cardinality(Empty(groups)) - 1
        BY <3>7, <3>8, FS_RemoveElement
      <4> QED BY <2>1, <4>1
    <3>10. Cardinality(Empty(groups)) + Cardinality(T) = PlanShards
      BY <2>3 DEF Assigned
    <3> QED BY <1>1, <3>8, <3>9, <3>10
  <2> QED BY <2>2, <2>3
<1> QED BY <1>5, <1>9, <1>10, <1>11, <1>12, <1>13, <1>14 DEF Assigned

\* The recursion of the fold, over the sets of at most m aliases.
Few(m) == {T \in SUBSET Plans!Aliases : Cardinality(T) <= m}

\* Every set of aliases is assigned in the order: the fold exists.
LEMMA GroupsRun ==
  ASSUME Weighed
  PROVE  \E run : /\ Plans!Groups = run[Plans!Aliases] /\ run[{}] = Plans!EmptyGroups
                  /\ \A T \in SUBSET Plans!Aliases :
                       T # {} => run[T] =
                               Plans!Assign(run[T \ {Plans!Lightest(T)}], Plans!Lightest(T))
<1> DEFINE Iterates(g, D) ==
      g = [T \in D |-> IF T = {} THEN Plans!EmptyGroups
                       ELSE Plans!Assign(g[T \ {Plans!Lightest(T)}], Plans!Lightest(T))]
           S == {m \in Nat : \E g : Iterates(g, Few(m))}
<1>1. \A T \in SUBSET Plans!Aliases : IsFiniteSet(T) /\ Cardinality(T) \in Nat
  <2>1. IsFiniteSet(Plans!Aliases)
    BY FS_Interval, PlansAssumption DEF Plans!Aliases
  <2> QED BY <2>1, FS_Subset, FS_CardinalityType
<1>2. \A T \in SUBSET Plans!Aliases : T # {} => /\ T \ {Plans!Lightest(T)} \in SUBSET Plans!Aliases
                                          /\ Cardinality(T \ {Plans!Lightest(T)}) =
                                               Cardinality(T) - 1
  <2> SUFFICES ASSUME NEW T \in SUBSET Plans!Aliases, T # {}
               PROVE  /\ T \ {Plans!Lightest(T)} \in SUBSET Plans!Aliases
                      /\ Cardinality(T \ {Plans!Lightest(T)}) = Cardinality(T) - 1
    OBVIOUS
  <2>1. Plans!Lightest(T) \in T
    BY LightestIs
  <2> QED BY <1>1, <2>1, FS_RemoveElement
<1>3. 0 \in S
  <2>1. Few(0) = {{}}
    <3>1. \A T \in SUBSET Plans!Aliases : Cardinality(T) <= 0 <=> T = {}
      BY <1>1, FS_EmptySet
    <3> QED BY <3>1 DEF Few
  <2>2. Iterates([T \in {{}} |-> Plans!EmptyGroups], {{}})
    OBVIOUS
  <2> QED BY <2>1, <2>2
<1>4. ASSUME NEW m \in Nat, m \in S PROVE m + 1 \in S
  <2>1. PICK g : Iterates(g, Few(m))
    BY <1>4
  <2> DEFINE D == Few(m + 1)
             h == [T \in D |-> IF T \in Few(m) THEN g[T]
                               ELSE Plans!Assign(g[T \ {Plans!Lightest(T)}], Plans!Lightest(T))]
  <2>2. Few(m) \subseteq D /\ {} \in Few(m)
    BY <1>1, FS_EmptySet DEF Few
  <2>3. ASSUME NEW T \in D, T # {} PROVE T \ {Plans!Lightest(T)} \in Few(m)
    BY <1>1, <1>2, <2>3 DEF Few
  <2>4. ASSUME NEW T \in D
        PROVE  h[T] = IF T = {} THEN Plans!EmptyGroups
                ELSE Plans!Assign(h[T \ {Plans!Lightest(T)}], Plans!Lightest(T))
    <3>1. CASE T = {}
      BY <2>1, <2>2, <3>1
    <3>2. CASE T # {}
      <4>1. h[T \ {Plans!Lightest(T)}] = g[T \ {Plans!Lightest(T)}]
        BY <2>2, <2>3, <3>2
      <4>2. h[T] = Plans!Assign(g[T \ {Plans!Lightest(T)}], Plans!Lightest(T))
        <5>1. CASE T \in Few(m)
          BY <2>1, <2>2, <3>2, <5>1
        <5>2. CASE T \notin Few(m)
          BY <5>2
        <5> QED BY <5>1, <5>2
      <4> HIDE DEF h
      <4> QED BY <3>2, <4>1, <4>2
    <3> QED BY <3>1, <3>2
  <2>5. h = [T \in D |-> h[T]]
    OBVIOUS
  <2>6. Iterates(h, D)
    <3> HIDE DEF h, D
    <3> QED BY <2>4, <2>5
  <2> HIDE DEF h, Iterates
  <2> QED BY <2>6
<1>5. PlanAliases \in S
  <2> HIDE DEF S
  <2> QED BY <1>3, <1>4, NatSetInduction, PlansAssumption
<1>6. Few(PlanAliases) = SUBSET Plans!Aliases
  <2>1. IsFiniteSet(Plans!Aliases) /\ Cardinality(Plans!Aliases) = PlanAliases
    BY FS_Interval, PlansAssumption DEF Plans!Aliases
  <2>2. \A T \in SUBSET Plans!Aliases : Cardinality(T) <= PlanAliases
    BY <2>1, FS_Subset
  <2> QED BY <2>2 DEF Few
<1> DEFINE iter == CHOOSE g : Iterates(g, SUBSET Plans!Aliases)
<1>7. Iterates(iter, SUBSET Plans!Aliases)
  <2>1. \E g : Iterates(g, SUBSET Plans!Aliases)
    BY <1>5, <1>6
  <2> HIDE DEF Iterates
  <2> QED BY <2>1
<1>8. Plans!Groups = iter[Plans!Aliases]
  BY Zenon DEF Plans!Groups, Plans!MapThenFoldSet
<1> HIDE DEF iter
<1>9. \A T \in SUBSET Plans!Aliases : iter[T] = IF T = {} THEN Plans!EmptyGroups
                                          ELSE Plans!Assign(iter[T \ {Plans!Lightest(T)}],
                                                  Plans!Lightest(T))
  BY <1>7
<1>10. iter[{}] = Plans!EmptyGroups
  BY <1>9
<1>11. \A T \in SUBSET Plans!Aliases : T # {}
        => iter[T] = Plans!Assign(iter[T \ {Plans!Lightest(T)}], Plans!Lightest(T))
  BY <1>9
<1> QED BY <1>8, <1>10, <1>11

\* Whatever the number of shards and aliases is, and whatever the weights.
LEMMA GroupsAssigned == ASSUME Weighed PROVE Assigned(Plans!Groups, Plans!Aliases)
<1>1. PICK run : /\ Plans!Groups = run[Plans!Aliases] /\ run[{}] = Plans!EmptyGroups
                 /\ \A T \in SUBSET Plans!Aliases :
                      T # {} => run[T] =
                              Plans!Assign(run[T \ {Plans!Lightest(T)}], Plans!Lightest(T))
  BY GroupsRun
<1> DEFINE S == {m \in Nat : \A T \in Few(m) : Assigned(run[T], T)}
<1>2. \A T \in SUBSET Plans!Aliases : IsFiniteSet(T) /\ Cardinality(T) \in Nat
  <2>1. IsFiniteSet(Plans!Aliases)
    BY FS_Interval, PlansAssumption DEF Plans!Aliases
  <2> QED BY <2>1, FS_Subset, FS_CardinalityType
<1>3. 0 \in S
  <2>1. ASSUME NEW T \in Few(0) PROVE Assigned(run[T], T)
    <3>1. T = {}
      BY <1>2, FS_EmptySet DEF Few
    <3> QED BY <1>1, <3>1, AssignedNone
  <2> QED BY <2>1
<1>4. ASSUME NEW m \in Nat, m \in S PROVE m + 1 \in S
  <2> SUFFICES ASSUME NEW T \in Few(m + 1) PROVE Assigned(run[T], T)
    OBVIOUS
  <2>1. CASE T = {}
    BY <1>1, <2>1, AssignedNone
  <2>2. CASE T # {}
    <3>1. PICK x, U : x = Plans!Lightest(T) /\ U = T \ {x}
      OBVIOUS
    <3>2. T \in SUBSET Plans!Aliases /\ x \in T /\ \A b \in T : b = x \/ Plans!Heavier(b, x)
      BY <2>2, <3>1, LightestIs DEF Few
    <3>3. U \in SUBSET Plans!Aliases /\ x \in Plans!Aliases \ U /\ T = U \cup {x}
      BY <3>1, <3>2
    <3>4. U \in Few(m)
      <4>1. Cardinality(U) = Cardinality(T) - 1
        BY <1>2, <3>1, <3>2, FS_RemoveElement
      <4> QED BY <1>2, <3>2, <3>3, <4>1 DEF Few
    <3>5. Assigned(run[U], U)
      BY <1>4, <3>4
    <3>6. \A b \in U : weights[b] >= weights[x]
      BY <3>1, <3>2 DEF Plans!Heavier, Weighed
    <3>7. run[T] = Plans!Assign(run[U], x)
      BY <1>1, <2>2, <3>1, <3>2
    <3> QED BY <3>3, <3>5, <3>6, <3>7, AssignedMore
  <2> QED BY <2>1, <2>2
<1>5. PlanAliases \in S
  <2> HIDE DEF S
  <2> QED BY <1>3, <1>4, NatSetInduction, PlansAssumption
<1>6. Plans!Aliases \in Few(PlanAliases)
  BY FS_Interval, PlansAssumption DEF Plans!Aliases, Few
<1> QED BY <1>1, <1>5, <1>6

\* Every test is in one shard, and no shard is empty.
LEMMA PlanComplete == ASSUME Weighed PROVE Plans!ValidPlan(Plans!CreatePlan)
<1>1. PICK g : g = Plans!Groups
  OBVIOUS
<1>2. Assigned(g, Plans!Aliases) /\ Plans!CreatePlan = [s \in Plans!Shards |-> g[s].aliases]
  BY <1>1, GroupsAssigned DEF Plans!CreatePlan
<1>3. Empty(g) = {}
  <2> SUFFICES ASSUME Empty(g) # {} PROVE FALSE
    OBVIOUS
  <2>1. Cardinality(Empty(g)) + Cardinality(Plans!Aliases) = PlanShards
    BY <1>2 DEF Assigned
  <2>2. Cardinality(Plans!Aliases) = PlanAliases
    BY FS_Interval, PlansAssumption DEF Plans!Aliases
  <2>3. IsFiniteSet(Empty(g)) /\ Cardinality(Empty(g)) \in Nat
    <3>1. Empty(g) \in SUBSET Plans!Shards
      BY DEF Empty
    <3>2. IsFiniteSet(Plans!Shards)
      BY FS_Interval, PlansAssumption DEF Plans!Shards
    <3> QED BY <3>1, <3>2, FS_Subset, FS_CardinalityType
  <2>4. Cardinality(Empty(g)) = 0
    BY <2>1, <2>2, <2>3, PlansAssumption
  <2> QED BY <2>3, <2>4, FS_EmptySet
<1>4. UNION {g[s].aliases : s \in Plans!Shards} = Plans!Aliases
  BY <1>2 DEF Assigned
<1>5. \A s \in Plans!Shards : g[s].aliases # {}
  BY <1>3 DEF Empty
<1>6. \A s, t \in Plans!Shards : s # t => g[s].aliases \cap g[t].aliases = {}
  BY <1>2 DEF Assigned
<1> QED BY <1>2, <1>4, <1>5, <1>6 DEF Plans!ValidPlan

\* No shard carries more than another by over its lightest test.
LEMMA PlanBalanced ==
  ASSUME Weighed, NEW s \in Plans!Shards, NEW t \in Plans!Shards, NEW a \in Plans!CreatePlan[s]
  PROVE  Load(Plans!CreatePlan[s]) - weights[a] <= Load(Plans!CreatePlan[t])
<1>1. PICK g : g = Plans!Groups
  OBVIOUS
<1>2. Assigned(g, Plans!Aliases) /\ Plans!CreatePlan = [u \in Plans!Shards |-> g[u].aliases]
  BY <1>1, GroupsAssigned DEF Plans!CreatePlan
<1>3. /\ g[s].weight <= g[t].weight + weights[a]
      /\ g[s].weight = Load(Plans!CreatePlan[s]) /\ g[t].weight = Load(Plans!CreatePlan[t])
      /\ g[s].weight \in Nat /\ g[t].weight \in Nat /\ weights[a] \in Nat
  BY <1>2 DEF Assigned, Weighed
<1> QED BY <1>3

(* FrameworkInventory *)

\* This instance too counts as the library does.
LEMMA NodesCounted == \A S : Inventory!Cardinality(S) = Cardinality(S)
BY DEF Cardinality, Inventory!Cardinality

\* The visit of a directory: it ends when it ends for what is referred to.
LEMMA VisitEnds ==
  ASSUME NEW d
  PROVE  \A active \in SUBSET Inventory!Aliases :
           Inventory!Visit(d)[active] = {name \in Inventory!Aliases \ active :
                                 \A r \in Inventory!Graph(d, name) :
                                   Inventory!LocalAlias(r)
                                           /\ r.to \in Inventory!Visit(d)[active \cup {name}]}
<1> DEFINE Ends(g, active) ==
             {name \in Inventory!Aliases \ active :
                \A r \in Inventory!Graph(d, name) :
                        Inventory!LocalAlias(r) /\ r.to \in g[active \cup {name}]}
           Iterates(g, D) == g = [active \in D |-> Ends(g, active)]
           Left(m) == {active \in SUBSET Inventory!Aliases :
                   Cardinality(Inventory!Aliases \ active) <= m}
           S == {m \in Nat : \E g : Iterates(g, Left(m))}
<1>1. \A A \in SUBSET Inventory!Aliases : IsFiniteSet(A) /\ Cardinality(A) \in Nat
  <2>1. IsFiniteSet(Inventory!Aliases)
    <3>1. IsFiniteSet({"runtest"}) /\ IsFiniteSet({"extra"}) /\ IsFiniteSet({"runtest-lib"})
      BY FS_Singleton
    <3>2. Inventory!Aliases = ({"runtest"} \cup {"extra"}) \cup {"runtest-lib"}
      BY DEF Inventory!Aliases
    <3> QED BY <3>1, <3>2, FS_AddElement
  <2> QED BY <2>1, FS_Subset, FS_CardinalityType
<1>2. \A active \in SUBSET Inventory!Aliases : \A name \in Inventory!Aliases \ active :
        /\ active \cup {name} \in SUBSET Inventory!Aliases
        /\ Cardinality(Inventory!Aliases \ (active \cup {name})) =
             Cardinality(Inventory!Aliases \ active) - 1
  <2> SUFFICES ASSUME NEW active \in SUBSET Inventory!Aliases,
          NEW name \in Inventory!Aliases \ active
               PROVE  Cardinality(Inventory!Aliases \ (active \cup {name})) =
                       Cardinality(Inventory!Aliases \ active) - 1
    OBVIOUS
  <2>1. Inventory!Aliases \ (active \cup {name}) = (Inventory!Aliases \ active) \ {name}
          /\ name \in Inventory!Aliases \ active
    OBVIOUS
  <2>2. IsFiniteSet(Inventory!Aliases \ active)
    BY <1>1
  <2> HIDE DEF Left
  <2>3. Cardinality((Inventory!Aliases \ active) \ {name}) =
          Cardinality(Inventory!Aliases \ active) - 1
    BY <2>1, <2>2, FS_RemoveElement
  <2> QED BY <2>1, <2>3
<1>3. 0 \in S
  <2>1. \A active \in Left(0) : Inventory!Aliases \ active = {}
    BY <1>1, FS_EmptySet
  <2> DEFINE g == [active \in Left(0) |-> {}]
  <2>2. ASSUME NEW active \in Left(0) PROVE Ends(g, active) = {}
    BY <2>1
  <2>3. Iterates(g, Left(0))
    <3> HIDE DEF Left, Ends
    <3> QED BY <2>2
  <2> HIDE DEF Iterates, g
  <2> QED BY <2>3
<1>4. ASSUME NEW m \in Nat, m \in S PROVE m + 1 \in S
  <2> HIDE DEF Iterates
  <2>1. PICK g : Iterates(g, Left(m))
    BY <1>4
  <2> USE DEF Iterates
  <2> DEFINE D == Left(m + 1)
             h == [active \in D |-> IF active \in Left(m) THEN g[active] ELSE Ends(g, active)]
  <2>2. Left(m) \subseteq D
    BY <1>1
  <2>3. ASSUME NEW active \in D, NEW name \in Inventory!Aliases \ active
        PROVE  active \cup {name} \in Left(m)
    BY <1>1, <1>2
  <2>4. ASSUME NEW active \in D PROVE h[active] = Ends(h, active)
    <3>1. h[active] = Ends(g, active)
      <4> HIDE DEF Left, Ends
      <4>1. CASE active \in Left(m)
        BY <2>1, <4>1
      <4>2. CASE active \notin Left(m)
        BY <4>2
      <4> QED BY <4>1, <4>2
    <3>2. \A name \in Inventory!Aliases \ active : h[active \cup {name}] = g[active \cup {name}]
      <4> HIDE DEF Left, Ends
      <4> QED BY <2>2, <2>3
    <3>3. Ends(h, active) = Ends(g, active)
      <4> HIDE DEF h, D
      <4> QED BY <3>2
    <3> QED BY <3>1, <3>3
  <2>5. h = [active \in D |-> h[active]]
    OBVIOUS
  <2>6. Iterates(h, D)
    <3> HIDE DEF h, D, Ends
    <3> QED BY <2>4, <2>5
  <2> HIDE DEF h, Iterates, Left
  <2> QED BY <2>6
<1>5. Cardinality(Inventory!Aliases) \in S
  <2> HIDE DEF S
  <2> QED BY <1>1, <1>3, <1>4, NatSetInduction
<1>6. Left(Cardinality(Inventory!Aliases)) = SUBSET Inventory!Aliases
  <2>1. \A active \in SUBSET Inventory!Aliases :
          Cardinality(Inventory!Aliases \ active) <= Cardinality(Inventory!Aliases)
    BY <1>1, FS_Subset
  <2> QED BY <2>1
<1> DEFINE iter == CHOOSE g : Iterates(g, SUBSET Inventory!Aliases)
<1>7. Iterates(iter, SUBSET Inventory!Aliases)
  <2>1. \E g : Iterates(g, SUBSET Inventory!Aliases)
    <3> HIDE DEF Iterates, Left
    <3> QED BY <1>5, <1>6
  <2> HIDE DEF Iterates
  <2> QED BY <2>1
<1>8. Inventory!Visit(d) = iter
  BY Zenon DEF Inventory!Visit
<1> HIDE DEF iter
<1>9. \A active \in SUBSET Inventory!Aliases : iter[active] = Ends(iter, active)
  <2> HIDE DEF Ends
  <2> QED BY <1>7
<1> QED BY <1>8, <1>9

\* A directory that is accepted has a set of aliases, runtest among them, that refer to
\* each other and to nothing else.
LEMMA NormalClosure ==
  ASSUME NEW d, Inventory!CheckNormalClosure(d)
  PROVE  \E names \in SUBSET Inventory!Aliases :
           /\ "runtest" \in names
           /\ \A name \in names : \A r \in Inventory!Graph(d, name) :
                Inventory!LocalAlias(r) /\ r.to \in names
<1> DEFINE ends == Inventory!Visit(d)
           names == {name \in Inventory!Aliases : \E active \in SUBSET Inventory!Aliases :
                   name \in ends[active]}
<1>1. "runtest" \in names
  BY DEF Inventory!CheckNormalClosure, Inventory!Aliases
<1>2. ASSUME NEW name \in names, NEW r \in Inventory!Graph(d, name)
      PROVE  Inventory!LocalAlias(r) /\ r.to \in names
  <2>1. PICK active \in SUBSET Inventory!Aliases : name \in ends[active]
    BY <1>2
  <2>2. /\ name \in Inventory!Aliases \ active
        /\ Inventory!LocalAlias(r) /\ r.to \in ends[active \cup {name}]
    BY <1>2, <2>1, VisitEnds
  <2>3. r.to \in Inventory!Aliases /\ active \cup {name} \in SUBSET Inventory!Aliases
    BY <2>2 DEF Inventory!LocalAlias
  <2> QED BY <2>2, <2>3
<1>3. names \in SUBSET Inventory!Aliases
  OBVIOUS
<1> HIDE DEF names
<1> QED BY <1>1, <1>2, <1>3

\* What the references of some nodes lead to.
Referred(nodes) == UNION {UNION {Inventory!Targets(x[1], r) : r \in Inventory!Graph(x[1], x[2])} :
        x \in nodes}

\* Dune builds in rounds.
Rounds(roots, n, run) ==
  /\ n = Inventory!Cardinality(Inventory!Nodes) /\ run[0] = roots /\ Inventory!Built(roots) = run[n]
  /\ \A k \in 1..n : run[k] = run[k - 1] \cup Referred(run[k - 1])

\* There are such rounds.
LEMMA BuiltRuns ==
  ASSUME NEW roots
  PROVE  \E n \in Nat : \E run : Rounds(roots, n, run)
<1>1. Inventory!Cardinality(Inventory!Nodes) \in Nat
  <2>1. IsFiniteSet(Inventory!Aliases) /\ IsFiniteSet(Inventory!Directories)
    <3>1. \A a, b, c : IsFiniteSet({a, b, c})
      <4>1. ASSUME NEW a, NEW b, NEW c PROVE IsFiniteSet({a, b, c})
        <5>1. IsFiniteSet({a} \cup {b})
          BY FS_Singleton, FS_AddElement
        <5>2. IsFiniteSet(({a} \cup {b}) \cup {c})
          BY <5>1, FS_AddElement
        <5>3. {a, b, c} = ({a} \cup {b}) \cup {c}
          OBVIOUS
        <5> QED BY <5>2, <5>3
      <4> QED BY <4>1
    <3> QED BY <3>1 DEF Inventory!Aliases, Inventory!Directories
  <2>2. IsFiniteSet(Inventory!Nodes)
    BY <2>1, FS_Product DEF Inventory!Nodes
  <2> QED BY <2>2, FS_CardinalityType, NodesCounted
<1>2. PICK n \in Nat : n = Inventory!Cardinality(Inventory!Nodes)
  BY <1>1
<1> DEFINE Iterates(g, m) ==
             g = [k \in 0..m |-> IF k = 0 THEN roots ELSE g[k - 1] \cup Referred(g[k - 1])]
           S == {m \in Nat : \E g : Iterates(g, m)}
<1>3. 0 \in S
  <2>1. Iterates([k \in 0..0 |-> roots], 0)
    OBVIOUS
  <2> QED BY <2>1
<1>4. ASSUME NEW m \in Nat, m \in S PROVE m + 1 \in S
  <2>1. PICK g : Iterates(g, m)
    BY <1>4
  <2> DEFINE h == [k \in 0..(m + 1) |-> IF k = m + 1 THEN g[m] \cup Referred(g[m]) ELSE g[k]]
  <2>2. ASSUME NEW k \in 0..(m + 1)
        PROVE  h[k] = IF k = 0 THEN roots ELSE h[k - 1] \cup Referred(h[k - 1])
    <3>1. CASE k = m + 1
      <4>1. (m + 1) - 1 = m /\ m \in 0..(m + 1) /\ m # m + 1 /\ k # 0
        BY <3>1
      <4>2. h[k] = g[m] \cup Referred(g[m]) /\ h[k - 1] = g[m]
        BY <3>1, <4>1
      <4> HIDE DEF h
      <4> QED BY <4>1, <4>2
    <3>2. CASE k # m + 1
      <4>1. k \in 0..m /\ (k # 0 => k - 1 \in 0..(m + 1) /\ k - 1 # m + 1)
        BY <3>2
      <4>2. h[k] = g[k] /\ (k # 0 => h[k - 1] = g[k - 1])
        BY <3>2, <4>1
      <4> HIDE DEF h
      <4> QED BY <2>1, <4>1, <4>2
    <3> QED BY <3>1, <3>2
  <2>3. h = [k \in 0..(m + 1) |-> h[k]]
    OBVIOUS
  <2>4. Iterates(h, m + 1)
    <3> HIDE DEF h
    <3> QED BY <2>2, <2>3
  <2> HIDE DEF h, Iterates
  <2> QED BY <2>4
<1>5. n \in S
  <2> HIDE DEF S
  <2> QED BY <1>3, <1>4, NatSetInduction
<1> DEFINE iter == CHOOSE g : Iterates(g, Inventory!Cardinality(Inventory!Nodes))
<1>6. Iterates(iter, n)
  <2> HIDE DEF Iterates
  <2> QED BY <1>2, <1>5
<1>7. Inventory!Built(roots) = iter[Inventory!Cardinality(Inventory!Nodes)]
  BY Zenon DEF Inventory!Built, Referred
<1> HIDE DEF iter
<1>8. iter[0] = roots /\ \A k \in 1..n : iter[k] = iter[k - 1] \cup Referred(iter[k - 1])
  BY <1>6
<1> QED BY <1>2, <1>7, <1>8 DEF Rounds

\* What is built for one accepted directory stays there, and is what its own closure
\* holds; where runtest refers to nothing it is runtest alone.
LEMMA BuiltStays ==
  ASSUME NEW d, Inventory!CheckNormalClosure(d)
  PROVE  /\ <<d, "runtest">> \in Inventory!Built({<<d, "runtest">>})
         /\ \A x \in Inventory!Built({<<d, "runtest">>}) : x[1] = d
         /\ Inventory!Graph(d, "runtest") = {}
              => Inventory!Built({<<d, "runtest">>}) = {<<d, "runtest">>}
<1>1. PICK n \in Nat : \E run : Rounds({<<d, "runtest">>}, n, run)
  BY BuiltRuns
<1>2. PICK run, built : /\ run[0] = {<<d, "runtest">>} /\ built = run[n]
                        /\ built = Inventory!Built({<<d, "runtest">>})
                        /\ \A k \in 1..n : run[k] = run[k - 1] \cup Referred(run[k - 1])
  BY <1>1 DEF Rounds
<1>3. PICK names \in SUBSET Inventory!Aliases :
        /\ "runtest" \in names
        /\ \A name \in names : \A r \in Inventory!Graph(d, name) :
             Inventory!LocalAlias(r) /\ r.to \in names
  BY NormalClosure
<1> DEFINE Stays(nodes) ==
             /\ <<d, "runtest">> \in nodes
             /\ \A x \in nodes : \E name \in names : x = <<d, name>>
             /\ Inventory!Graph(d, "runtest") = {} => nodes = {<<d, "runtest">>}
           S == {m \in Nat : m <= n => Stays(run[m])}
<1>4. ASSUME NEW nodes, Stays(nodes) PROVE Stays(nodes \cup Referred(nodes))
  <2>1. ASSUME NEW x \in Referred(nodes) PROVE \E name \in names : x = <<d, name>>
    <3>1. PICK y \in nodes : \E r \in Inventory!Graph(y[1], y[2]) : x \in Inventory!Targets(y[1], r)
      BY <2>1 DEF Referred
    <3>2. PICK name \in names : y = <<d, name>>
      BY <1>4, <3>1
    <3>3. y[1] = d /\ y[2] = name
      BY <3>2
    <3>4. PICK r \in Inventory!Graph(d, name) : x \in Inventory!Targets(d, r)
      BY <3>1, <3>3
    <3>5. Inventory!LocalAlias(r) /\ r.to \in names
      BY <1>3, <3>4
    <3>6. Inventory!Targets(d, r) = {<<d, r.to>>}
      BY <3>5 DEF Inventory!LocalAlias, Inventory!Targets, Inventory!Aliases
    <3> QED BY <3>4, <3>5, <3>6
  <2>2. ASSUME Inventory!Graph(d, "runtest") = {} PROVE Referred(nodes) = {}
    <3>1. nodes = {<<d, "runtest">>}
      BY <1>4, <2>2
    <3>2. \A x \in nodes : x[1] = d /\ x[2] = "runtest"
      BY <3>1
    <3> QED BY <2>2, <3>2 DEF Referred
  <2> QED BY <1>4, <2>1, <2>2
<1>5. 0 \in S
  BY <1>2, <1>3
<1>6. ASSUME NEW m \in Nat, m \in S PROVE m + 1 \in S
  <2> HIDE DEF Stays
  <2> SUFFICES ASSUME m + 1 <= n PROVE Stays(run[m + 1])
    OBVIOUS
  <2>1. m <= n /\ m + 1 \in 1..n /\ (m + 1) - 1 = m
    OBVIOUS
  <2>2. run[m + 1] = run[m] \cup Referred(run[m])
    BY <1>2, <2>1
  <2> QED BY <1>4, <1>6, <2>1, <2>2
<1>7. n \in S
  <2> HIDE DEF S
  <2> QED BY <1>5, <1>6, NatSetInduction
<1>8. Stays(built)
  <2> HIDE DEF Stays
  <2>1. Stays(run[n])
    BY <1>7
  <2> QED BY <1>2, <2>1
<1>9. \A x \in built : x[1] = d
  BY <1>8
<1> QED BY <1>2, <1>8, <1>9

\* What is built for several directories is what is built for each.
LEMMA BuiltApart ==
  ASSUME NEW D, NEW x \in Inventory!Built(D \X {"runtest"})
  PROVE  \E d \in D : x \in Inventory!Built({<<d, "runtest">>})
<1>1. PICK n \in Nat : \E run : Rounds(D \X {"runtest"}, n, run)
  BY BuiltRuns
<1>2. PICK all : Rounds(D \X {"runtest"}, n, all)
  BY <1>1
<1>3. n = Inventory!Cardinality(Inventory!Nodes)
  BY <1>2 DEF Rounds
<1>4. ASSUME NEW d \in D PROVE \E run : Rounds({<<d, "runtest">>}, n, run)
  <2>1. \E m \in Nat : \E run : Rounds({<<d, "runtest">>}, m, run)
    BY BuiltRuns
  <2>2. \A m \in Nat : \A run : Rounds({<<d, "runtest">>}, m, run) => m = n
    BY <1>3 DEF Rounds
  <2> QED BY <2>1, <2>2
<1> DEFINE one == [d \in D |-> CHOOSE run : Rounds({<<d, "runtest">>}, n, run)]
<1>5. \A d \in D : Rounds({<<d, "runtest">>}, n, one[d])
  <2> QED BY <1>4
<1> HIDE DEF one
<1> DEFINE S == {m \in Nat : m <= n => \A y \in all[m] : \E d \in D : y \in one[d][m]}
<1>6. 0 \in S
  <2>1. all[0] = D \X {"runtest"} /\ \A d \in D : one[d][0] = {<<d, "runtest">>}
    BY <1>2, <1>5 DEF Rounds
  <2> QED BY <2>1
<1>7. ASSUME NEW m \in Nat, m \in S PROVE m + 1 \in S
  <2> SUFFICES ASSUME m + 1 <= n, NEW y \in all[m + 1] PROVE \E d \in D : y \in one[d][m + 1]
    OBVIOUS
  <2>1. m <= n /\ m + 1 \in 1..n /\ (m + 1) - 1 = m
    OBVIOUS
  <2>2. all[m + 1] = all[m] \cup Referred(all[m])
    BY <1>2, <2>1 DEF Rounds
  <2>3. \A d \in D : one[d][m + 1] = one[d][m] \cup Referred(one[d][m])
    BY <1>5, <2>1 DEF Rounds
  <2>4. \A z \in all[m] : \E d \in D : z \in one[d][m]
    BY <1>7, <2>1
  <2>5. CASE y \in all[m]
    BY <2>3, <2>4, <2>5
  <2>6. CASE y \in Referred(all[m])
    <3>1. PICK z \in all[m] :
            y \in UNION {Inventory!Targets(z[1], r) : r \in Inventory!Graph(z[1], z[2])}
      BY <2>6 DEF Referred
    <3>2. PICK d \in D : z \in one[d][m]
      BY <2>4
    <3>3. y \in Referred(one[d][m])
      BY <3>1, <3>2 DEF Referred
    <3> QED BY <2>3, <3>3
  <2> QED BY <2>2, <2>5, <2>6
<1>8. n \in S
  <2> HIDE DEF S
  <2> QED BY <1>6, <1>7, NatSetInduction
<1>9. all[n] = Inventory!Built(D \X {"runtest"}) /\ \A d \in D :
        one[d][n] = Inventory!Built({<<d, "runtest">>})
  BY <1>2, <1>5 DEF Rounds
<1> QED BY <1>8, <1>9

\* The inventory is exact whatever the Dune files say.
LEMMA InventoryExact == Inventory!InventoryIsExact
<1> DEFINE D == Inventory!Directories \ Inventory!Excluded
<1> SUFFICES ASSUME Inventory!Accepted,
        NEW x \in Inventory!Tests \cap Inventory!Built(D \X {"runtest"})
             PROVE  Inventory!Cardinality({o \in Inventory!Owners :
                     x \in Inventory!Built({<<o, "runtest">>})}) = 1
  BY DEF Inventory!InventoryIsExact
<1>1. PICK d \in D : x \in Inventory!Built({<<d, "runtest">>})
  BY BuiltApart
<1>2. /\ \A e \in D : Inventory!CheckNormalClosure(e)
      /\ cram \ Inventory!Excluded \subseteq Inventory!Owners /\ Inventory!Owners \subseteq D
  BY DEF Inventory!Accepted, Inventory!Owners
<1>3. x[1] = d /\ \A o \in Inventory!Owners : x \in Inventory!Built({<<o, "runtest">>}) => o = d
  BY <1>1, <1>2, BuiltStays
<1>4. d \in Inventory!Owners
  <2> SUFFICES ASSUME ~Inventory!HasNormalAlias(d), d \notin cram PROVE FALSE
    BY <1>1, <1>2 DEF Inventory!Owners
  <2>1. \A s \in dune[d] : s.kind # "library" /\ s.kind # "test" /\ "runtest" \notin s.names
    BY DEF Inventory!HasNormalAlias
  <2>2. Inventory!Graph(d, "runtest") = {}
    BY <2>1 DEF Inventory!Graph
  <2>3. x = <<d, "runtest">>
    BY ZenonT(60), <1>1, <1>2, <2>2, BuiltStays
  <2>4. x[2] = "runtest" /\ x \in Inventory!Tests
    BY <2>3
  <2> QED BY <1>3, <2>1, <2>4 DEF Inventory!Tests
<1>5. {o \in Inventory!Owners : x \in Inventory!Built({<<o, "runtest">>})} = {d}
  BY <1>1, <1>3, <1>4
<1> QED BY <1>5, FS_Singleton, NodesCounted

(* DocsDiff *)

\* The greatest number of a set with a last one.
LEMMA MaxLast ==
  ASSUME NEW n \in Nat, NEW s \in SUBSET (1..n), n \in s
  PROVE  Fences!Max(s) = n
<1>1. \A y \in s : n >= y
  OBVIOUS
<1>2. \A x \in s : (\A y \in s : x >= y) => x = n
  OBVIOUS
<1> QED BY <1>1, <1>2 DEF Fences!Max

\* A document scanned, and a sequence of lines read.
Scan(d) == Fences!FoldLeft(Fences!ScanLine, Fences!Scanner, d)
Read(q) == Fences!FoldLeft(Fences!ReadLine, Fences!Reader, q)

\* The fold of the scanner over a document is the end of a run of its steps.
LEMMA ScanRuns ==
  ASSUME NEW d, NEW n \in Nat, DOMAIN d = 1..n
  PROVE  \E run : /\ run[0] = Fences!Scanner
                  /\ \A k \in 1..n : run[k] = Fences!ScanLine(run[k - 1], d[k])
                  /\ Scan(d) = run[n]
<1> DEFINE Iterates(g, m) ==
      g = [s \in SUBSET (1..m) |->
             IF s = {} THEN Fences!Scanner
             ELSE Fences!ScanLine(g[s \ {Fences!Max(s)}], d[Fences!Max(s)])]
           S == {m \in Nat : \E g : Iterates(g, m)}
<1>1. 0 \in S
  <2>1. Iterates([s \in SUBSET (1..0) |-> Fences!Scanner], 0)
    <3>1. SUBSET (1..0) = {{}}
      OBVIOUS
    <3> QED BY <3>1
  <2> QED BY <2>1
<1>2. ASSUME NEW m \in Nat, m \in S PROVE m + 1 \in S
  <2>1. PICK g : Iterates(g, m)
    BY <1>2
  <2> DEFINE T == SUBSET (1..(m + 1))
             h == [s \in T |-> IF m + 1 \in s THEN Fences!ScanLine(g[s \ {m + 1}], d[m + 1])
                                ELSE g[s]]
  <2>2. \A s \in T : m + 1 \notin s => s \in SUBSET (1..m)
    OBVIOUS
  <2>3. ASSUME NEW s \in T
        PROVE  h[s] = IF s = {} THEN Fences!Scanner
                     ELSE Fences!ScanLine(h[s \ {Fences!Max(s)}], d[Fences!Max(s)])
    <3>1. CASE m + 1 \in s
      <4>1. Fences!Max(s) = m + 1
        BY <3>1, MaxLast
      <4>2. s \ {m + 1} \in T /\ m + 1 \notin s \ {m + 1}
        OBVIOUS
      <4>3. h[s \ {m + 1}] = g[s \ {m + 1}]
        BY <4>2
      <4>4. h[s] = Fences!ScanLine(g[s \ {m + 1}], d[m + 1])
        BY <3>1
      <4> HIDE DEF h
      <4> QED BY <3>1, <4>1, <4>3, <4>4
    <3>2. CASE m + 1 \notin s
      <4>1. s \in SUBSET (1..m)
        BY <2>2, <3>2
      <4>2. h[s] = g[s] /\ h[s \ {Fences!Max(s)}] = g[s \ {Fences!Max(s)}]
        BY <3>2
      <4>3. g[s] = IF s = {} THEN Fences!Scanner
                   ELSE Fences!ScanLine(g[s \ {Fences!Max(s)}], d[Fences!Max(s)])
        BY <2>1, <4>1
      <4> HIDE DEF h
      <4> QED BY <4>2, <4>3
    <3> QED BY <3>1, <3>2
  <2>4. h = [s \in T |-> h[s]]
    OBVIOUS
  <2>5. Iterates(h, m + 1)
    <3> HIDE DEF h
    <3> QED BY <2>3, <2>4
  <2> HIDE DEF Iterates
  <2> QED BY <2>5
<1>3. n \in S
  <2> HIDE DEF S
  <2> QED BY <1>1, <1>2, NatSetInduction
<1> DEFINE iter == CHOOSE g : Iterates(g, n)
<1>4. Iterates(iter, n)
  <2> HIDE DEF Iterates
  <2> QED BY <1>3
<1>5. Scan(d) = iter[1..n]
  BY Zenon DEF Scan, Fences!FoldLeft, Fences!MapThenFoldSet
<1> HIDE DEF iter
<1>6. iter[{}] = Fences!Scanner
  BY <1>4
<1>7. ASSUME NEW k \in 1..n PROVE iter[1..k] = Fences!ScanLine(iter[1..(k - 1)], d[k])
  <2>1. Fences!Max(1..k) = k
    BY MaxLast
  <2>2. (1..k) \ {k} = 1..(k - 1) /\ 1..k \in SUBSET (1..n) /\ 1..k # {}
    OBVIOUS
  <2> QED BY <1>4, <2>1, <2>2
<1> DEFINE run == [k \in 0..n |-> iter[1..k]]
<1>8. run[0] = Fences!Scanner
  BY <1>6
<1>9. \A k \in 1..n : run[k] = Fences!ScanLine(run[k - 1], d[k])
  BY <1>7
<1>10. Scan(d) = run[n]
  BY <1>5
<1> HIDE DEF run
<1> QED BY <1>8, <1>9, <1>10
\* The fold of the reader over a document is the end of a run of its steps.
LEMMA ReadRuns ==
  ASSUME NEW d, NEW n \in Nat, DOMAIN d = 1..n
  PROVE  \E run : /\ run[0] = Fences!Reader
                  /\ \A k \in 1..n : run[k] = Fences!ReadLine(run[k - 1], d[k])
                  /\ Read(d) = run[n]
<1> DEFINE Iterates(g, m) ==
      g = [s \in SUBSET (1..m) |->
             IF s = {} THEN Fences!Reader
             ELSE Fences!ReadLine(g[s \ {Fences!Max(s)}], d[Fences!Max(s)])]
           S == {m \in Nat : \E g : Iterates(g, m)}
<1>1. 0 \in S
  <2>1. Iterates([s \in SUBSET (1..0) |-> Fences!Reader], 0)
    <3>1. SUBSET (1..0) = {{}}
      OBVIOUS
    <3> QED BY <3>1
  <2> QED BY <2>1
<1>2. ASSUME NEW m \in Nat, m \in S PROVE m + 1 \in S
  <2>1. PICK g : Iterates(g, m)
    BY <1>2
  <2> DEFINE T == SUBSET (1..(m + 1))
             h == [s \in T |-> IF m + 1 \in s THEN Fences!ReadLine(g[s \ {m + 1}], d[m + 1])
                                ELSE g[s]]
  <2>2. \A s \in T : m + 1 \notin s => s \in SUBSET (1..m)
    OBVIOUS
  <2>3. ASSUME NEW s \in T
        PROVE  h[s] = IF s = {} THEN Fences!Reader
                     ELSE Fences!ReadLine(h[s \ {Fences!Max(s)}], d[Fences!Max(s)])
    <3>1. CASE m + 1 \in s
      <4>1. Fences!Max(s) = m + 1
        BY <3>1, MaxLast
      <4>2. s \ {m + 1} \in T /\ m + 1 \notin s \ {m + 1}
        OBVIOUS
      <4>3. h[s \ {m + 1}] = g[s \ {m + 1}]
        BY <4>2
      <4>4. h[s] = Fences!ReadLine(g[s \ {m + 1}], d[m + 1])
        BY <3>1
      <4> HIDE DEF h
      <4> QED BY <3>1, <4>1, <4>3, <4>4
    <3>2. CASE m + 1 \notin s
      <4>1. s \in SUBSET (1..m)
        BY <2>2, <3>2
      <4>2. h[s] = g[s] /\ h[s \ {Fences!Max(s)}] = g[s \ {Fences!Max(s)}]
        BY <3>2
      <4>3. g[s] = IF s = {} THEN Fences!Reader
                   ELSE Fences!ReadLine(g[s \ {Fences!Max(s)}], d[Fences!Max(s)])
        BY <2>1, <4>1
      <4> HIDE DEF h
      <4> QED BY <4>2, <4>3
    <3> QED BY <3>1, <3>2
  <2>4. h = [s \in T |-> h[s]]
    OBVIOUS
  <2>5. Iterates(h, m + 1)
    <3> HIDE DEF h
    <3> QED BY <2>3, <2>4
  <2> HIDE DEF Iterates
  <2> QED BY <2>5
<1>3. n \in S
  <2> HIDE DEF S
  <2> QED BY <1>1, <1>2, NatSetInduction
<1> DEFINE iter == CHOOSE g : Iterates(g, n)
<1>4. Iterates(iter, n)
  <2> HIDE DEF Iterates
  <2> QED BY <1>3
<1>5. Read(d) = iter[1..n]
  BY Zenon DEF Read, Fences!FoldLeft, Fences!MapThenFoldSet
<1> HIDE DEF iter
<1>6. iter[{}] = Fences!Reader
  BY <1>4
<1>7. ASSUME NEW k \in 1..n PROVE iter[1..k] = Fences!ReadLine(iter[1..(k - 1)], d[k])
  <2>1. Fences!Max(1..k) = k
    BY MaxLast
  <2>2. (1..k) \ {k} = 1..(k - 1) /\ 1..k \in SUBSET (1..n) /\ 1..k # {}
    OBVIOUS
  <2> QED BY <1>4, <2>1, <2>2
<1> DEFINE run == [k \in 0..n |-> iter[1..k]]
<1>8. run[0] = Fences!Reader
  BY <1>6
<1>9. \A k \in 1..n : run[k] = Fences!ReadLine(run[k - 1], d[k])
  BY <1>7
<1>10. Read(d) = run[n]
  BY <1>5
<1> HIDE DEF run
<1> QED BY <1>8, <1>9, <1>10

\* One more line is one more step of the reader.
LEMMA ReadAppend ==
  ASSUME NEW q, NEW n \in Nat, DOMAIN q = 1..n, NEW x, NEW t, DOMAIN t = 1..(n + 1),
         \A i \in 1..n : t[i] = q[i], t[n + 1] = x
  PROVE  Read(t) = Fences!ReadLine(Read(q), x)
<1>1. PICK a : /\ a[0] = Fences!Reader /\ \A k \in 1..n : a[k] = Fences!ReadLine(a[k - 1], q[k])
               /\ Read(q) = a[n]
  BY ReadRuns
<1>2. PICK b : /\ b[0] = Fences!Reader
               /\ \A k \in 1..(n + 1) : b[k] = Fences!ReadLine(b[k - 1], t[k])
               /\ Read(t) = b[n + 1]
  <2>1. n + 1 \in Nat
    OBVIOUS
  <2> QED BY <2>1, ReadRuns
<1> DEFINE S == {m \in Nat : m <= n => b[m] = a[m]}
<1>3. 0 \in S
  BY <1>1, <1>2
<1>4. ASSUME NEW m \in Nat, m \in S PROVE m + 1 \in S
  <2> SUFFICES ASSUME m + 1 <= n PROVE b[m + 1] = a[m + 1]
    OBVIOUS
  <2>1. m + 1 \in 1..n /\ m + 1 \in 1..(n + 1) /\ (m + 1) - 1 = m /\ m <= n
    OBVIOUS
  <2>2. b[m] = a[m]
    BY <1>4, <2>1
  <2>3. a[m + 1] = Fences!ReadLine(a[m], q[m + 1])
    BY <1>1, <2>1
  <2>4. b[m + 1] = Fences!ReadLine(b[m], t[m + 1])
    BY <1>2, <2>1
  <2> QED BY <2>1, <2>2, <2>3, <2>4
<1>5. n \in S
  <2> HIDE DEF S
  <2> QED BY <1>3, <1>4, NatSetInduction
<1>6. b[n] = a[n]
  BY <1>5
<1>7. b[n + 1] = Fences!ReadLine(b[n], x)
  BY <1>2, n + 1 \in 1..(n + 1), (n + 1) - 1 = n
<1> QED BY <1>1, <1>2, <1>6, <1>7

\* A scanner that has read everything so far, and a reader of the same lines.
Marks == {Fences!NoFence, [char |-> "backquote", len |-> 3], [char |-> "backquote", len |-> 4],
           [char |-> "tilde", len |-> 3]}

Lines == Fences!AllKinds \ {"indentedOpen"}
Tokens == Lines \cup {"any prose"}

ScannerFields == {"result", "fence", "inline", "comment", "frontmatter", "prose", "previous",
                  "refused"}

ScannerTyped(s) ==
  DOMAIN s = ScannerFields /\ s.result \in Seq(Tokens) /\ s.fence \in Marks

ReaderTyped(r) ==
  /\ r = [mode |-> r.mode, fence |-> r.fence, blocks |-> r.blocks]
  /\ r.mode \in {"start", "text", "frontmatter", "comment", "fence"} /\ r.fence \in Marks

\* They stand at the same place.
Together(s, r) ==
  /\ s.frontmatter <=> r.mode = "frontmatter"
  /\ s.comment <=> r.mode = "comment"
  /\ s.fence # Fences!NoFence <=> r.mode = "fence"
  /\ r.mode = "fence" => s.fence = r.fence
  /\ s.previous = "none" <=> r.mode = "start"
  /\ s.prose => r.mode = "text"

Follows(s, r) ==
  /\ ScannerTyped(s) /\ ReaderTyped(r)
  /\ ~s.refused => Together(s, r) /\ Read(s.result) = r

\* The marks of the lines.
LEMMA FenceMarks ==
  /\ \A line \in Tokens : Fences!FenceMark(line) \in Marks
  /\ \A line \in Tokens \ {"ticks", "longTicks", "info", "tildes"} :
       Fences!FenceMark(line) = Fences!NoFence
  /\ \A line \in {"ticks", "longTicks", "info", "tildes"} : Fences!FenceMark(line) # Fences!NoFence
<1>1. \A line \in {"ticks", "info"} : Fences!FenceMark(line) = [char |-> "backquote", len |-> 3]
  BY DEF Fences!FenceMark
<1>2. Fences!FenceMark("longTicks") = [char |-> "backquote", len |-> 4]
  BY DEF Fences!FenceMark
<1>3. Fences!FenceMark("tildes") = [char |-> "tilde", len |-> 3]
  BY DEF Fences!FenceMark
<1>4. \A line : line \notin {"ticks", "longTicks", "info", "tildes"}
                => Fences!FenceMark(line) = Fences!NoFence
  BY DEF Fences!FenceMark
<1>5. /\ [char |-> "backquote", len |-> 3] # Fences!NoFence
      /\ [char |-> "backquote", len |-> 4] # Fences!NoFence
      /\ [char |-> "tilde", len |-> 3] # Fences!NoFence
  BY DEF Fences!NoFence
<1> QED BY <1>1, <1>2, <1>3, <1>4, <1>5 DEF Marks

\* One more token is one more step of the reader.
LEMMA ReadOneMore ==
  ASSUME NEW q \in Seq(Tokens), NEW x \in Tokens
  PROVE  /\ Append(q, x) \in Seq(Tokens)
         /\ Read(Append(q, x)) = Fences!ReadLine(Read(q), x)
<1>1. PICK n, t : n = Len(q) /\ t = Append(q, x)
  OBVIOUS
<1>2. n \in Nat /\ DOMAIN q = 1..n
  BY <1>1
<1>3. /\ DOMAIN t = 1..(n + 1) /\ t[n + 1] = x /\ \A i \in 1..n : t[i] = q[i]
      /\ t \in Seq(Tokens)
  BY <1>1, <1>2
<1> QED BY ZenonT(60), <1>1, <1>2, <1>3, ReadAppend

\* The reader keeps its type.
LEMMA ReaderStep ==
  ASSUME NEW r, ReaderTyped(r), NEW line \in Tokens
  PROVE  ReaderTyped(Fences!ReadLine(r, line))
<1>1. PICK e : e = Fences!ReadLine(r, line)
  OBVIOUS
<1>2. Fences!FenceMark(line) \in Marks
  BY FenceMarks
<1>3. ASSUME NEW mode \in {"start", "text", "frontmatter", "comment", "fence"},
             e = [r EXCEPT !.mode = mode]
      PROVE  ReaderTyped(e)
  BY <1>3 DEF ReaderTyped
<1>4. CASE r.mode = "fence"
  <2>1. PICK b, mode : /\ e = [mode |-> mode, fence |-> r.fence, blocks |-> b]
                       /\ mode \in {"text", "fence"}
    <3>1. CASE /\ line # "info" /\ Fences!FenceMark(line).char = r.fence.char
               /\ Fences!FenceMark(line).len >= r.fence.len
      <4>1. e = [r EXCEPT !.mode = "text", !.blocks = Append(@, "end")]
        BY <1>1, <1>4, <3>1 DEF Fences!ReadLine
      <4>2. e = [mode |-> "text", fence |-> r.fence, blocks |-> Append(r.blocks, "end")]
        BY <4>1 DEF ReaderTyped
      <4> QED BY <4>2
    <3>2. CASE ~(/\ line # "info" /\ Fences!FenceMark(line).char = r.fence.char
                 /\ Fences!FenceMark(line).len >= r.fence.len)
      <4>1. e = [r EXCEPT !.blocks = Append(@, line)]
        BY <1>1, <1>4, <3>2 DEF Fences!ReadLine
      <4>2. e = [mode |-> "fence", fence |-> r.fence, blocks |-> Append(r.blocks, line)]
        BY <1>4, <4>1 DEF ReaderTyped
      <4> QED BY <4>2
    <3> QED BY <3>1, <3>2
  <2> QED BY <1>1, <2>1 DEF ReaderTyped
<1>5. PICK f : f = [mode |-> "fence", fence |-> Fences!FenceMark(line),
                   blocks |-> Append(r.blocks, line)]
  OBVIOUS
<1>6. CASE r.mode # "fence" /\ e = f
  BY <1>1, <1>2, <1>6, <1>5 DEF ReaderTyped
<1>7. CASE r.mode # "fence" /\ e # f
  <2>1. PICK mode \in {"start", "text", "frontmatter", "comment", "fence"} :
            e = [r EXCEPT !.mode = mode]
    <3>1. r = [r EXCEPT !.mode = r.mode]
      BY DEF ReaderTyped
    <3> QED BY <1>1, <1>7, <1>5, <3>1 DEF Fences!ReadLine
  <2> QED BY <1>1, <1>3, <2>1
<1> QED BY <1>4, <1>6, <1>7

\* What is kept of a line.
LEMMA KeptKeeps ==
  ASSUME NEW s, ScannerTyped(s), NEW line \in Tokens
  PROVE  /\ DOMAIN Fences!Kept(s, line) = ScannerFields /\ ScannerTyped(Fences!Kept(s, line))
         /\ Fences!Kept(s, line).result = Append(s.result, line)
         /\ Fences!Kept(s, line).previous = line
         /\ Fences!Kept(s, line).prose = FALSE
         /\ Fences!Kept(s, line).fence = s.fence /\ Fences!Kept(s, line).inline = s.inline
         /\ Fences!Kept(s, line).comment = s.comment /\ Fences!Kept(s, line).refused = s.refused
         /\ Fences!Kept(s, line).frontmatter = s.frontmatter
<1>1. PICK k : k = Fences!Kept(s, line)
  OBVIOUS
<1>2. /\ DOMAIN k = ScannerFields
      /\ k.result = Append(s.result, line) /\ k.previous = line /\ k.prose = FALSE
      /\ k.fence = s.fence /\ k.inline = s.inline
      /\ k.comment = s.comment /\ k.refused = s.refused /\ k.frontmatter = s.frontmatter
  BY <1>1 DEF Fences!Kept, ScannerTyped, ScannerFields
<1>3. Append(s.result, line) \in Seq(Tokens)
  BY DEF ScannerTyped
<1> QED BY <1>1, <1>2, <1>3 DEF ScannerTyped

\* Both go on together: what changes the scanner's place changes the reader's.
LEMMA FollowsStep ==
  ASSUME NEW s, NEW r, Follows(s, r), NEW line \in Lines
  PROVE  Follows(Fences!ScanLine(s, line), Fences!ReadLine(r, line))
<1>1. PICK n, e, kept : /\ n = Fences!ScanLine(s, line) /\ e = Fences!ReadLine(r, line)
                       /\ kept = Fences!Kept(s, line)
  OBVIOUS
<1>2. /\ ScannerTyped(s) /\ ReaderTyped(r) /\ ReaderTyped(e) /\ line \in Tokens
      /\ Fences!FenceMark(line) \in Marks /\ Fences!NoFence \in Marks
      /\ Fences!FenceOf(line) = Fences!FenceMark(line)
      /\ line # "none" /\ line # "indentedOpen"
  BY <1>1, FenceMarks, ReaderStep DEF Follows, Tokens, Marks, Fences!FenceOf, Lines, Fences!AllKinds
<1>3. CASE s.refused
  <2>1. n = s
    BY <1>1, <1>3 DEF Fences!ScanLine
  <2> QED BY <1>1, <1>2, <1>3, <2>1 DEF Follows
<1>4. CASE ~s.refused /\ Fences!Refuses(s, line)
  <2>1. n = [s EXCEPT !.refused = TRUE]
    BY <1>1, <1>4 DEF Fences!ScanLine
  <2>2. ScannerTyped(n) /\ n.refused
    BY <1>2, <2>1 DEF ScannerTyped, ScannerFields
  <2> QED BY <1>1, <1>2, <2>2 DEF Follows
<1> DEFINE first == s.previous = "none"
<1>5. ASSUME ~s.refused, ~Fences!Refuses(s, line) PROVE Follows(n, e)
  <2>1. Together(s, r) /\ Read(s.result) = r
    BY <1>5 DEF Follows
  <2>2. /\ DOMAIN kept = ScannerFields /\ kept.result = Append(s.result, line)
        /\ kept.previous = line /\ kept.prose = FALSE /\ kept.fence = s.fence
        /\ kept.comment = s.comment /\ kept.frontmatter = s.frontmatter
        /\ kept.result \in Seq(Tokens)
    BY <1>1, <1>2, KeptKeeps DEF ScannerTyped
  <2>3. Read(kept.result) = e
    BY <1>1, <1>2, <2>1, <2>2, ReadOneMore DEF ScannerTyped
  <2>4. CASE s.frontmatter \/ (first /\ line = "dashes")
    <3>1. n = [kept EXCEPT !.frontmatter = first \/ line # "dashes"]
      BY <1>1, <1>5, <2>4 DEF Fences!ScanLine
    <3>2. /\ DOMAIN n = ScannerFields /\ n.result = kept.result /\ n.previous = line
          /\ n.prose = FALSE /\ n.fence = s.fence /\ n.comment = s.comment
      BY <2>2, <3>1 DEF ScannerFields
    <3>3. n.frontmatter = (first \/ line # "dashes")
      BY <2>2, <3>1 DEF ScannerFields
    <3>4. CASE first
      <4>1. e = [r EXCEPT !.mode = "frontmatter"]
        BY <1>1, <2>1, <2>4, <3>4 DEF Fences!ReadLine, Together
      <4> QED BY <1>1, <1>2, <2>1, <2>2, <2>3, <3>2, <3>3, <3>4, <4>1
              DEF Follows, ScannerTyped, ReaderTyped, Together
    <3>5. CASE ~first
      <4>1. e = [r EXCEPT !.mode = IF line = "dashes" THEN "text" ELSE @]
        BY <1>1, <2>1, <2>4, <3>5 DEF Fences!ReadLine, Together
      <4> QED BY <1>1, <1>2, <2>1, <2>2, <2>3, <2>4, <3>2, <3>3, <3>5, <4>1
              DEF Follows, ScannerTyped, ReaderTyped, Together
    <3> QED BY <3>4, <3>5
  <2> DEFINE outside == ~s.frontmatter /\ ~(first /\ line = "dashes")
  <2>5. CASE outside /\ s.fence # Fences!NoFence
    <3>1. n = [kept EXCEPT !.fence = IF Fences!Closes(line, s.fence) THEN Fences!NoFence ELSE @]
      BY <1>1, <1>5, <2>5 DEF Fences!ScanLine
    <3>2. /\ DOMAIN n = ScannerFields /\ n.result = kept.result /\ n.previous = line
          /\ n.prose = FALSE /\ n.frontmatter = s.frontmatter /\ n.comment = s.comment
          /\ n.fence = IF Fences!Closes(line, s.fence) THEN Fences!NoFence ELSE s.fence
      BY <2>2, <3>1 DEF ScannerFields
    <3>3. r.mode = "fence" /\ s.fence = r.fence
      BY <2>1, <2>5 DEF Together
    <3>4. CASE Fences!Closes(line, s.fence)
      <4>1. e = [r EXCEPT !.mode = "text", !.blocks = Append(@, "end")]
        BY <1>1, <1>2, <3>3, <3>4 DEF Fences!ReadLine, Fences!Closes
      <4> QED BY <1>1, <1>2, <2>1, <2>2, <2>3, <3>2, <3>3, <3>4, <4>1
              DEF Follows, ScannerTyped, ReaderTyped, Together
    <3>5. CASE ~Fences!Closes(line, s.fence)
      <4>1. e = [r EXCEPT !.blocks = Append(@, line)]
        BY <1>1, <1>2, <3>3, <3>5 DEF Fences!ReadLine, Fences!Closes
      <4> QED BY <1>1, <1>2, <2>1, <2>2, <2>3, <2>5, <3>2, <3>3, <3>5, <4>1
              DEF Follows, ScannerTyped, ReaderTyped, Together
    <3> QED BY <3>4, <3>5
  <2>6. CASE outside /\ s.fence = Fences!NoFence /\ s.comment
    <3>1. n = [kept EXCEPT !.comment = line # "close"]
      BY <1>1, <1>5, <2>6 DEF Fences!ScanLine
    <3>2. /\ DOMAIN n = ScannerFields /\ n.result = kept.result /\ n.previous = line
          /\ n.prose = FALSE /\ n.frontmatter = s.frontmatter /\ n.fence = s.fence
      BY <2>2, <3>1 DEF ScannerFields
    <3>3. n.comment = (line # "close")
      BY <2>2, <3>1 DEF ScannerFields
    <3>4. r.mode = "comment" /\ line # "tail"
      BY <1>5, <2>1, <2>6 DEF Together, Fences!Refuses
    <3>5. e = [r EXCEPT !.mode = IF line \in {"close", "tail"} THEN "text" ELSE @]
      BY <1>1, <3>4 DEF Fences!ReadLine
    <3> QED BY <1>1, <1>2, <2>1, <2>2, <2>3, <2>6, <3>2, <3>3, <3>4, <3>5
            DEF Follows, ScannerTyped, ReaderTyped, Together
  <2>7. ASSUME outside, s.fence = Fences!NoFence, ~s.comment PROVE Follows(n, e)
    <3>1. /\ r.mode \in {"start", "text"} /\ ~(r.mode = "start" /\ line = "dashes")
      BY <1>2, <2>1, <2>7 DEF Together, ReaderTyped
    <3>2. CASE Fences!FenceMark(line) # Fences!NoFence
      <4>1. n = [kept EXCEPT !.fence = Fences!FenceMark(line)]
        BY <1>1, <1>2, <1>5, <2>7, <3>2 DEF Fences!ScanLine
      <4>2. /\ DOMAIN n = ScannerFields /\ n.result = kept.result /\ n.previous = line
            /\ n.prose = FALSE /\ n.frontmatter = s.frontmatter /\ n.comment = s.comment
            /\ n.fence = Fences!FenceMark(line)
        BY <2>2, <4>1 DEF ScannerFields
      <4>3. e = [mode |-> "fence", fence |-> Fences!FenceMark(line),
                 blocks |-> Append(r.blocks, line)]
        BY <1>1, <3>1, <3>2 DEF Fences!ReadLine
      <4> QED BY <1>1, <1>2, <2>1, <2>2, <2>3, <2>7, <3>2, <4>2, <4>3
              DEF Follows, ScannerTyped, ReaderTyped, Together
    <3>3. CASE line = "open"
      <4>1. Fences!FenceMark(line) = Fences!NoFence
        BY <1>2, <3>3, FenceMarks
      <4>2. n = [kept EXCEPT !.comment = TRUE]
        BY <1>1, <1>2, <1>5, <2>7, <3>3, <4>1 DEF Fences!ScanLine
      <4>3. /\ DOMAIN n = ScannerFields /\ n.result = kept.result /\ n.previous = line
            /\ n.prose = FALSE /\ n.frontmatter = s.frontmatter /\ n.comment = TRUE
            /\ n.fence = s.fence
        BY <2>2, <4>2 DEF ScannerFields
      <4>4. e = [r EXCEPT !.mode = "comment"]
        BY <1>1, <3>1, <3>3, <4>1 DEF Fences!ReadLine
      <4> QED BY <1>1, <1>2, <2>1, <2>2, <2>3, <2>7, <4>3, <4>4
              DEF Follows, ScannerTyped, ReaderTyped, Together
    <3>4. ASSUME Fences!FenceMark(line) = Fences!NoFence, line # "open" PROVE Follows(n, e)
      <4>1. e = [r EXCEPT !.mode = "text"]
        BY <1>1, <3>1, <3>4 DEF Fences!ReadLine
      <4>2. CASE ~(s.inline \/ line = "lone") /\ Fences!Ordinary(line)
        <5>1. n = [s EXCEPT !.result = IF s.prose THEN @ ELSE Append(@, "any prose"),
                            !.prose = TRUE, !.previous = line]
          BY <1>1, <1>2, <1>5, <2>7, <3>4, <4>2 DEF Fences!ScanLine
        <5>2. /\ DOMAIN n = ScannerFields /\ n.previous = line
              /\ n.prose = TRUE /\ n.frontmatter = s.frontmatter /\ n.comment = s.comment
              /\ n.fence = s.fence
              /\ n.result = IF s.prose THEN s.result ELSE Append(s.result, "any prose")
          BY <1>2, <5>1 DEF ScannerFields, ScannerTyped
        <5>3. n.result \in Seq(Tokens) /\ Read(n.result) = e
          <6>1. CASE s.prose
            <7>1. r.mode = "text"
              BY <2>1, <6>1 DEF Together
            <7>2. e = r
              BY <1>2, <4>1, <7>1 DEF ReaderTyped
            <7> QED BY <1>2, <2>1, <5>2, <6>1, <7>2 DEF ScannerTyped
          <6>2. CASE ~s.prose
            <7>1. Fences!ReadLine(r, "any prose") = [r EXCEPT !.mode = "text"]
              BY <3>1, FenceMarks DEF Fences!ReadLine, Tokens, Lines, Fences!AllKinds
            <7>2. "any prose" \in Tokens /\ s.result \in Seq(Tokens)
              BY <1>2 DEF ScannerTyped, Tokens
            <7>3. n.result = Append(s.result, "any prose")
              BY <5>2, <6>2
            <7>4. n.result \in Seq(Tokens)
              BY <7>2, <7>3, ReadOneMore
            <7>5. Read(n.result) = Fences!ReadLine(r, "any prose")
              BY <2>1, <7>2, <7>3, ReadOneMore
            <7> QED BY <4>1, <7>1, <7>4, <7>5
          <6> QED BY <6>1, <6>2
        <5> QED BY <1>1, <1>2, <2>1, <2>7, <4>1, <5>2, <5>3
                DEF Follows, ScannerTyped, ReaderTyped, Together
      <4>3. CASE (s.inline \/ line = "lone") \/ ~Fences!Ordinary(line)
        <5>1. n = kept \/ n = [kept EXCEPT !.inline = s.inline # (line = "lone")]
          BY <1>1, <1>2, <1>5, <2>7, <3>4, <4>3 DEF Fences!ScanLine
        <5>2. /\ DOMAIN n = ScannerFields /\ n.result = kept.result /\ n.previous = line
              /\ n.prose = FALSE /\ n.frontmatter = s.frontmatter /\ n.comment = s.comment
              /\ n.fence = s.fence
          BY <2>2, <5>1 DEF ScannerFields
        <5> QED BY <1>1, <1>2, <2>1, <2>2, <2>3, <2>7, <4>1, <5>2
                DEF Follows, ScannerTyped, ReaderTyped, Together
      <4> QED BY <4>2, <4>3
    <3> QED BY <3>2, <3>3, <3>4
  <2> QED BY <2>4, <2>5, <2>6, <2>7
<1> QED BY <1>1, <1>3, <1>4, <1>5

\* Equal results were read alike.
LEMMA RunsFollow ==
  ASSUME NEW d \in Seq(Lines)
  PROVE  Follows(Scan(d), Read(d))
<1>1. PICK n : n = Len(d)
  OBVIOUS
<1>2. n \in Nat /\ DOMAIN d = 1..n /\ \A k \in 1..n : d[k] \in Lines
  BY <1>1
<1>3. PICK a : /\ a[0] = Fences!Scanner /\ \A k \in 1..n : a[k] = Fences!ScanLine(a[k - 1], d[k])
               /\ Scan(d) = a[n]
  BY <1>2, ScanRuns
<1>4. PICK b : /\ b[0] = Fences!Reader /\ \A k \in 1..n : b[k] = Fences!ReadLine(b[k - 1], d[k])
               /\ Read(d) = b[n]
  BY <1>2, ReadRuns
<1> DEFINE S == {m \in Nat : m <= n => Follows(a[m], b[m])}
<1>5. 0 \in S
  <2>1. Fences!Scanner.result = << >> /\ Read(<< >>) = Fences!Reader
    <3>1. DOMAIN << >> = 1..0
      OBVIOUS
    <3>2. PICK c : c[0] = Fences!Reader /\ Read(<< >>) = c[0]
      BY <3>1, ReadRuns
    <3> QED BY <3>2 DEF Fences!Scanner
  <2>2. ScannerTyped(Fences!Scanner) /\ ReaderTyped(Fences!Reader)
    BY DEF ScannerTyped, ReaderTyped, Fences!Scanner, Fences!Reader, ScannerFields, Marks
  <2>3. Together(Fences!Scanner, Fences!Reader)
    BY DEF Together, Fences!Scanner, Fences!Reader
  <2> QED BY <1>3, <1>4, <2>1, <2>2, <2>3 DEF Follows
<1>6. ASSUME NEW m \in Nat, m \in S PROVE m + 1 \in S
  <2> SUFFICES ASSUME m + 1 <= n PROVE Follows(a[m + 1], b[m + 1])
    OBVIOUS
  <2>1. m + 1 \in 1..n /\ (m + 1) - 1 = m /\ m <= n
    BY <1>2
  <2>2. Follows(a[m], b[m]) /\ d[m + 1] \in Lines
    BY <1>2, <1>6, <2>1
  <2>3. a[m + 1] = Fences!ScanLine(a[m], d[m + 1]) /\ b[m + 1] = Fences!ReadLine(b[m], d[m + 1])
    BY <1>3, <1>4, <2>1
  <2> QED BY <2>2, <2>3, FollowsStep
<1>7. n \in S
  <2> HIDE DEF S
  <2> QED BY <1>2, <1>5, <1>6, NatSetInduction
<1> QED BY <1>2, <1>3, <1>4, <1>7

\* Whatever the length of a document is, and however many lines were changed.
THEOREM ProofIsExact ==
  ASSUME NEW left \in Seq(Lines), NEW right \in Seq(Lines),
         Fences!IsDocumentationOnlyChange(left, right)
  PROVE  Fences!Executable(left) = Fences!Executable(right)
<1>1. ASSUME NEW d \in Seq(Lines), Fences!MarkdownProof(d) # Fences!Refused
      PROVE  Fences!MarkdownProof(d) = Scan(d).result /\ Read(d) = Read(Scan(d).result)
  <2>1. ~Scan(d).refused /\ Fences!MarkdownProof(d) = Scan(d).result
    BY <1>1 DEF Fences!MarkdownProof, Scan
  <2>2. Follows(Scan(d), Read(d))
    BY RunsFollow
  <2> QED BY <2>1, <2>2 DEF Follows
<1>2. /\ Fences!MarkdownProof(left) # Fences!Refused /\ Fences!MarkdownProof(right) # Fences!Refused
      /\ Fences!MarkdownProof(left) = Fences!MarkdownProof(right)
  BY DEF Fences!IsDocumentationOnlyChange
<1>3. Read(left) = Read(right)
  <2>1. Scan(left).result = Scan(right).result
    BY <1>1, <1>2
  <2> QED BY <1>1, <1>2, <2>1
<1> QED BY <1>3 DEF Fences!Executable, Read

(* The theorems *)

\* Both invariants, where their model runs.
PolicyInv == (subject = "reruns" => ShardsInv) /\ BrowserInv

\* The parts of the module take turns and share nothing.
LEMMA PolicyInvariant == MCSpec => []PolicyInv
<1>1. MCInit => PolicyInv
  BY ShardsInit, BrowserInit DEF MCInit, PolicyInv
<1>2. PolicyInv /\ [MCNext]_<<shardVars, documentVars, inventoryVars, browserVars, subject>>
        => PolicyInv'
  <2> SUFFICES ASSUME PolicyInv,
                      [MCNext]_<<shardVars, documentVars, inventoryVars, browserVars, subject>>
               PROVE  PolicyInv'
    OBVIOUS
  <2>1. /\ subject' = subject
        /\ subject = "reruns" => [Next]_vars
        /\ [Browser!Next]_(Browser!vars)
    BY DEF MCNext, shardVars, browserVars, vars, Browser!vars
  <2> QED BY <2>1, ShardsStep, BrowserStep DEF PolicyInv
<1> QED BY <1>1, <1>2, PTL DEF MCSpec

\* When the gate passes, the latest execution of every framework test passed, in
\* whichever attempt (framework-shards.mjs:175).
THEOREM ShardsQualify == MCSpec => []QualifiedIsTestedInReruns
<1>1. PolicyInv => QualifiedIsTestedInReruns
  <2> SUFFICES ASSUME ShardsInv, gate = "pass", NEW a \in Aliases PROVE last[a] = "pass"
    BY DEF PolicyInv, QualifiedIsTestedInReruns, QualifiedIsTested
  <2>1. PICK s \in Shards : a \in plan[s]
    BY DEF ShardsInv, ValidPlan
  <2> QED BY <2>1, ShardJobs DEF ShardsInv
<1> QED BY <1>1, PolicyInvariant, PTL

\* What may be published was tested by its shards, each test by one of them, against
\* the bytes of the release (browser-evidence.mjs:28-90).
THEOREM BrowserQualifies == MCSpec => []PublishableIsTested
<1>1. PolicyInv => PublishableIsTested
  <2> SUFFICES ASSUME BrowserInv, result["gate"] = "success", NEW t \in BrowserTests
               PROVE  \E i \in Browser!Shards :
                        /\ \A j \in Browser!Shards : t \in DOMAIN executed[j].outcome <=> j = i
                        /\ executed[i].bytes = release.bytes
                        /\ executed[i].outcome[t] \in {"passed", "skipped"}
    BY DEF PolicyInv, PublishableIsTested, Browser!PublishableIsTested
  <2>1. \A j \in {"website", "browser1", "browser2", "qualification"} : result[j] = "success"
    BY DEF BrowserInv, Browser!Succeeded, Browser!Jobs
  <2>2. Tested(1) /\ Tested(2) /\ build.tests = BrowserTests
    BY <2>1, TwoShards DEF BrowserInv
  <2>3. Browser!QualifyBrowserShards(build.tests) /\ release.bytes = build.bytes
    BY <2>1, TwoShards DEF BrowserInv, Browser!Succeeded, Browser!Evidence
  <2>4. /\ DOMAIN executed[1].outcome \cap DOMAIN executed[2].outcome = {}
        /\ DOMAIN executed[1].outcome \cup DOMAIN executed[2].outcome = BrowserTests
    BY <2>2, <2>3 DEF Browser!QualifyBrowserShards, Tested
  <2>5. PICK i \in {1, 2} : t \in DOMAIN executed[i].outcome
    BY <2>4
  <2>6. \A j \in {1, 2} : t \in DOMAIN executed[j].outcome <=> j = i
    BY <2>4, <2>5
  <2> QED BY <2>2, <2>3, <2>5, <2>6, TwoShards DEF Tested
<1> QED BY <1>1, PolicyInvariant, PTL

\* A plan there is was made of the weights there are: they do not change.
PlansInv ==
  subject = "plans" =>
    /\ Weighed
    /\ plan # Plans!NoPlan =>
         \A s, t \in Plans!Shards : \A a \in plan[s] :
           LoadOf(weights, plan[s]) - weights[a] <= LoadOf(weights, plan[t])

\* The plan is made once.
LEMMA PlansInvariant == MCSpec => []PlansInv
<1>1. MCInit => PlansInv
  BY PlansAssumption DEF MCInit, Plans!Init, PlansInv, Weighed
<1>2. PlansInv /\ [MCNext]_<<shardVars, documentVars, inventoryVars, browserVars, subject>>
        => PlansInv'
  <2> SUFFICES ASSUME PlansInv, subject' = "plans",
                      [MCNext]_<<shardVars, documentVars, inventoryVars, browserVars, subject>>
               PROVE  PlansInv'
    BY DEF PlansInv
  <2>1. subject = "plans" /\ (Plans!Next \/ UNCHANGED shardVars)
    BY DEF MCNext
  <2>2. weights' = weights
    BY <2>1 DEF shardVars, Plans!Next, Plans!Plan, Plans!FinishE2E, Plans!Gate, Plans!Rerun,
                Plans!Start, Plans!Finish, Plans!Die
  <2>3. Weighed /\ Weighed'
    BY <2>1, <2>2 DEF PlansInv, Weighed
  <2>4. CASE plan' = plan
    BY <2>1, <2>2, <2>3, <2>4 DEF PlansInv
  <2>5. CASE plan' = Plans!CreatePlan
    <3>1. \A s, t \in Plans!Shards : \A a \in plan'[s] :
            LoadOf(weights, plan'[s]) - weights[a] <= LoadOf(weights, plan'[t])
      BY <2>3, <2>5, PlanBalanced DEF Load
    <3> QED BY <2>2, <2>3, <3>1 DEF PlansInv
  <2>6. plan' = plan \/ plan' = Plans!CreatePlan
    BY <2>1 DEF shardVars, Plans!Next, Plans!Plan, Plans!FinishE2E, Plans!Gate, Plans!Rerun,
                Plans!Start, Plans!Finish, Plans!Die
  <2> QED BY <2>4, <2>5, <2>6
<1> QED BY <1>1, <1>2, PTL DEF MCSpec

\* For every inventory, number of shards and record of timings, zeros included, the plan
\* is a partition into nonempty shards, and no shard carries more than another by over its
\* lightest test (framework-shards.mjs:120-178).
THEOREM PlansAreValid == MCSpec => []PlanIsValid
<1>1. PlansInv => PlanIsValid
  BY PlanComplete
     DEF PlansInv, PlanIsValid, Plans!PlanIsComplete, Plans!PlanIsBalanced, LoadOf
<1> QED BY <1>1, PlansInvariant, PTL

\* The revisions of a document are lines, of kinds the proof is about.
DocumentLines == before \in Seq(Lines) /\ after \in Seq(Lines)

\* Lines are added to them.
LEMMA DocumentsTyped == MCSpec => []DocumentLines
<1>1. MCInit => DocumentLines
  BY DEF MCInit, Fences!Init, DocumentLines
<1>2. DocumentLines /\ [MCNext]_<<shardVars, documentVars, inventoryVars, browserVars, subject>>
        => DocumentLines'
  <2> SUFFICES ASSUME DocumentLines,
                      [MCNext]_<<shardVars, documentVars, inventoryVars, browserVars, subject>>
               PROVE  DocumentLines'
    OBVIOUS
  <2>1. CASE Fences!Next \/ Syntax!Next
    <3>1. ASSUME NEW line \in Lines, before' = Append(before, line), after' = Append(after, line)
          PROVE  DocumentLines'
      BY <3>1 DEF DocumentLines
    <3>2. ASSUME NEW old \in Seq(Lines), NEW new \in Seq(Lines),
                 before' = before \o old, after' = after \o new
          PROVE  DocumentLines'
      BY <3>2 DEF DocumentLines
    <3>3. /\ {"prose", "words", "ticks", "longTicks", "info", "open", "close"} \subseteq Lines
          /\ {"prose", "words", "heading", "tildes", "ticks", "dashes", "plus", "lone",
              "html", "tail", "open"} \subseteq Lines
      BY DEF Lines, Fences!AllKinds
    <3>4. << >> \in Seq(Lines) /\ \A line \in Lines : <<line>> \in Seq(Lines)
      OBVIOUS
    <3>5. /\ Fences!Next => \/ \E line \in Lines : Fences!Same(line)
                           \/ \E old, new \in Seq(Lines) : Fences!Edit(old, new)
          /\ Syntax!Next => \/ \E line \in Lines : Syntax!Same(line)
                           \/ \E old, new \in Seq(Lines) : Syntax!Edit(old, new)
      BY <3>3, <3>4 DEF Fences!Next, Syntax!Next
    <3>6. (\E line \in Lines : Fences!Same(line) \/ Syntax!Same(line)) => DocumentLines'
      BY <3>1 DEF Fences!Same, Syntax!Same
    <3>7. (\E old, new \in Seq(Lines) : Fences!Edit(old, new) \/ Syntax!Edit(old, new))
            => DocumentLines'
      BY <3>2 DEF Fences!Edit, Syntax!Edit
    <3> QED BY <2>1, <3>5, <3>6, <3>7
  <2>2. CASE UNCHANGED documentVars
    BY <2>2 DEF DocumentLines, documentVars
  <2> QED BY <2>1, <2>2 DEF MCNext
<1> QED BY <1>1, <1>2, PTL DEF MCSpec

\* A change that is proved to be documentation only leaves every fenced block, whatever
\* the length of the document and the number of its edits (docs-diff.mjs:52).
THEOREM DocumentsStayExact == MCSpec => []ExecutableStaysExact
<1>1. DocumentLines => ExecutableStaysExact
  BY ProofIsExact DEF DocumentLines, ExecutableStaysExact, Fences!ExecutableStaysExact
<1> QED BY <1>1, DocumentsTyped, PTL

\* Every test that the runtest alias of the whole tree runs is run by one alias of the
\* inventory, whatever the Dune files say, and no shard repeats another's
\* (framework-inventory.mjs:123-306).
THEOREM InventoryStaysExact == MCSpec => []InventoryIsExact
<1>1. InventoryIsExact
  BY InventoryExact DEF InventoryIsExact
<1> QED BY <1>1, PTL
=============================================================================
