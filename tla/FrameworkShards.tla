-------------------------- MODULE FrameworkShards --------------------------
(***************************************************************************)
(* The framework jobs of one workflow run: the partition of the test       *)
(* aliases into shards (.github/scripts/framework-shards.mjs), the shard   *)
(* jobs and their reports (framework-tests.mjs), reruns, and the           *)
(* qualification the release gate makes of the reports.                    *)
(*                                                                         *)
(* The source is fixed: reruns keep the revision and the run id, so the    *)
(* identities that plan and reports carry never differ within the model.   *)
(* The name of a report's artifact is its shard's: an attempt that uploads  *)
(* one overwrites that of the attempt before, and one that dies keeps it.   *)
(***************************************************************************)
EXTENDS Naturals, FiniteSets, FiniteSetsExt, Folds

CONSTANTS
  AliasCount,   \* test aliases of the inventory, numbered in the order of their ids
  ShardCount,   \* shards of the normal tier (8 in the code)
  Weights,      \* the weights a recorded timing may have
  MaxAttempts   \* bound: attempts of the workflow run; 0 stops after the plan

ASSUME ShardsAssumption ==
  /\ AliasCount \in Nat /\ ShardCount \in Nat \ {0}
  /\ AliasCount >= ShardCount   \* inventoryEntries refuses fewer
  /\ Weights \subseteq Nat
  /\ MaxAttempts \in Nat

Aliases == 1..AliasCount
Shards == 1..ShardCount
E2E == 0                       \* the e2e tier: a job without a shard report
Jobs == Shards \cup {E2E}

VARIABLES
  weights,   \* the recorded timings
  plan,      \* the plan artifact: the aliases of each shard
  job,       \* the state of each job in the current attempt
  reports,   \* the report artifact of each shard
  attempt,   \* the number of the current attempt
  gate,      \* the outcome of the gate in the current attempt
  last       \* what the latest finished execution of each test did

vars == <<weights, plan, job, reports, attempt, gate, last>>

NoReport == [aliases |-> {}, result |-> "none"]
NoPlan == [s \in Shards |-> {}]

(* The partition *)

\* Mutant: the timings are not used.
ById(a, b) == a < b

\* Longest first, ties in the order of the ids.
Heavier(a, b) == weights[a] > weights[b] \/ (weights[a] = weights[b] /\ a < b)

\* The alias that comes after all the others: it is assigned when they are.
Lightest(aliases) == CHOOSE a \in aliases : \A b \in aliases : b = a \/ Heavier(b, a)

EmptyGroups == [s \in Shards |-> [aliases |-> {}, weight |-> 0]]

\* Mutant: ties on weight go to the first shard.
LighterOnly(groups, s, t) ==
  \/ groups[s].weight < groups[t].weight
  \/ groups[s].weight = groups[t].weight /\ s <= t

\* s precedes t among the shards that may take the next alias.
Lighter(groups, s, t) ==
  LET size(u) == Cardinality(groups[u].aliases)
  IN \/ groups[s].weight < groups[t].weight
     \/ /\ groups[s].weight = groups[t].weight
        /\ size(s) < size(t) \/ (size(s) = size(t) /\ s <= t)

Assign(groups, alias) ==
  LET s == CHOOSE s \in Shards : \A t \in Shards : Lighter(groups, s, t)
  IN [groups EXCEPT ![s] = [aliases |-> @.aliases \cup {alias},
                            weight  |-> @.weight + weights[alias]]]

Groups == MapThenFoldSet(LAMBDA alias, groups : Assign(groups, alias), EmptyGroups,
                         LAMBDA alias : alias, Lightest, Aliases)

CreatePlan == LET groups == Groups IN [s \in Shards |-> groups[s].aliases]

ValidPlan(p) ==
  /\ UNION {p[s] : s \in Shards} = Aliases
  /\ \A s \in Shards : p[s] # {}
  /\ \A s, t \in Shards : s # t => p[s] \cap p[t] = {}

(* Jobs *)

Init ==
  /\ weights \in [Aliases -> Weights]
  /\ plan = NoPlan
  /\ job = [j \in Jobs |-> "waiting"]
  /\ reports = [s \in Shards |-> NoReport]
  /\ attempt = 1
  /\ gate = "none"
  /\ last = [a \in Aliases |-> "none"]

\* framework-plan: discovers and partitions the aliases.
Plan ==
  /\ plan = NoPlan
  /\ ValidPlan(CreatePlan)
  /\ plan' = CreatePlan
  /\ UNCHANGED <<weights, job, reports, attempt, gate, last>>

\* A job regenerates the plan and compares it with the artifact.
Start(j) ==
  /\ attempt <= MaxAttempts
  /\ job[j] = "waiting"
  /\ plan # NoPlan /\ plan = CreatePlan
  /\ job' = [job EXCEPT ![j] = "running"]
  /\ UNCHANGED <<weights, plan, reports, attempt, gate, last>>

\* Mutant: the command names the first alias only.
FirstAlias(s) == {Min(plan[s])}

\* The aliases `dune build --force` is given.
Command(s) == plan[s]

\* dune ran: every alias passes, or one fails and the others may not have run.
\* The report names the shard's aliases and the command's result.
Finish(s, failed) ==
  /\ job[s] = "running"
  /\ LET result == IF failed = {} THEN "pass" ELSE "fail"
     IN /\ reports' = [reports EXCEPT ![s] = [aliases |-> plan[s], result |-> result]]
        /\ last' = [a \in Aliases |-> IF a \in failed THEN "fail"
                                      ELSE IF a \in Command(s) /\ failed = {} THEN "pass"
                                      ELSE last[a]]
        /\ job' = [job EXCEPT ![s] = IF result = "pass" THEN "success" ELSE "failure"]
  /\ UNCHANGED <<weights, plan, attempt, gate>>

\* The job dies, or times out, before its report is uploaded; a test that
\* failed before that leaves no trace but the job's result.
Die(j, failed) ==
  /\ job[j] = "running"
  /\ job' = [job EXCEPT ![j] = "failure"]
  /\ last' = [a \in Aliases |-> IF a \in failed THEN "fail" ELSE last[a]]
  /\ UNCHANGED <<weights, plan, reports, attempt, gate>>

FinishE2E ==
  /\ job[E2E] = "running"
  /\ job' = [job EXCEPT ![E2E] = "success"]
  /\ UNCHANGED <<weights, plan, reports, attempt, gate, last>>

\* Mutant: the gate looks at the reports and not at the jobs.
AnyResult == TRUE

\* release-gate: the matrix succeeded.
MatrixSucceeded == \A j \in Jobs : job[j] = "success"

\* framework-qualification: one passing report for each shard of the plan.
Qualify ==
  /\ ValidPlan(plan)
  /\ \A s \in Shards : /\ reports[s].aliases = plan[s]
                       /\ reports[s].result = "pass"

\* The gate runs when every job ended, whatever its result.
Gate ==
  /\ gate = "none"
  /\ \A j \in Jobs : job[j] \in {"success", "failure"}
  /\ gate' = IF MatrixSucceeded /\ Qualify THEN "pass" ELSE "fail"
  /\ UNCHANGED <<weights, plan, job, reports, attempt, last>>

\* `gh run rerun`, all jobs or, with --failed, those that failed; the artifacts
\* of the run stay.
Rerun ==
  /\ gate # "none" /\ attempt < MaxAttempts
  /\ attempt' = attempt + 1
  /\ gate' = "none"
  /\ \E all \in BOOLEAN :
       /\ all \/ gate = "fail"
       /\ job' = [j \in Jobs |-> IF all \/ job[j] = "failure" THEN "waiting" ELSE job[j]]
  /\ UNCHANGED <<weights, plan, reports, last>>

AtMostOne(set) == {{}} \cup {{a} : a \in set}

Next ==
  \/ Plan \/ FinishE2E \/ Gate \/ Rerun
  \/ \E j \in Jobs : Start(j)
  \/ \E s \in Shards : \E failed \in AtMostOne(plan[s]) : Finish(s, failed) \/ Die(s, failed)
  \/ Die(E2E, {})

Spec == Init /\ [][Next]_vars

(* Properties *)

\* For every record of timings, zeros included, the greedy assignment is a
\* partition into nonempty shards: createPlan never fails its own validatePlan.
PlanIsComplete == plan = NoPlan => ValidPlan(CreatePlan)

\* No shard carries more than another by over its lightest alias: the longest
\* processing time rule balances the shards.
PlanIsBalanced ==
  LET load(s) == MapThenSumSet(LAMBDA a : weights[a], plan[s])
  IN plan # NoPlan => \A s, t \in Shards : \A a \in plan[s] :
                        load(s) - weights[a] <= load(t)

\* When the gate passes, the latest execution of every test of the inventory
\* passed, in whichever attempt: a report that an earlier attempt left behind
\* never hides a later failure (framework-shards.mjs:175, retained successful
\* attempts).
QualifiedIsTested == gate = "pass" => \A a \in Aliases : last[a] = "pass"
=============================================================================
