--------------------------- MODULE ReleaseProofs ---------------------------
(***************************************************************************)
(* Proofs about Release, for any pushes, manual runs, reruns, probes and   *)
(* failures:                                                               *)
(*                                                                         *)
(*   ReleaseGoesForward  production never goes back to an older revision   *)
(*   ReleaseSucceeds     a publication recorded as successful is live      *)
(*   ReleaseQualifies    what is live passed the framework jobs            *)
(*   ReleaseIsComplete   a green main is live                             *)
(***************************************************************************)
EXTENDS Release, TLAPS, SequenceTheorems, WellFoundedInduction

(* The state *)

Stages == PublisherStages \cup {"triggered", "selected", "gated", "pending", "done"}

\* Where a failed run may resume.
Resumable == PublisherStages \cup {"triggered", "selected", "gated"}

\* A run in one of these stages has passed its gate.
Admitted == PublisherStages \cup {"gated", "pending"}

Checks == [framework : BOOLEAN, semantics : BOOLEAN, website : BOOLEAN, deploy : BOOLEAN]
Runs == [event : {"push", "workflow_dispatch"}, mode : {"validate", "redeploy"}, rev : Nat,
         checks : Checks, stage : Stages, failedAt : Stages \cup {"none"},
         result : {"none", "success", "failure", "cancelled"}, reruns : Nat]
Records == [rev : Nat, success : BOOLEAN]
Trees == [Areas -> Nat]

Typed ==
  /\ trees \in Seq(Trees) /\ runs \in Seq(Runs) /\ deployments \in Seq(Records)
  /\ MainHead \in Nat \ {0} /\ Len(deployments) \in Nat \ {0}
  /\ group \in [running : Nat, pending : Nat]
  /\ {site, redirect, edge} \subseteq 1..MainHead

\* The stage a run has come to, or came to before it failed.
Reached(r) == IF r.stage = "done" THEN r.failedAt ELSE r.stage

\* A run has a result when it is done, and a stage to resume from unless it succeeded.
Ended(r) ==
  /\ r.rev \in 1..MainHead
  /\ r.result = "none" <=> r.stage # "done"
  /\ r.result \in {"failure", "cancelled"} => r.failedAt \in Resumable

\* The group admits one publisher and one that waits.
Serial ==
  /\ \A i \in DOMAIN runs : runs[i].stage \in PublisherStages <=> group.running = i
  /\ \A i \in DOMAIN runs : runs[i].stage = "pending" <=> group.pending = i
  /\ {group.running, group.pending} \subseteq DOMAIN runs \cup {None}
  /\ group.running = None => group.pending = None

\* What the publisher has uploaded; nothing live is newer than its revision.
Uploaded(r) ==
  /\ r.stage \in {"site", "redirect", "probe", "live"} => site <= r.rev /\ redirect <= r.rev
  /\ r.stage \in {"redirect", "probe", "live"} => site = r.rev
  /\ r.stage \in {"probe", "live"} => redirect = r.rev

\* The newest record is the running publisher's; a successful one is live.
Recorded ==
  LET last == deployments[Len(deployments)]
  IN /\ group.running # None => last = [rev |-> runs[group.running].rev, success |-> FALSE]
     /\ last.success => site = last.rev /\ redirect = last.rev /\ edge = last.rev
     /\ \A d \in DOMAIN deployments :
          /\ deployments[d].rev \in 1..MainHead
          /\ deployments[d].success => deployments[d].rev <= site

\* The framework jobs passed the runtime of a revision.
Passed(rev) == trees[rev]["runtime"] \in qualified

\* Whoever skipped the framework jobs builds on what passed them.
Chosen(r) ==
  /\ Reached(r) \in Admitted => r.checks.deploy /\ Passed(r.rev)
  /\ Reached(r) = "selected" /\ r.checks.deploy => r.checks.framework \/ Passed(r.rev)

Qualified ==
  /\ 1 \in qualified
  /\ \A rev \in {site, redirect, edge} : Passed(rev)
  /\ \A d \in DOMAIN deployments : deployments[d].success => Passed(deployments[d].rev)

ReleaseInv ==
  /\ Typed /\ Serial /\ Recorded /\ Qualified
  /\ edge <= site
  /\ \A i \in DOMAIN runs : Ended(runs[i]) /\ Uploaded(runs[i]) /\ Chosen(runs[i])

(* How a step changes the runs *)

\* Run i becomes r, and the others stay.
Becomes(i, r) ==
  /\ runs' \in Seq(Runs) /\ DOMAIN runs' = DOMAIN runs
  /\ runs'[i] = r
  /\ \A j \in DOMAIN runs \ {i} : runs'[j] = runs[j]

\* Replacing one run of a sequence of them.
LEMMA Replaced ==
  ASSUME NEW rs \in Seq(Runs), NEW i \in DOMAIN rs, NEW r \in Runs
  PROVE  LET new == [rs EXCEPT ![i] = r]
         IN /\ new \in Seq(Runs) /\ DOMAIN new = DOMAIN rs
            /\ new[i] = r
            /\ \A j \in DOMAIN rs \ {i} : new[j] = rs[j]
<1>1. DOMAIN rs = 1..Len(rs)
  BY LenProperties
<1>2. DOMAIN [rs EXCEPT ![i] = r] = DOMAIN rs
  OBVIOUS
<1> QED BY <1>1, <1>2, ExceptSeq

\* Runs are records.
LEMMA RunTyped == ASSUME Typed, NEW i \in DOMAIN runs PROVE runs[i] \in Runs
BY ElementOfSeq, LenProperties DEF Typed

\* Move replaces the stage.
LEMMA MoveRuns ==
  ASSUME Typed, NEW i \in DOMAIN runs, NEW stage \in Stages, Move(i, stage)
  PROVE  Becomes(i, [runs[i] EXCEPT !.stage = stage])
<1>1. [runs[i] EXCEPT !.stage = stage] \in Runs
  BY RunTyped DEF Runs
<1>2. runs' = [runs EXCEPT ![i] = [runs[i] EXCEPT !.stage = stage]]
  BY DEF Move
<1> QED BY <1>1, <1>2, Replaced DEF Typed, Becomes

\* The run that ends.
Done(r, result, failedAt) ==
  [r EXCEPT !.stage = "done", !.result = result, !.failedAt = failedAt]

\* The records when a publisher's job starts.
Opened(records, rev) == Append(records, [rev |-> rev, success |-> FALSE])

\* End: outside of the group nothing else changes.
LEMMA EndAlone ==
  ASSUME Typed, NEW i \in DOMAIN runs, NEW result \in {"success", "failure", "cancelled"},
         NEW failedAt \in Stages \cup {"none"}, NEW records, group.running # i,
         End(i, result, failedAt, records)
  PROVE  /\ Becomes(i, Done(runs[i], result, failedAt))
         /\ group' = group /\ deployments' = records
<1>1. Done(runs[i], result, failedAt) \in Runs
  BY ZenonT(60), RunTyped DEF Runs, Done, Stages
<1>2. runs' = [runs EXCEPT ![i] = Done(runs[i], result, failedAt)]
  BY DEF End, Done
<1> QED BY <1>1, <1>2, Replaced DEF Typed, Becomes, End

\* End: the publisher hands over to the one that waits.
LEMMA EndHandsOver ==
  ASSUME Typed, Serial, NEW i \in DOMAIN runs, NEW result \in {"success", "failure", "cancelled"},
         NEW failedAt \in Stages \cup {"none"}, NEW records, group.running = i,
         End(i, result, failedAt, records)
  PROVE  /\ group' = [running |-> group.pending, pending |-> None]
         /\ group.pending = None => /\ Becomes(i, Done(runs[i], result, failedAt))
                                    /\ deployments' = records
         /\ group.pending # None =>
              /\ group.pending \in DOMAIN runs \ {i}
              /\ runs' \in Seq(Runs) /\ DOMAIN runs' = DOMAIN runs
              /\ runs'[i] = Done(runs[i], result, failedAt)
              /\ runs'[group.pending] = [runs[group.pending] EXCEPT !.stage = "verify"]
              /\ \A j \in DOMAIN runs \ {i, group.pending} : runs'[j] = runs[j]
              /\ deployments' = Opened(records, runs[group.pending].rev)
<1> DEFINE next == group.pending
           ended == [runs EXCEPT ![i] = Done(runs[i], result, failedAt)]
<1>1. Done(runs[i], result, failedAt) \in Runs
  BY ZenonT(60), RunTyped DEF Runs, Done, Stages
<1>2. /\ ended \in Seq(Runs) /\ DOMAIN ended = DOMAIN runs
      /\ ended[i] = Done(runs[i], result, failedAt)
      /\ \A j \in DOMAIN runs \ {i} : ended[j] = runs[j]
  BY <1>1, Replaced DEF Typed
<1>3. CASE next = None
  <2>1. runs' = ended /\ deployments' = records
    BY <1>3 DEF End, Done
  <2> QED BY <1>2, <1>3, <2>1 DEF Becomes, End
<1>4. CASE next # None
  <2>1. next \in DOMAIN runs /\ runs[next].stage = "pending" /\ runs[i].stage \in PublisherStages
    BY <1>4 DEF Serial
  <2>2. next # i
    BY <2>1 DEF PublisherStages
  <2>6. ended = [runs EXCEPT ![i].stage = "done", ![i].result = result, ![i].failedAt = failedAt]
    BY DEF Done
  <2>3. /\ runs' = [ended EXCEPT ![next] = [ended[next] EXCEPT !.stage = "verify"]]
        /\ deployments' = Opened(records, runs[next].rev)
    <3>1. /\ runs' = [[runs EXCEPT ![i].stage = "done", ![i].result = result, ![i].failedAt = failedAt]
                      EXCEPT ![next].stage = "verify"]
          /\ deployments' = Opened(records, runs[next].rev)
      BY <1>4 DEF End, Opened
    <3> HIDE DEF ended
    <3>2. runs' = [ended EXCEPT ![next].stage = "verify"]
      BY <3>1, <2>6
    <3> QED BY <3>1, <3>2
  <2>7. runs[next] \in Runs
    BY <2>1, RunTyped
  <2> HIDE DEF ended
  <2>4. ended[next] = runs[next] /\ [runs[next] EXCEPT !.stage = "verify"] \in Runs
    BY <1>2, <2>1, <2>2, <2>7 DEF Runs, Stages, PublisherStages
  <2>5. /\ runs' \in Seq(Runs) /\ DOMAIN runs' = DOMAIN ended
        /\ runs'[next] = [runs[next] EXCEPT !.stage = "verify"]
        /\ \A j \in DOMAIN ended \ {next} : runs'[j] = ended[j]
    BY <1>2, <2>1, <2>3, <2>4, Replaced
  <2> QED BY <1>2, <1>4, <2>1, <2>2, <2>3, <2>5 DEF End
<1> QED BY <1>3, <1>4

(* Steps outside of the group *)

\* A run that is not in the group goes to another stage outside of it.
LEMMA Outside ==
  ASSUME ReleaseInv, NEW i \in DOMAIN runs, NEW r \in Runs, Becomes(i, r),
         UNCHANGED <<trees, deployments, group, liveVars>>, qualified \subseteq qualified',
         runs[i].stage \notin PublisherStages \cup {"pending"},
         r.stage \notin PublisherStages \cup {"pending"},
         r.rev = runs[i].rev,
         r.result = "none" <=> r.stage # "done",
         r.result \in {"failure", "cancelled"} => r.failedAt \in Resumable,
         Reached(r) \in Admitted => r.checks.deploy /\ trees[r.rev]["runtime"] \in qualified',
         Reached(r) = "selected" /\ r.checks.deploy =>
           r.checks.framework \/ trees[r.rev]["runtime"] \in qualified'
  PROVE  ReleaseInv'
<1>1. Typed'
  BY DEF ReleaseInv, Typed, Becomes, MainHead, liveVars
<1>2. Serial'
  BY DEF ReleaseInv, Serial, Becomes, None
<1>3. Recorded'
  <2>1. group.running # None => group.running \in DOMAIN runs /\ group.running # i
    BY DEF ReleaseInv, Serial, None
  <2> QED BY <2>1 DEF ReleaseInv, Recorded, Becomes, MainHead, liveVars
<1>4. Qualified' /\ (edge <= site)'
  BY DEF ReleaseInv, Qualified, Passed, liveVars
<1>5. ASSUME NEW j \in DOMAIN runs' PROVE (Ended(runs[j]) /\ Uploaded(runs[j]) /\ Chosen(runs[j]))'
  <2>1. CASE j = i
    <3>1. runs'[j] = r
      BY <2>1 DEF Becomes
    <3>2. Ended(runs[j])'
      BY <3>1, <2>1 DEF ReleaseInv, Ended, MainHead
    <3>3. Uploaded(runs[j])'
      BY <3>1 DEF Uploaded, PublisherStages
    <3>4. Chosen(runs[j])'
      BY <3>1 DEF Chosen, Passed, Reached
    <3> QED BY <3>2, <3>3, <3>4
  <2>2. CASE j # i
    <3>1. j \in DOMAIN runs /\ runs'[j] = runs[j]
      BY <2>2 DEF Becomes
    <3>2. Ended(runs[j]) /\ Uploaded(runs[j]) /\ Chosen(runs[j])
      BY <3>1 DEF ReleaseInv
    <3> QED BY <3>1, <3>2 DEF Ended, Uploaded, Chosen, Passed, Reached, MainHead, liveVars
  <2> QED BY <2>1, <2>2
<1> QED BY <1>1, <1>2, <1>3, <1>4, <1>5 DEF ReleaseInv

(* Steps of the publisher *)

\* The publisher goes on, after an upload at most.
LEMMA Continues ==
  ASSUME ReleaseInv, NEW i \in DOMAIN runs, NEW r \in Runs, Becomes(i, r),
         UNCHANGED <<trees, deployments, group, edge, qualified>>,
         runs[i].stage \in PublisherStages, r.stage \in PublisherStages,
         r = [runs[i] EXCEPT !.stage = r.stage],
         site' \in {site, r.rev}, redirect' \in {redirect, r.rev}, site <= site',
         r.stage \in {"site", "redirect", "probe", "live"} => site' <= r.rev /\ redirect' <= r.rev,
         r.stage \in {"redirect", "probe", "live"} => site' = r.rev,
         r.stage \in {"probe", "live"} => redirect' = r.rev
  PROVE  ReleaseInv'
<1>0. /\ runs[i] \in Runs /\ r.rev = runs[i].rev /\ r.checks = runs[i].checks
      /\ r.result = runs[i].result /\ r.failedAt = runs[i].failedAt
      /\ Ended(runs[i]) /\ Chosen(runs[i]) /\ r.rev \in 1..MainHead
  BY RunTyped DEF ReleaseInv, Runs, Ended
<1>a. /\ runs[i].stage # "done" /\ runs[i].stage # "pending" /\ r.stage # "done"
      /\ r.stage # "pending" /\ group.running = i /\ Reached(r) \in Admitted
      /\ Reached(runs[i]) \in Admitted
  BY DEF ReleaseInv, Serial, PublisherStages, Admitted, Reached
<1>b. Passed(r.rev) /\ r.checks.deploy
  BY <1>0, <1>a DEF Chosen
<1>1. Typed'
  BY <1>0 DEF ReleaseInv, Typed, Becomes, MainHead
<1>2. Serial'
  BY <1>a DEF ReleaseInv, Serial, Becomes, None
<1>3. Recorded'
  <2>1. /\ group.running # None
        /\ deployments[Len(deployments)] = [rev |-> r.rev, success |-> FALSE]
    BY <1>0, <1>a, LenProperties DEF ReleaseInv, Recorded, Typed, None
  <2>2. ASSUME NEW d \in DOMAIN deployments, deployments[d].success
        PROVE  deployments[d].rev <= site'
    <3>1. deployments[d].rev <= site /\ deployments[d].rev \in 1..MainHead
      BY <2>2 DEF ReleaseInv, Recorded
    <3>2. site \in 1..MainHead /\ site' \in 1..MainHead /\ MainHead \in Nat
      BY <1>0 DEF ReleaseInv, Typed
    <3> QED BY <3>1, <3>2
  <2> QED BY <1>a, <2>1, <2>2 DEF ReleaseInv, Recorded, Becomes, MainHead
<1>4. Qualified' /\ (edge <= site)'
  <2>1. edge <= site /\ edge \in Nat /\ site \in Nat /\ site' \in Nat
    BY <1>0 DEF ReleaseInv, Typed
  <2> QED BY <1>b, <2>1 DEF ReleaseInv, Qualified, Passed
<1>5. ASSUME NEW j \in DOMAIN runs' PROVE (Ended(runs[j]) /\ Uploaded(runs[j]) /\ Chosen(runs[j]))'
  <2>1. CASE j = i
    <3>1. runs'[j] = r
      BY <2>1 DEF Becomes
    <3>2. Ended(runs[j])'
      BY <3>1, <1>0, <1>a DEF Ended, MainHead
    <3>3. Uploaded(runs[j])'
      BY <3>1 DEF Uploaded
    <3>4. Chosen(runs[j])'
      BY <3>1, <1>b, <1>a DEF Chosen, Passed, Reached, Admitted, PublisherStages
    <3> QED BY <3>2, <3>3, <3>4
  <2>2. CASE j # i
    <3>1. j \in DOMAIN runs /\ runs'[j] = runs[j]
      BY <2>2 DEF Becomes
    <3>2. Ended(runs[j]) /\ Chosen(runs[j]) /\ runs[j].stage \notin PublisherStages
      BY <2>2, <3>1, <1>a DEF ReleaseInv, Serial
    <3> QED BY <3>1, <3>2 DEF Ended, Uploaded, Chosen, Passed, Reached, MainHead, PublisherStages
  <2> QED BY <2>1, <2>2
<1> QED BY <1>1, <1>2, <1>3, <1>4, <1>5 DEF ReleaseInv

\* No run has the number that means none.
LEMMA NoneIsNoRun == ASSUME Typed PROVE None \notin DOMAIN runs
BY LenProperties DEF Typed, None

\* The deployment records of a publisher that ends: as they were, or with its success.
LEMMA RecordsEnd ==
  ASSUME ReleaseInv, NEW i \in DOMAIN runs, runs[i].stage \in PublisherStages,
         NEW records \in {deployments, Succeeded}
  PROVE  /\ deployments # Succeeded
         /\ records \in Seq(Records) /\ Len(records) = Len(deployments)
         /\ DOMAIN records = 1..Len(records)
         /\ records[Len(records)].rev = runs[i].rev
         /\ records[Len(records)].success => records = Succeeded
         /\ \A d \in DOMAIN records :
              /\ records[d].rev \in 1..MainHead
              /\ records[d].success => \/ records[d].rev <= site /\ Passed(records[d].rev)
                                       \/ records = Succeeded /\ records[d].rev = runs[i].rev
<1> DEFINE n == Len(deployments)
           last == [rev |-> runs[i].rev, success |-> FALSE]
<1>1. /\ deployments \in Seq(Records) /\ n \in Nat \ {0} /\ DOMAIN deployments = 1..n
      /\ n \in DOMAIN deployments
  BY LenProperties DEF ReleaseInv, Typed
<1>2. deployments[n] = last
  BY NoneIsNoRun DEF ReleaseInv, Serial, Recorded
<1>3. last.rev \in 1..MainHead /\ last.rev \in Nat
  BY RunTyped DEF ReleaseInv, Ended, Runs
<1>4. \A d \in DOMAIN deployments :
        /\ deployments[d].rev \in 1..MainHead
        /\ deployments[d].success => deployments[d].rev <= site /\ Passed(deployments[d].rev)
  BY DEF ReleaseInv, Recorded, Qualified
<1>5. Succeeded = [deployments EXCEPT ![n] = [last EXCEPT !.success = TRUE]]
  BY <1>1, <1>2 DEF Succeeded
<1>6. LET new == [last EXCEPT !.success = TRUE]
      IN new \in Records /\ new.rev = runs[i].rev /\ new.success
  BY <1>3 DEF Records
<1>8. /\ Succeeded \in Seq(Records) /\ Len(Succeeded) = n
      /\ DOMAIN Succeeded = DOMAIN deployments
      /\ Succeeded[n].rev = runs[i].rev /\ Succeeded[n].success
      /\ \A d \in DOMAIN deployments \ {n} : Succeeded[d] = deployments[d]
  <2> DEFINE new == [last EXCEPT !.success = TRUE]
  <2>1. new \in Records /\ new.rev = runs[i].rev /\ new.success
    BY <1>6
  <2>2. Succeeded = [deployments EXCEPT ![n] = new]
    BY <1>5
  <2> HIDE DEF new, n
  <2>3. DOMAIN Succeeded = DOMAIN deployments
    BY <2>2
  <2> QED BY <1>1, <2>1, <2>2, <2>3, ExceptSeq
<1>9. deployments # Succeeded
  BY <1>2, <1>8
<1>10. CASE records = deployments
  BY <1>1, <1>2, <1>4, <1>9, <1>10
<1>11. CASE records = Succeeded
  <2>1. ASSUME NEW d \in DOMAIN records
        PROVE  /\ records[d].rev \in 1..MainHead
               /\ records[d].success => \/ records[d].rev <= site /\ Passed(records[d].rev)
                                        \/ records = Succeeded /\ records[d].rev = runs[i].rev
    BY <1>1, <1>3, <1>4, <1>8, <1>11
  <2> HIDE DEF n
  <2>2. deployments # Succeeded
    BY <1>9
  <2> QED BY <1>1, <1>8, <1>11, <2>1, <2>2 DEF n
<1> QED BY <1>10, <1>11

\* The publisher ends, with a failure or with what it published live.
LEMMA Ends ==
  ASSUME ReleaseInv, NEW i \in DOMAIN runs, runs[i].stage \in PublisherStages,
         NEW result, NEW failedAt, NEW records,
         End(i, result, failedAt, records),
         UNCHANGED <<trees, edge, qualified>>,
         site' \in {site, runs[i].rev}, redirect' \in {redirect, runs[i].rev}, site <= site',
         \/ result = "failure" /\ failedAt = runs[i].stage /\ records = deployments
         \/ /\ result = "success" /\ failedAt = "none" /\ records = Succeeded
            /\ site' = runs[i].rev /\ redirect' = runs[i].rev /\ edge = runs[i].rev
  PROVE  ReleaseInv'
<1> DEFINE next == group.pending
           me == Done(runs[i], result, failedAt)
<1>0. /\ runs[i] \in Runs /\ Ended(runs[i]) /\ Chosen(runs[i])
      /\ runs[i].rev \in 1..MainHead /\ group.running = i /\ i # None
      /\ Reached(runs[i]) \in Admitted /\ runs[i].stage \in Resumable
      /\ runs[i].stage # "done" /\ runs[i].stage # "pending"
  BY RunTyped, LenProperties
     DEF ReleaseInv, Ended, Serial, Typed, None, Reached, Admitted, Resumable, PublisherStages
<1>1. Passed(runs[i].rev) /\ runs[i].checks.deploy
  BY <1>0 DEF Chosen
<1>2. /\ failedAt \in Stages \cup {"none"} /\ result \in {"success", "failure", "cancelled"}
      /\ records \in {deployments, Succeeded}
  BY <1>0 DEF Stages
<1>3. /\ group' = [running |-> next, pending |-> None]
      /\ runs' \in Seq(Runs) /\ DOMAIN runs' = DOMAIN runs /\ runs'[i] = me
      /\ \A j \in DOMAIN runs \ {i} : j # next => runs'[j] = runs[j]
      /\ next # None => /\ next \in DOMAIN runs \ {i}
                        /\ runs'[next] = [runs[next] EXCEPT !.stage = "verify"]
      /\ deployments' = IF next = None THEN records
                        ELSE Opened(records, runs[next].rev)
  <2>1. /\ group' = [running |-> next, pending |-> None]
        /\ next = None => Becomes(i, me) /\ deployments' = records
        /\ next # None =>
              /\ next \in DOMAIN runs \ {i}
              /\ runs' \in Seq(Runs) /\ DOMAIN runs' = DOMAIN runs
              /\ runs'[i] = me
              /\ runs'[next] = [runs[next] EXCEPT !.stage = "verify"]
              /\ \A j \in DOMAIN runs \ {i, next} : runs'[j] = runs[j]
              /\ deployments' = Opened(records, runs[next].rev)
    <3>1. Typed /\ Serial
      BY DEF ReleaseInv
    <3>2. group.running = i
      BY <1>0
    <3>3. /\ group' = [running |-> next, pending |-> None]
          /\ next = None => Becomes(i, me) /\ deployments' = records
      BY <1>2, <3>1, <3>2, EndHandsOver
    <3>4. next # None => /\ next \in DOMAIN runs \ {i}
                         /\ runs' \in Seq(Runs) /\ DOMAIN runs' = DOMAIN runs
                         /\ runs'[next] = [runs[next] EXCEPT !.stage = "verify"]
      BY <1>2, <3>1, <3>2, EndHandsOver
    <3>5. next # None => /\ runs'[i] = me
                         /\ \A j \in DOMAIN runs \ {i, next} : runs'[j] = runs[j]
      BY <1>2, <3>1, <3>2, EndHandsOver
    <3>6. next # None => deployments' = Opened(records, runs[next].rev)
      <4>1. failedAt \in Stages \cup {"none"} /\ result \in {"success", "failure", "cancelled"}
        BY <1>2
      <4> QED BY ONLY <3>1, <3>2, <4>1, EndHandsOver, i \in DOMAIN runs, End(i, result, failedAt, records)
    <3> HIDE DEF next, me
    <3> QED BY <3>3, <3>4, <3>5, <3>6
  <2> HIDE DEF next, me
  <2> QED BY <2>1 DEF Becomes
<1>4. next # None => /\ runs[next] \in Runs /\ Ended(runs[next]) /\ Chosen(runs[next])
                     /\ runs[next].stage = "pending" /\ runs[next].rev \in 1..MainHead
  BY <1>3, RunTyped DEF ReleaseInv, Ended, Serial
<1>5. /\ deployments # Succeeded
      /\ records \in Seq(Records) /\ Len(records) = Len(deployments)
      /\ DOMAIN records = 1..Len(records)
      /\ records[Len(records)].rev = runs[i].rev
      /\ records[Len(records)].success => records = Succeeded
      /\ \A d \in DOMAIN records :
              /\ records[d].rev \in 1..MainHead
              /\ records[d].success => \/ records[d].rev <= site /\ Passed(records[d].rev)
                                       \/ records = Succeeded /\ records[d].rev = runs[i].rev
  BY <1>2, RecordsEnd
<1>6. /\ MainHead \in Nat \ {0} /\ Len(records) \in Nat \ {0} /\ trees \in Seq(Trees)
      /\ site \in 1..MainHead /\ redirect \in 1..MainHead /\ edge \in 1..MainHead
      /\ site' \in 1..MainHead /\ redirect' \in 1..MainHead /\ MainHead' = MainHead
  BY <1>0, <1>5 DEF ReleaseInv, Typed, MainHead
<1>7. /\ deployments' \in Seq(Records) /\ Len(deployments') \in Nat \ {0}
      /\ DOMAIN deployments' = 1..Len(deployments')
      /\ next = None => deployments' = records
      /\ next # None =>
           /\ Len(deployments') = Len(records) + 1
           /\ deployments'[Len(deployments')] = [rev |-> runs[next].rev, success |-> FALSE]
           /\ \A d \in 1..Len(records) : deployments'[d] = records[d]
  <2>1. CASE next = None
    BY <1>3, <1>5, <1>6, <2>1
  <2>2. CASE next # None
    <3> DEFINE new == [rev |-> runs[next].rev, success |-> FALSE]
    <3>1. new \in Records
      BY <1>4, <2>2 DEF Records, Runs
    <3>2. deployments' = Append(records, new)
      BY <1>3, <2>2 DEF Opened
    <3> HIDE DEF new
    <3>3. /\ deployments' \in Seq(Records) /\ Len(deployments') = Len(records) + 1
          /\ deployments'[Len(records) + 1] = new
          /\ \A d \in 1..Len(records) : deployments'[d] = records[d]
      BY <1>5, <3>1, <3>2, AppendProperties
    <3> QED BY <1>6, <2>2, <3>3, LenProperties DEF new
  <2> QED BY <2>1, <2>2
<1> HIDE DEF next, me
<1>10. Typed'
  <2>1. group' \in [running : Nat, pending : Nat]
    BY <1>3 DEF ReleaseInv, Typed, None
  <2> QED BY <1>3, <1>6, <1>7, <2>1 DEF ReleaseInv, Typed, MainHead
<1>11. /\ me.stage = "done" /\ me.rev = runs[i].rev /\ me.checks = runs[i].checks
       /\ me.result = result /\ me.failedAt = failedAt
  BY <1>0 DEF Runs, Done, me
<1>12. Serial'
  <2>1. \A j \in DOMAIN runs : j # i => runs[j].stage \notin PublisherStages
    BY <1>0 DEF ReleaseInv, Serial
  <2>2. \A j \in DOMAIN runs : runs[j].stage = "pending" <=> next = j
    BY DEF ReleaseInv, Serial, next
  <2>3. next # None => /\ runs'[next].stage = "verify" /\ next \in DOMAIN runs \ {i}
                       /\ "verify" \in PublisherStages
    BY <1>3, <1>4 DEF Runs, PublisherStages
  <2>4. "done" \notin PublisherStages /\ "pending" \notin PublisherStages
    BY DEF PublisherStages
  <2>5. None \notin DOMAIN runs
    BY LenProperties DEF ReleaseInv, Typed, None
  <2>6. ASSUME NEW j \in DOMAIN runs
        PROVE  /\ runs'[j].stage \in PublisherStages <=> next = j
               /\ runs'[j].stage # "pending"
    BY <1>3, <1>11, <2>1, <2>2, <2>3, <2>4, <2>5
  <2>7. next \in DOMAIN runs \cup {None}
    BY <2>3
  <2> QED BY <1>3, <2>5, <2>6, <2>7 DEF Serial
<1>13. Recorded'
  <2>1. \A d \in DOMAIN deployments' :
          /\ deployments'[d].rev \in 1..MainHead
          /\ deployments'[d].success => deployments'[d].rev <= site'
    <3>1. \A d \in 1..Len(records) :
            /\ records[d].rev \in 1..MainHead
            /\ records[d].success => records[d].rev <= site'
      <4>1. records = Succeeded => site' = runs[i].rev
        BY <1>5
      <4> QED BY <1>5, <1>6, <4>1
    <3>2. CASE next = None
      BY <1>5, <1>7, <3>1, <3>2
    <3>3. CASE next # None
      <4>1. DOMAIN deployments' = 1..(Len(records) + 1)
        BY <1>7, <3>3
      <4>2. \A d \in DOMAIN deployments' : d = Len(records) + 1 \/ d \in 1..Len(records)
        BY <1>6, <4>1
      <4> QED BY SMTT(60), <1>4, <1>6, <1>7, <3>1, <3>3, <4>2
    <3> QED BY <3>2, <3>3
  <2>2. CASE next = None
    <3>1. group'.running = None /\ deployments' = records
      BY <1>3, <1>7, <2>2
    <3>2. records = Succeeded => site' = runs[i].rev /\ redirect' = runs[i].rev /\ edge' = runs[i].rev
      BY <1>5
    <3>3. /\ deployments'[Len(deployments')].success =>
               records = Succeeded
          /\ deployments'[Len(deployments')].rev = runs[i].rev
      BY <1>5, <3>1
    <3> QED BY <1>6, <2>1, <3>1, <3>2, <3>3 DEF Recorded
  <2>3. CASE next # None
    <3>1. group'.running = next /\ runs'[next].rev = runs[next].rev
      BY <1>3, <1>4, <2>3 DEF Runs
    <3> QED BY <1>6, <1>7, <2>1, <2>3, <3>1 DEF Recorded
  <2> QED BY <2>2, <2>3
<1>14. Qualified' /\ (edge <= site)'
  <2>1. \A d \in DOMAIN deployments' : deployments'[d].success => Passed(deployments'[d].rev)
    <3>1. CASE next = None
      BY <1>1, <1>5, <1>7, <3>1
    <3>2. CASE next # None
      BY SMTT(60), <1>1, <1>5, <1>6, <1>7, <3>2
    <3> QED BY <3>1, <3>2
  <2>2. edge <= site
    BY DEF ReleaseInv
  <2>3. (edge <= site)'
    BY <1>6, <2>2
  <2> QED BY <1>1, <2>1, <2>3 DEF ReleaseInv, Qualified, Passed
<1>15. ASSUME NEW j \in DOMAIN runs' PROVE (Ended(runs[j]) /\ Uploaded(runs[j]) /\ Chosen(runs[j]))'
  <2>1. CASE j = i
    <3>1. runs'[j] = me
      BY <1>3, <2>1
    <3>2. Reached(me) = failedAt
      BY <1>11 DEF Reached
    <3>3. Ended(runs[j])'
      BY <3>1, <1>0, <1>6, <1>11 DEF Ended
    <3>4. Uploaded(runs[j])'
      BY <3>1, <1>11 DEF Uploaded
    <3>5. Chosen(runs[j])'
      BY <3>1, <3>2, <1>0, <1>1, <1>11 DEF Chosen, Passed, Reached, Admitted, PublisherStages
    <3> QED BY <3>3, <3>4, <3>5
  <2>2. CASE j # i /\ j = next
    <3>1. /\ next # None /\ runs'[j] = [runs[j] EXCEPT !.stage = "verify"]
          /\ runs'[j].stage = "verify" /\ runs'[j].rev = runs[j].rev
          /\ runs'[j].checks = runs[j].checks /\ runs'[j].result = runs[j].result
      BY <1>3, <1>4, <2>2, NoneIsNoRun DEF Runs, ReleaseInv
    <3>2. Passed(runs[j].rev) /\ runs[j].checks.deploy /\ runs[j].result = "none"
      BY <1>4, <2>2, <3>1 DEF Chosen, Ended, Reached, Admitted
    <3>3. Ended(runs[j])'
      BY <3>1, <3>2, <1>4, <1>6, <2>2 DEF Ended
    <3>4. Uploaded(runs[j])'
      BY <3>1 DEF Uploaded
    <3>5. Chosen(runs[j])'
      BY <3>1, <3>2 DEF Chosen, Passed, Reached
    <3> QED BY <3>3, <3>4, <3>5
  <2>3. CASE j # i /\ j # next
    <3>1. j \in DOMAIN runs /\ runs'[j] = runs[j]
      BY <1>3, <2>3
    <3>2. Ended(runs[j]) /\ Chosen(runs[j]) /\ runs[j].stage \notin PublisherStages
      BY <2>3, <3>1, <1>0 DEF ReleaseInv, Serial
    <3> QED BY <3>1, <3>2, <1>6 DEF Ended, Uploaded, Chosen, Passed, Reached, PublisherStages
  <2> QED BY <2>1, <2>2, <2>3
<1> QED BY <1>10, <1>12, <1>13, <1>14, <1>15 DEF ReleaseInv

(* Check selection *)

\* The smaller-than relation of the naturals.
LessThan == {p \in Nat \X Nat : p[1] < p[2]}

\* A set of naturals with a bound has a greatest element.
LEMMA GreatestExists ==
  ASSUME NEW b \in Nat, NEW S \in SUBSET (0..b), S # {}
  PROVE  \E m \in S : \A k \in S : m >= k
<1> DEFINE D == {d \in 0..b : b - d \in S}
<1>1. IsWellFoundedOn(LessThan, Nat)
  BY NatLessThanWellFounded DEF OpToRel, LessThan
<1>2. D \in SUBSET Nat
  OBVIOUS
<1>3. \A k \in S : b - k \in D
  OBVIOUS
<1>4. PICK d \in D : \A e \in D : ~(<<e, d>> \in LessThan)
  <2>1. D # {}
    BY <1>3
  <2> HIDE DEF D
  <2> QED BY <1>1, <1>2, <2>1, WFMin
<1>5. d \in 0..b /\ b - d \in S
  OBVIOUS
<1>6. ASSUME NEW k \in S PROVE b - d >= k
  <2>1. b - k \in D /\ b - k \in Nat /\ d \in Nat /\ k \in Nat
    BY <1>3, <1>5
  <2>2. <<b - k, d>> \in Nat \X Nat /\ <<b - k, d>>[1] = b - k /\ <<b - k, d>>[2] = d
    BY <2>1
  <2>3. ~(b - k < d)
    BY <1>4, <2>1, <2>2 DEF LessThan
  <2> QED BY <1>5, <2>1, <2>3
<1> QED BY <1>5, <1>6

\* The baseline of the selection is live or older, and passed the framework jobs.
LEMMA Baseline ==
  ASSUME ReleaseInv
  PROVE  LastSuccessfulDeployment # None =>
           /\ LastSuccessfulDeployment \in 1..MainHead
           /\ LastSuccessfulDeployment <= site
           /\ Passed(LastSuccessfulDeployment)
<1> SUFFICES ASSUME LastSuccessfulDeployment # None PROVE
           /\ LastSuccessfulDeployment \in 1..MainHead
           /\ LastSuccessfulDeployment <= site
           /\ Passed(LastSuccessfulDeployment)
  OBVIOUS
<1>1. Successful # {} /\ LastSuccessfulDeployment = deployments[Max(Successful)].rev
  BY DEF LastSuccessfulDeployment
<1>2. Successful \in SUBSET (0..Len(deployments)) /\ Len(deployments) \in Nat
  BY LenProperties DEF Successful, ReleaseInv, Typed
<1>3. \E m \in Successful : \A k \in Successful : m >= k
  BY <1>1, <1>2, GreatestExists
<1>4. Max(Successful) \in Successful
  BY <1>3 DEF Max
<1>5. Max(Successful) \in DOMAIN deployments /\ deployments[Max(Successful)].success
  BY <1>4 DEF Successful
<1> QED BY <1>1, <1>5 DEF ReleaseInv, Recorded, Qualified

\* The checks a run chooses.
LEMMA ChosenTyped ==
  ASSUME NEW event, NEW mode, NEW paths, NEW pending, NEW fallback \in BOOLEAN
  PROVE  LET chosen == ChooseChecks(event, mode, paths, pending, fallback)
         IN /\ chosen \in Checks
            /\ ~chosen.framework => "runtime" \notin pending /\ ~fallback /\ event # "workflow_dispatch"
            /\ ~chosen.deploy /\ event = "push" =>
                 ~fallback /\ (paths \cup pending) \cap {"prose", "policy", "website", "runtime"} = {}
<1> DEFINE full == fallback \/ event = "workflow_dispatch"
           picked == IF full THEN AllChosen
                     ELSE Either(ClassifyPaths(paths), ClassifyPaths(pending))
           chosen == ChooseChecks(event, mode, paths, pending, fallback)
<1>1. /\ picked.framework \in BOOLEAN /\ picked.semantics \in BOOLEAN /\ picked.website \in BOOLEAN
      /\ picked.framework <=> full \/ "runtime" \in paths \/ "runtime" \in pending
      /\ picked.website <=> \/ full \/ paths \cap {"prose", "policy", "website", "runtime"} # {}
                            \/ pending \cap {"prose", "policy", "website", "runtime"} # {}
  BY DEF AllChosen, Either, ClassifyPaths
<1>2. chosen = [framework |-> picked.framework, semantics |-> picked.semantics,
                website |-> picked.website,
                deploy |-> picked.website /\ (event = "push" \/ mode = "redeploy")]
  BY DEF ChooseChecks
<1> HIDE DEF picked
<1>3. chosen \in Checks
  BY <1>1, <1>2 DEF Checks
<1> HIDE DEF chosen
<1>4. /\ chosen.framework <=> picked.framework
      /\ chosen.deploy <=> picked.website /\ (event = "push" \/ mode = "redeploy")
  <2> DEFINE f == picked.framework
             d == picked.website /\ (event = "push" \/ mode = "redeploy")
  <2>1. f \in BOOLEAN /\ d \in BOOLEAN
    BY <1>1
  <2>2. chosen.framework = f /\ chosen.deploy = d
    <3>1. \E s, w : chosen = [framework |-> f, semantics |-> s, website |-> w, deploy |-> d]
      BY <1>2
    <3> HIDE DEF f, d
    <3> QED BY <3>1
  <2> HIDE DEF f
  <2>3. chosen.deploy <=> d
    BY <2>1, <2>2
  <2>4. chosen.framework <=> f
    BY <2>1, <2>2
  <2> QED BY <2>3, <2>4 DEF f
<1>5. ~chosen.framework => "runtime" \notin pending /\ ~fallback /\ event # "workflow_dispatch"
  BY <1>1, <1>4
<1>6. ~chosen.deploy /\ event = "push" =>
         ~fallback /\ (paths \cup pending) \cap {"prose", "policy", "website", "runtime"} = {}
  BY <1>1, <1>4
<1> QED BY <1>3, <1>5, <1>6 DEF chosen

\* Two revisions agree on a class of path in which no path differs.
LEMMA Unchanged ==
  ASSUME NEW base, NEW head, NEW a \in Areas, a \notin ChangedPaths(base, head)
  PROVE  trees[base][a] = trees[head][a]
BY DEF ChangedPaths

\* What Select chooses: a run that skips the framework jobs has a runtime they passed, and
\* a push that publishes nothing has the content of a published revision and of the one before it.
LEMMA Selects ==
  ASSUME ReleaseInv, NEW i \in DOMAIN runs, Select(i)
  PROVE  \E c \in Checks :
           /\ Becomes(i, [runs[i] EXCEPT !.checks = c, !.stage = "selected"])
           /\ ~c.framework => Passed(runs[i].rev)
           /\ ~c.deploy /\ runs[i].event = "push" =>
                /\ \E b \in 1..site : \A a \in Areas \ {"maintainer"} :
                     trees[b][a] = trees[runs[i].rev][a]
                /\ \A a \in Areas \ {"maintainer"} : trees[runs[i].rev - 1][a] = trees[runs[i].rev][a]
<1> DEFINE run == runs[i]
           baseline == LastSuccessfulDeployment
<1>1. PICK unavailable \in BOOLEAN, reuse \in BOOLEAN :
        LET fallback == run.event = "push" /\ (unavailable \/ baseline = None)
            known    == run.event = "push" /\ ~fallback
            paths    == IF known THEN ChangedPaths(run.rev - 1, run.rev) ELSE {}
            pending  == IF known THEN ChangedPaths(baseline, run.rev) ELSE {}
            chosen   == ChooseChecks(run.event, run.mode, paths, pending, fallback)
        IN /\ reuse => ReuseApplies(run, fallback, chosen)
           /\ runs' = [runs EXCEPT ![i].checks = IF reuse THEN Reused(chosen) ELSE chosen,
                                   ![i].stage = "selected"]
  BY ZenonT(60) DEF Select
<1> DEFINE fallback == run.event = "push" /\ (unavailable \/ baseline = None)
           known    == run.event = "push" /\ ~fallback
           paths    == IF known THEN ChangedPaths(run.rev - 1, run.rev) ELSE {}
           pending  == IF known THEN ChangedPaths(baseline, run.rev) ELSE {}
           chosen   == ChooseChecks(run.event, run.mode, paths, pending, fallback)
           c == IF reuse THEN Reused(chosen) ELSE chosen
<1>2. /\ run \in Runs /\ run.event \in {"push", "workflow_dispatch"} /\ run.rev \in 1..MainHead
  BY RunTyped DEF ReleaseInv, Runs, Ended
<1>3. /\ chosen \in Checks
      /\ ~chosen.framework => "runtime" \notin pending /\ ~fallback /\ run.event # "workflow_dispatch"
      /\ ~chosen.deploy /\ run.event = "push" =>
           ~fallback /\ (paths \cup pending) \cap {"prose", "policy", "website", "runtime"} = {}
  <2>1. fallback \in BOOLEAN
    OBVIOUS
  <2> HIDE DEF paths, pending, fallback
  <2> QED BY <2>1, ChosenTyped
<1>4. reuse => ReuseApplies(run, fallback, chosen)
  BY <1>1
<1>5. runs' = [runs EXCEPT ![i] = [runs[i] EXCEPT !.checks = c, !.stage = "selected"]]
  BY <1>1
<1> HIDE DEF chosen
<1>6. c \in Checks /\ (c.deploy <=> chosen.deploy) /\ (~reuse => c = chosen)
  BY <1>3 DEF Checks, Reused
<1>7. Becomes(i, [runs[i] EXCEPT !.checks = c, !.stage = "selected"])
  <2>1. [runs[i] EXCEPT !.checks = c, !.stage = "selected"] \in Runs
    <3> HIDE DEF c
    <3> QED BY <1>2, <1>6 DEF Runs, Stages
  <2> QED BY <1>5, <2>1, Replaced DEF ReleaseInv, Typed, Becomes
<1>8. baseline # None => /\ baseline \in 1..MainHead /\ baseline <= site /\ Passed(baseline)
  BY Baseline
<1> HIDE DEF c, baseline
<1>9. ~c.framework => Passed(run.rev)
  <2>1. CASE reuse
    <3>1. {a \in Areas : ReferenceTree[a] # trees[run.rev][a]} \subseteq {"policy"}
      BY <1>4, <2>1 DEF ReuseApplies
    <3>2. "runtime" \in Areas /\ "runtime" # "policy"
      BY DEF Areas
    <3>3. ReferenceTree["runtime"] = trees[run.rev]["runtime"]
      BY <3>1, <3>2
    <3>4. trees[ReferenceBase] \in Trees
      BY ElementOfSeq DEF ReleaseInv, Typed, ReferenceBase, MainHead
    <3>5. ReferenceTree["runtime"] = 1
      BY <3>2, <3>4 DEF ReferenceTree, Trees
    <3> QED BY <3>3, <3>5 DEF ReleaseInv, Qualified, Passed
  <2>2. CASE ~reuse /\ ~chosen.framework
    <3>1. "runtime" \notin pending /\ ~fallback /\ run.event = "push"
      BY <1>2, <1>3, <2>2
    <3>2. "runtime" \notin ChangedPaths(baseline, run.rev) /\ baseline # None
      BY <3>1
    <3>3. trees[baseline]["runtime"] = trees[run.rev]["runtime"]
      BY <3>2, Unchanged DEF Areas
    <3> QED BY <1>8, <3>2, <3>3 DEF Passed
  <2> QED BY <1>6, <2>1, <2>2
<1>10. ~c.deploy /\ run.event = "push" =>
         /\ \E b \in 1..site : \A a \in Areas \ {"maintainer"} : trees[b][a] = trees[run.rev][a]
         /\ \A a \in Areas \ {"maintainer"} : trees[run.rev - 1][a] = trees[run.rev][a]
  <2> SUFFICES ASSUME ~c.deploy, run.event = "push"
               PROVE  /\ \E b \in 1..site : \A a \in Areas \ {"maintainer"} :
                           trees[b][a] = trees[run.rev][a]
                      /\ \A a \in Areas \ {"maintainer"} : trees[run.rev - 1][a] = trees[run.rev][a]
    OBVIOUS
  <2>1. /\ ~fallback /\ pending \cap {"prose", "policy", "website", "runtime"} = {}
        /\ paths \cap {"prose", "policy", "website", "runtime"} = {}
    <3> HIDE DEF paths, pending, fallback
    <3> QED BY <1>3, <1>6
  <2>2. /\ baseline # None /\ pending = ChangedPaths(baseline, run.rev)
        /\ paths = ChangedPaths(run.rev - 1, run.rev)
    BY <2>1
  <2>3. \A a \in Areas \ {"maintainer"} : trees[baseline][a] = trees[run.rev][a]
    BY <2>1, <2>2, Unchanged DEF Areas
  <2>4. \A a \in Areas \ {"maintainer"} : trees[run.rev - 1][a] = trees[run.rev][a]
    BY <2>1, <2>2, Unchanged DEF Areas
  <2>5. baseline \in 1..site
    BY <1>8, <2>2 DEF ReleaseInv, Typed
  <2> QED BY <2>3, <2>4, <2>5
<1> QED BY <1>6, <1>7, <1>9, <1>10

(* The actions *)

\* Production shows the first revision.
LEMMA ReleaseInit == Init => ReleaseInv
<1> SUFFICES ASSUME Init PROVE ReleaseInv
  OBVIOUS
<1>1. /\ trees = <<InitialTree>> /\ runs = << >> /\ deployments = <<[rev |-> 1, success |-> TRUE]>>
      /\ group = [running |-> None, pending |-> None]
      /\ site = 1 /\ redirect = 1 /\ edge = 1
  BY DEF Init
<1>2. /\ InitialTree \in Trees /\ InitialTree["runtime"] = 0 /\ [rev |-> 1, success |-> TRUE] \in Records
  BY DEF InitialTree, Trees, Records, Areas
<1>3. 1 \in qualified /\ 0 \in qualified
  BY <1>2 DEF Init
<1>4. trees \in Seq(Trees) /\ MainHead = 1 /\ trees[1] = InitialTree
  BY <1>1, <1>2 DEF MainHead
<1>5. /\ deployments \in Seq(Records) /\ Len(deployments) = 1 /\ DOMAIN deployments = {1}
      /\ deployments[1] = [rev |-> 1, success |-> TRUE]
  BY <1>1, <1>2
<1>6. runs \in Seq(Runs) /\ DOMAIN runs = {}
  BY <1>1
<1>7. Typed
  BY <1>1, <1>4, <1>5, <1>6 DEF Typed, None
<1>8. Serial
  BY <1>1, <1>6 DEF Serial, None
<1>9. Recorded
  BY <1>1, <1>4, <1>5 DEF Recorded, None
<1>10. Qualified
  BY <1>1, <1>2, <1>3, <1>4, <1>5 DEF Qualified, Passed
<1> QED BY <1>1, <1>6, <1>7, <1>8, <1>9, <1>10 DEF ReleaseInv

\* A new run, of a revision of main or of the one that is pushed with it.
LEMMA Begins ==
  ASSUME ReleaseInv, NEW r \in Runs, runs' = Append(runs, r),
         trees' \in Seq(Trees), MainHead <= MainHead',
         \A rev \in 1..MainHead : trees'[rev] = trees[rev],
         r.stage = "triggered" /\ r.result = "none" /\ r.rev \in 1..MainHead',
         UNCHANGED <<deployments, group, liveVars, qualified>>
  PROVE  /\ ReleaseInv'
         /\ DOMAIN runs' = DOMAIN runs \cup {Len(runs) + 1}
         /\ \A i \in DOMAIN runs : runs'[i] = runs[i]
         /\ runs'[Len(runs) + 1] = r
<1>1. /\ runs \in Seq(Runs) /\ Len(runs) \in Nat /\ DOMAIN runs = 1..Len(runs)
      /\ MainHead \in Nat \ {0} /\ MainHead' \in Nat
  BY LenProperties DEF ReleaseInv, Typed, MainHead
<1>2. /\ runs' \in Seq(Runs) /\ Len(runs') = Len(runs) + 1
      /\ \A i \in 1..Len(runs) : runs'[i] = runs[i]
      /\ runs'[Len(runs) + 1] = r
  BY <1>1, AppendProperties
<1>3. DOMAIN runs' = 1..(Len(runs) + 1)
  BY <1>2, LenProperties
<1>4. DOMAIN runs' = DOMAIN runs \cup {Len(runs) + 1}
  BY <1>1, <1>3
<1>5. Typed'
  BY <1>1, <1>2 DEF ReleaseInv, Typed, liveVars
<1>6. Serial'
  <2>1. group.running # Len(runs) + 1 /\ group.pending # Len(runs) + 1
    BY <1>1 DEF ReleaseInv, Serial, None
  <2>2. r.stage \notin PublisherStages /\ r.stage # "pending"
    BY DEF PublisherStages
  <2> QED BY <1>1, <1>2, <1>4, <2>1, <2>2 DEF ReleaseInv, Serial
<1>7. Recorded'
  <2>1. group.running # None => group.running \in DOMAIN runs
    BY DEF ReleaseInv, Serial
  <2>2. group.running # None => runs'[group.running] = runs[group.running]
    BY <1>1, <1>2, <2>1
  <2>3. \A d \in DOMAIN deployments : deployments[d].rev \in 1..MainHead'
    BY <1>1 DEF ReleaseInv, Recorded
  <2>4. Recorded /\ UNCHANGED <<deployments, group, site, redirect, edge>>
    BY DEF ReleaseInv, liveVars
  <2> QED BY <2>2, <2>3, <2>4 DEF Recorded
<1>8. Qualified'
  <2>1. {site, redirect, edge} \subseteq 1..MainHead
    BY DEF ReleaseInv, Typed
  <2>2. \A d \in DOMAIN deployments : deployments[d].rev \in 1..MainHead
    BY DEF ReleaseInv, Recorded
  <2> QED BY <2>1, <2>2 DEF ReleaseInv, Qualified, Passed, liveVars
<1>9. ASSUME NEW j \in DOMAIN runs' PROVE (Ended(runs[j]) /\ Uploaded(runs[j]) /\ Chosen(runs[j]))'
  <2>1. CASE j \in DOMAIN runs
    <3>1. runs'[j] = runs[j] /\ Ended(runs[j]) /\ Uploaded(runs[j]) /\ Chosen(runs[j])
      BY <1>1, <1>2, <2>1 DEF ReleaseInv
    <3>2. runs[j].rev \in 1..MainHead /\ runs[j].rev \in 1..MainHead'
      BY <1>1, <3>1 DEF Ended
    <3>3. Ended(runs[j])'
      BY <3>1, <3>2 DEF Ended
    <3>4. Uploaded(runs[j])'
      BY <3>1 DEF Uploaded, liveVars
    <3>5. Chosen(runs[j])'
      <4>1. trees'[runs[j].rev] = trees[runs[j].rev] /\ qualified' = qualified
        BY <3>2
      <4> QED BY <3>1, <4>1 DEF Chosen, Passed, Reached
    <3> QED BY <3>3, <3>4, <3>5
  <2>2. CASE j = Len(runs) + 1
    <3>1. runs'[j] = r
      BY <1>2, <2>2
    <3> QED BY <3>1 DEF Ended, Uploaded, Chosen, Reached, Admitted, PublisherStages
  <2> QED BY <1>4, <2>1, <2>2
<1>10. (edge <= site)'
  BY DEF ReleaseInv, liveVars
<1> QED BY <1>1, <1>2, <1>4, <1>5, <1>6, <1>7, <1>8, <1>9, <1>10 DEF ReleaseInv

\* A push adds one revision to main, of new contents, and a run of it.
LEMMA PushRuns ==
  ASSUME ReleaseInv, NEW paths, Push(paths)
  PROVE  /\ trees' \in Seq(Trees) /\ MainHead' = MainHead + 1
         /\ \A rev \in 1..MainHead : trees'[rev] = trees[rev]
         /\ \E content \in Contents : trees'[MainHead + 1] =
              [a \in Areas |-> IF a \in paths THEN content ELSE trees[MainHead][a]]
         /\ NewRun("push", "validate", MainHead + 1) \in Runs
         /\ runs' = Append(runs, NewRun("push", "validate", MainHead + 1))
         /\ UNCHANGED <<deployments, group, liveVars, qualified>>
<1>1. PICK content \in Contents :
        trees' = Append(trees, [a \in Areas |-> IF a \in paths THEN content ELSE trees[MainHead][a]])
  BY DEF Push
<1> DEFINE new == [a \in Areas |-> IF a \in paths THEN content ELSE trees[MainHead][a]]
<1>2. /\ trees \in Seq(Trees) /\ MainHead \in Nat \ {0} /\ MainHead = Len(trees)
      /\ trees[MainHead] \in Trees
  BY ElementOfSeq, LenProperties DEF ReleaseInv, Typed, MainHead
<1>3. new \in Trees
  BY <1>2 DEF Contents, Trees
<1> HIDE DEF new
<1>4. /\ trees' \in Seq(Trees) /\ Len(trees') = MainHead + 1
      /\ \A rev \in 1..MainHead : trees'[rev] = trees[rev]
      /\ trees'[MainHead + 1] = new
  BY <1>1, <1>2, <1>3, AppendProperties DEF new
<1>5. NewRun("push", "validate", MainHead + 1) \in Runs
  BY <1>2 DEF NewRun, NothingChosen, Runs, Checks, Stages
<1>6. MainHead' = MainHead + 1
  BY <1>4 DEF MainHead
<1>7. /\ runs' = Append(runs, NewRun("push", "validate", MainHead + 1))
      /\ UNCHANGED <<deployments, group, liveVars, qualified>>
  BY DEF Push, liveVars
<1> QED BY <1>4, <1>5, <1>6, <1>7 DEF new

\* A push adds a commit; what is recorded and what is live stay where they are.
LEMMA PushStep == ASSUME ReleaseInv, NEW paths, Push(paths) PROVE ReleaseInv'
<1>1. MainHead \in Nat
  BY DEF ReleaseInv, Typed
<1> DEFINE r == NewRun("push", "validate", MainHead + 1)
<1>2. r.stage = "triggered" /\ r.result = "none" /\ r.rev = MainHead + 1
  BY DEF NewRun
<1> HIDE DEF r
<1>3. /\ r \in Runs /\ runs' = Append(runs, r) /\ trees' \in Seq(Trees) /\ MainHead' = MainHead + 1
      /\ \A rev \in 1..MainHead : trees'[rev] = trees[rev]
      /\ UNCHANGED <<deployments, group, liveVars, qualified>>
  BY PushRuns DEF r
<1>4. MainHead <= MainHead' /\ r.rev \in 1..MainHead'
  BY <1>1, <1>2, <1>3
<1> QED BY <1>2, <1>3, <1>4, Begins

\* A manual run is of main's head.
LEMMA DispatchRuns ==
  ASSUME ReleaseInv, NEW mode \in {"validate", "redeploy"}, Dispatch(mode)
  PROVE  LET r == NewRun("workflow_dispatch", mode, MainHead)
         IN /\ r \in Runs /\ runs' = Append(runs, r)
            /\ r.stage = "triggered" /\ r.result = "none" /\ r.rev = MainHead
            /\ r.event = "workflow_dispatch"
            /\ UNCHANGED <<trees, deployments, group, liveVars, qualified>>
            /\ trees' \in Seq(Trees) /\ MainHead' = MainHead /\ MainHead \in Nat \ {0}
BY DEF ReleaseInv, Typed, Dispatch, NewRun, NothingChosen, Runs, Checks, Stages, liveVars, MainHead

\* A manual run of the head starts with nothing chosen.
LEMMA DispatchStep ==
  ASSUME ReleaseInv, NEW mode \in {"validate", "redeploy"}, Dispatch(mode)
  PROVE  ReleaseInv'
<1> DEFINE r == NewRun("workflow_dispatch", mode, MainHead)
<1>1. /\ r \in Runs /\ runs' = Append(runs, r)
      /\ r.stage = "triggered" /\ r.result = "none" /\ r.rev = MainHead
      /\ UNCHANGED <<trees, deployments, group, liveVars, qualified>>
      /\ trees' \in Seq(Trees) /\ MainHead' = MainHead /\ MainHead \in Nat \ {0}
  BY DispatchRuns
<1> HIDE DEF r
<1>2. MainHead <= MainHead' /\ r.rev \in 1..MainHead' /\ \A rev \in 1..MainHead : trees'[rev] = trees[rev]
  BY <1>1
<1> QED BY <1>1, <1>2, Begins

\* Nothing live goes back.
Forward == site <= site' /\ redirect <= redirect' /\ edge <= edge'

\* The content of revision rev that a publication concerns is that of a revision that was live.
WasLive(rev) == \E b \in 1..site : \A a \in Areas \ {"maintainer"} : trees[b][a] = trees[rev][a]

\* That content is the one of the revision before.
AsBefore(rev) == rev > 1 => \A a \in Areas \ {"maintainer"} : trees[rev - 1][a] = trees[rev][a]

\* What a push that publishes nothing may bring.
NothingNew(rev) == WasLive(rev) /\ AsBefore(rev)

\* What a step does to run i, as far as its success depends on it.
Follows(i) ==
  LET r == runs[i]
      q == runs'[i]
  IN /\ i \in DOMAIN runs' /\ q.event = r.event /\ q.rev = r.rev
     /\ \/ q = r
        \/ /\ q.result # "success" /\ Reached(q) = "selected"
           /\ ~q.checks.deploy /\ q.event = "push" => NothingNew(q.rev)
        \/ /\ q.checks = r.checks
           /\ \/ q.result # "success" /\ (Reached(q) = "selected" => Reached(r) = "selected")
              \/ q.result = "success" /\ q.checks.deploy /\ q.rev <= site'
              \/ q.result = "success" /\ ~q.checks.deploy /\ Reached(r) = "selected"
                                     /\ Reached(q) = "none"

\* A step keeps the invariant, goes forward and follows each run.
Sound == ReleaseInv' /\ Forward /\ (\A i \in DOMAIN runs : Follows(i))

\* Nothing live changes.
LEMMA LiveKept == ASSUME ReleaseInv, UNCHANGED liveVars PROVE Forward
BY DEF ReleaseInv, Typed, Forward, liveVars

\* The other runs stay as they are.
LEMMA OthersFollow ==
  ASSUME NEW i \in DOMAIN runs, NEW r, Becomes(i, r), Follows(i)
  PROVE  \A j \in DOMAIN runs : Follows(j)
BY DEF Becomes, Follows

\* What a run chooses covers every change since the newest successful deployment.
LEMMA SelectStep == ASSUME ReleaseInv, NEW i \in DOMAIN runs, Select(i) PROVE Sound
<1>1. PICK c \in Checks :
           /\ Becomes(i, [runs[i] EXCEPT !.checks = c, !.stage = "selected"])
           /\ ~c.framework => Passed(runs[i].rev)
           /\ ~c.deploy /\ runs[i].event = "push" => NothingNew(runs[i].rev)
  BY Selects DEF NothingNew, WasLive, AsBefore
<1> DEFINE r == [runs[i] EXCEPT !.checks = c, !.stage = "selected"]
<1>2. runs[i] \in Runs /\ Ended(runs[i]) /\ runs[i].stage = "triggered" /\ runs[i].result = "none"
  BY RunTyped DEF ReleaseInv, Select, Ended
<1>3. /\ r \in Runs /\ r.rev = runs[i].rev /\ r.stage = "selected" /\ r.result = "none"
      /\ r.checks = c /\ r.event = runs[i].event
  BY <1>2 DEF Runs, Stages
<1>4. UNCHANGED <<trees, deployments, group, liveVars, qualified>>
  BY DEF Select
<1> HIDE DEF r
<1>5. Becomes(i, r)
  BY <1>1 DEF r
<1>6. Reached(r) = "selected"
  BY <1>3 DEF Reached
<1>7. ReleaseInv'
  <2>1. "selected" \notin PublisherStages \cup {"pending"} /\ "triggered" \notin PublisherStages \cup {"pending"}
        /\ "selected" \notin Admitted
    BY DEF PublisherStages, Admitted
  <2>2. ~c.framework => trees[r.rev]["runtime"] \in qualified'
    BY <1>1, <1>3, <1>4 DEF Passed
  <2> QED BY <1>2, <1>3, <1>4, <1>5, <1>6, <2>1, <2>2, Outside
<1>8. Follows(i)
  BY <1>1, <1>3, <1>5, <1>6 DEF Follows, Becomes
<1> QED BY <1>4, <1>5, <1>7, <1>8, LiveKept, OthersFollow DEF Sound

\* A run fails before it is in the group.
LEMMA FailsAlone ==
  ASSUME ReleaseInv, NEW i \in DOMAIN runs, runs[i].stage \in {"triggered", "selected"},
         UNCHANGED <<trees, liveVars>>, qualified \subseteq qualified', Fail(i)
  PROVE  Sound
<1> DEFINE r == Done(runs[i], "failure", runs[i].stage)
<1>1. /\ runs[i] \in Runs /\ Ended(runs[i]) /\ Chosen(runs[i])
      /\ runs[i].stage \notin PublisherStages \cup {"pending"}
  BY RunTyped DEF ReleaseInv, PublisherStages
<1>2. Becomes(i, r) /\ group' = group /\ deployments' = deployments
  <2>1. group.running # i /\ runs[i].stage \in Stages \cup {"none"} /\ Typed
    BY <1>1 DEF ReleaseInv, Serial, Stages
  <2> QED BY <2>1, EndAlone DEF Fail
<1>3. /\ r \in Runs /\ r.rev = runs[i].rev /\ r.stage = "done" /\ r.result = "failure"
      /\ r.failedAt = runs[i].stage /\ r.checks = runs[i].checks /\ r.event = runs[i].event
  BY <1>1 DEF Runs, Stages, Done
<1> HIDE DEF r
<1>4. Reached(r) = Reached(runs[i])
  BY <1>1, <1>3 DEF Reached
<1>5. ReleaseInv'
  <2>1. /\ "done" \notin PublisherStages \cup {"pending"} /\ r.failedAt \in Resumable
        /\ runs[i].stage # "done" /\ Reached(r) \notin Admitted
    BY <1>3, <1>4 DEF PublisherStages, Resumable, Admitted, Reached
  <2>2. Reached(r) = "selected" /\ r.checks.deploy =>
           r.checks.framework \/ trees[r.rev]["runtime"] \in qualified'
    BY <1>1, <1>3, <1>4 DEF Chosen, Passed
  <2> QED BY <1>1, <1>2, <1>3, <2>1, <2>2, Outside
<1>6. Follows(i)
  BY <1>2, <1>3, <1>4 DEF Follows, Becomes
<1> QED BY <1>2, <1>5, <1>6, LiveKept, OthersFollow DEF Sound

\* A run whose detection fails leaves the release group alone.
LEMMA DetectionFailsStep == ASSUME ReleaseInv, NEW i \in DOMAIN runs, DetectionFails(i) PROVE Sound
BY FailsAlone DEF DetectionFails, liveVars

\* What the framework jobs passed is qualified; a run that deploys nothing ends at the gate.
LEMMA GateStep == ASSUME ReleaseInv, NEW i \in DOMAIN runs, Gate(i) PROVE Sound
<1> DEFINE run == runs[i]
<1>1. PICK results \in JobResults(run) :
       /\ qualified' = IF results["framework"] = "success"
                       THEN qualified \cup {trees[run.rev]["runtime"]}
                       ELSE qualified
       /\ IF ~RequireSelectedJobs(run, results) THEN Fail(i)
          ELSE IF run.checks.deploy THEN Move(i, "gated") /\ UNCHANGED probes
          ELSE End(i, "success", "none", deployments)
  BY DEF Gate
<1>2. /\ run.stage = "selected" /\ UNCHANGED <<trees, liveVars>> /\ qualified \subseteq qualified'
  BY <1>1 DEF Gate
<1>3. /\ run \in Runs /\ Ended(run) /\ Chosen(run) /\ Reached(run) = "selected"
      /\ run.stage \notin PublisherStages \cup {"pending"} /\ run.result = "none"
  BY <1>2, RunTyped DEF ReleaseInv, PublisherStages, Reached, Ended
<1>4. CASE ~RequireSelectedJobs(run, results)
  BY <1>1, <1>2, <1>4, FailsAlone
<1>5. CASE RequireSelectedJobs(run, results) /\ run.checks.deploy
  <2> DEFINE r == [run EXCEPT !.stage = "gated"]
  <2>1. Move(i, "gated") /\ group' = group /\ deployments' = deployments
    BY <1>1, <1>5 DEF Move
  <2>2. Becomes(i, r)
    <3>1. "gated" \in Stages /\ Typed
      BY DEF Stages, ReleaseInv
    <3> QED BY <2>1, <3>1, MoveRuns
  <2>3. /\ r \in Runs /\ r.rev = run.rev /\ r.stage = "gated" /\ r.result = "none"
        /\ r.checks = run.checks /\ r.event = run.event
    BY <1>3 DEF Runs, Stages
  <2> HIDE DEF r
  <2>4. trees[r.rev]["runtime"] \in qualified'
    <3>1. run.checks.framework => results["framework"] = "success"
      BY <1>5 DEF RequireSelectedJobs, GateJobs, Expected, SelectionOf
    <3> QED BY <1>1, <1>2, <1>3, <1>5, <2>3, <3>1 DEF Chosen, Passed
  <2>5. Reached(r) = "gated" /\ r.stage \notin PublisherStages \cup {"pending"}
    BY <2>3 DEF Reached, PublisherStages
  <2>6. ReleaseInv'
    BY <1>2, <1>3, <1>5, <2>1, <2>2, <2>3, <2>4, <2>5, Outside
  <2>7. Follows(i)
    BY <2>2, <2>3, <2>5 DEF Follows, Becomes
  <2> QED BY <1>2, <2>2, <2>6, <2>7, LiveKept, OthersFollow DEF Sound
<1>6. CASE RequireSelectedJobs(run, results) /\ ~run.checks.deploy
  <2> DEFINE r == Done(run, "success", "none")
  <2>1. Becomes(i, r) /\ group' = group /\ deployments' = deployments
    <3>1. End(i, "success", "none", deployments)
      BY <1>1, <1>6
    <3>2. group.running # i /\ Typed
      BY <1>3 DEF ReleaseInv, Serial
    <3> QED BY <3>1, <3>2, EndAlone
  <2>2. /\ r \in Runs /\ r.rev = run.rev /\ r.stage = "done" /\ r.result = "success"
        /\ r.checks = run.checks /\ r.event = run.event /\ r.failedAt = "none"
    BY <1>3 DEF Runs, Stages, Done
  <2> HIDE DEF r
  <2>3. Reached(r) = "none" /\ r.stage \notin PublisherStages \cup {"pending"} /\ "none" \notin Admitted
    BY <2>2 DEF Reached, PublisherStages, Admitted
  <2>4. ReleaseInv'
    BY <1>2, <1>3, <2>1, <2>2, <2>3, Outside
  <2>5. Follows(i)
    BY <1>3, <1>6, <2>1, <2>2, <2>3 DEF Follows, Becomes
  <2> QED BY <1>2, <2>1, <2>4, <2>5, LiveKept, OthersFollow DEF Sound
<1> QED BY <1>4, <1>5, <1>6

\* A rerun keeps its revision, and from the gate on also its choice.
LEMMA RerunStep == ASSUME ReleaseInv, NEW i \in DOMAIN runs, Rerun(i) PROVE Sound
<1> DEFINE run == runs[i]
<1>1. PICK stage \in {"triggered", IF run.failedAt \in PublisherStages THEN "gated" ELSE run.failedAt} :
        runs' = [runs EXCEPT ![i].stage = stage, ![i].result = "none",
                             ![i].failedAt = "none", ![i].reruns = @ + 1]
  BY DEF Rerun
<1>2. /\ run.stage = "done" /\ run.result # "success"
      /\ UNCHANGED <<trees, deployments, group, liveVars, probes, qualified>>
  BY DEF Rerun
<1>3. /\ run \in Runs /\ Ended(run) /\ Chosen(run) /\ run.result \in {"failure", "cancelled"}
      /\ run.failedAt \in Resumable /\ Reached(run) = run.failedAt
  BY <1>2, RunTyped DEF ReleaseInv, Ended, Reached, Runs
<1>4. /\ stage \in {"triggered", "selected", "gated"}
      /\ stage = "selected" => run.failedAt = "selected"
      /\ stage = "gated" => run.failedAt \in Admitted
  BY <1>1, <1>3 DEF Resumable, Admitted
<1> DEFINE n == run.reruns + 1
           r == [run EXCEPT !.stage = stage, !.result = "none", !.failedAt = "none", !.reruns = n]
<1>5. /\ r \in Runs /\ r.rev = run.rev /\ r.stage = stage /\ r.result = "none"
      /\ r.checks = run.checks /\ r.event = run.event
  <2>1. run \in Runs /\ stage \in Stages
    BY <1>3, <1>4 DEF Stages
  <2>2. n \in Nat
    BY <2>1 DEF Runs
  <2> HIDE DEF run, n
  <2>3. r \in Runs
    BY ONLY <2>1, <2>2 DEF Runs, r
  <2>4. r.rev = run.rev /\ r.stage = stage /\ r.result = "none"
    BY ONLY <2>1 DEF Runs, r
  <2>5. r.checks = run.checks /\ r.event = run.event
    BY ONLY <2>1 DEF Runs, r
  <2> QED BY <2>3, <2>4, <2>5
<1>6. runs' = [runs EXCEPT ![i] = r]
  BY <1>1
<1> HIDE DEF r, n
<1>7. Becomes(i, r)
  BY <1>5, <1>6, Replaced DEF ReleaseInv, Typed, Becomes
<1>8. Reached(r) = stage /\ stage \notin PublisherStages \cup {"pending"} /\ "done" \notin PublisherStages \cup {"pending"}
  BY <1>4, <1>5 DEF Reached, PublisherStages
<1>9. ReleaseInv'
  <2>1. Reached(r) \in Admitted => r.checks.deploy /\ trees[r.rev]["runtime"] \in qualified'
    BY <1>2, <1>3, <1>4, <1>5, <1>8 DEF Chosen, Passed, Admitted, PublisherStages
  <2>2. Reached(r) = "selected" /\ r.checks.deploy =>
           r.checks.framework \/ trees[r.rev]["runtime"] \in qualified'
    BY <1>2, <1>3, <1>4, <1>5, <1>8 DEF Chosen, Passed
  <2> QED BY <1>2, <1>4, <1>5, <1>7, <1>8, <2>1, <2>2, Outside
<1>10. Follows(i)
  BY <1>3, <1>4, <1>5, <1>7, <1>8 DEF Follows, Becomes
<1> QED BY <1>2, <1>7, <1>9, <1>10, LiveKept, OthersFollow DEF Sound

\* deploy-production is admitted to the free group and opens a deployment record.
LEMMA Admits ==
  ASSUME ReleaseInv, NEW i \in DOMAIN runs, Enqueue(i), group.running = None
  PROVE  Sound
<1> DEFINE run == runs[i]
           r == [run EXCEPT !.stage = "verify"]
           new == [rev |-> run.rev, success |-> FALSE]
           n == Len(deployments)
<1>1. /\ run.stage = "gated" /\ runs' = [runs EXCEPT ![i] = r]
      /\ group' = [group EXCEPT !.running = i] /\ deployments' = Append(deployments, new)
      /\ UNCHANGED <<trees, liveVars, probes, qualified>>
  BY DEF Enqueue
<1>2. /\ run \in Runs /\ Ended(run) /\ Chosen(run) /\ run.result = "none"
      /\ run.rev \in 1..MainHead /\ run.rev \in Nat /\ i \in Nat /\ i # None
  BY <1>1, RunTyped, NoneIsNoRun, LenProperties DEF ReleaseInv, Ended, Runs, Typed
<1>3. /\ r \in Runs /\ r.stage = "verify" /\ r.rev = run.rev /\ r.checks = run.checks
      /\ r.event = run.event /\ r.result = run.result
  BY <1>2 DEF Runs, Stages, PublisherStages
<1>4. new \in Records /\ new.rev = run.rev /\ new.success = FALSE
  BY <1>2 DEF Records
<1> HIDE DEF r, new
<1>5. Becomes(i, r)
  BY <1>1, <1>3, Replaced DEF ReleaseInv, Typed, Becomes
<1>6. /\ n \in Nat \ {0} /\ DOMAIN deployments = 1..n
      /\ deployments' \in Seq(Records) /\ Len(deployments') = n + 1
      /\ deployments'[n + 1] = new
      /\ \A d \in 1..n : deployments'[d] = deployments[d]
  BY <1>1, <1>4, AppendProperties, LenProperties DEF ReleaseInv, Typed
<1> HIDE DEF n
<1>7. DOMAIN deployments' = 1..(n + 1)
  BY <1>6, LenProperties
<1>8. group' = [running |-> i, pending |-> None]
  BY <1>1 DEF ReleaseInv, Serial, Typed
<1>9. Typed'
  BY <1>1, <1>2, <1>5, <1>6, <1>8 DEF ReleaseInv, Typed, Becomes, MainHead, liveVars, None
<1>10. Serial'
  <2>1. \A j \in DOMAIN runs : runs[j].stage \notin PublisherStages \cup {"pending"}
    BY NoneIsNoRun DEF ReleaseInv, Serial
  <2>2. "verify" \in PublisherStages /\ "pending" \notin PublisherStages
    BY DEF PublisherStages
  <2>3. None \notin DOMAIN runs
    BY NoneIsNoRun DEF ReleaseInv
  <2> QED BY <1>2, <1>3, <1>5, <1>8, <2>1, <2>2, <2>3 DEF Serial, Becomes
<1>11. /\ \A d \in DOMAIN deployments' :
            /\ deployments'[d].rev \in 1..MainHead
            /\ deployments'[d].success => deployments'[d].rev <= site /\ Passed(deployments'[d].rev)
  <2>1. \A d \in DOMAIN deployments' : d = n + 1 \/ d \in 1..n
    BY <1>6, <1>7
  <2> QED BY <1>2, <1>4, <1>6, <2>1 DEF ReleaseInv, Recorded, Qualified
<1>12. Recorded'
  <2>1. group'.running = i /\ runs'[i].rev = run.rev
    BY <1>3, <1>5, <1>8 DEF Becomes
  <2>2. /\ deployments'[Len(deployments')] = [rev |-> runs'[group'.running].rev, success |-> FALSE]
        /\ ~deployments'[Len(deployments')].success
    BY <1>4, <1>6, <2>1 DEF new
  <2> QED BY <1>1, <1>11, <2>2 DEF Recorded, MainHead, liveVars
<1>13. Qualified' /\ (edge <= site)'
  BY <1>1, <1>11 DEF ReleaseInv, Qualified, Passed, liveVars
<1>14. ASSUME NEW j \in DOMAIN runs' PROVE (Ended(runs[j]) /\ Uploaded(runs[j]) /\ Chosen(runs[j]))'
  <2>1. CASE j = i
    <3>1. runs'[j] = r
      BY <1>5, <2>1 DEF Becomes
    <3>2. Passed(run.rev) /\ run.checks.deploy
      BY <1>1, <1>2 DEF Chosen, Reached, Admitted
    <3>3. Ended(runs[j])'
      BY <3>1, <1>1, <1>2, <1>3 DEF Ended, MainHead
    <3>4. Uploaded(runs[j])'
      BY <3>1, <1>3 DEF Uploaded
    <3>5. Chosen(runs[j])'
      BY <3>1, <3>2, <1>1, <1>3 DEF Chosen, Passed, Reached
    <3> QED BY <3>3, <3>4, <3>5
  <2>2. CASE j # i
    <3>1. j \in DOMAIN runs /\ runs'[j] = runs[j]
      BY <1>5, <2>2 DEF Becomes
    <3>2. Ended(runs[j]) /\ Uploaded(runs[j]) /\ Chosen(runs[j])
      BY <3>1 DEF ReleaseInv
    <3> QED BY <3>1, <3>2, <1>1 DEF Ended, Uploaded, Chosen, Passed, Reached, MainHead, liveVars
  <2> QED BY <2>1, <2>2
<1>15. ReleaseInv'
  BY <1>9, <1>10, <1>12, <1>13, <1>14 DEF ReleaseInv
<1>16. Follows(i)
  <2>1. Reached(r) = "verify"
    BY <1>3 DEF Reached
  <2> QED BY <1>2, <1>3, <1>5, <2>1 DEF Follows, Becomes
<1> QED BY <1>1, <1>5, <1>15, <1>16, LiveKept, OthersFollow DEF Sound

\* deploy-production waits for the group; one that waited is cancelled for it.
LEMMA Waits ==
  ASSUME ReleaseInv, NEW i \in DOMAIN runs, Enqueue(i), group.running # None
  PROVE  Sound
<1> DEFINE old == group.pending
           waiting(r) == [r EXCEPT !.stage = "pending"]
           cancelled(r) == [r EXCEPT !.stage = "done", !.result = "cancelled", !.failedAt = "gated"]
<1>1. /\ runs[i].stage = "gated"
      /\ group' = [group EXCEPT !.pending = i] /\ deployments' = deployments
      /\ UNCHANGED <<trees, liveVars, probes, qualified>>
      /\ runs' = [j \in DOMAIN runs |-> IF j = i THEN waiting(runs[j])
                                        ELSE IF j = old THEN cancelled(runs[j])
                                        ELSE runs[j]]
  BY DEF Enqueue
<1>2. ASSUME NEW r \in Runs
      PROVE  /\ waiting(r) \in Runs
             /\ waiting(r).stage = "pending" /\ waiting(r).rev = r.rev /\ waiting(r).checks = r.checks
             /\ waiting(r).event = r.event /\ waiting(r).result = r.result
  BY DEF Runs, Stages, PublisherStages
<1>3. ASSUME NEW r \in Runs
      PROVE  /\ cancelled(r) \in Runs
             /\ cancelled(r).stage = "done" /\ cancelled(r).rev = r.rev
             /\ cancelled(r).checks = r.checks /\ cancelled(r).event = r.event
             /\ cancelled(r).result = "cancelled" /\ cancelled(r).failedAt = "gated"
  BY DEF Runs, Stages, PublisherStages
<1>4. \A j \in DOMAIN runs : runs[j] \in Runs /\ Ended(runs[j]) /\ Uploaded(runs[j]) /\ Chosen(runs[j])
  BY RunTyped DEF ReleaseInv
<1> HIDE DEF waiting, cancelled
<1>5. /\ DOMAIN runs' = DOMAIN runs /\ runs'[i] = waiting(runs[i])
      /\ \A j \in DOMAIN runs \ {i} : j = old => runs'[j] = cancelled(runs[j])
      /\ \A j \in DOMAIN runs \ {i} : j # old => runs'[j] = runs[j]
  BY <1>1
<1>6. runs' \in Seq(Runs)
  <2>1. DOMAIN runs = 1..Len(runs) /\ Len(runs) \in Nat
    BY LenProperties DEF ReleaseInv, Typed
  <2>2. \A j \in 1..Len(runs) : runs'[j] \in Runs
    BY <1>2, <1>3, <1>4, <1>5, <2>1
  <2>3. runs' = [j \in 1..Len(runs) |-> runs'[j]]
    BY <1>1, <2>1
  <2> QED BY <2>1, <2>2, <2>3, IsASeq
<1>7. group' = [running |-> group.running, pending |-> i] /\ i \in Nat /\ group.running \in Nat
  <2>1. group \in [running : Nat, pending : Nat]
    BY DEF ReleaseInv, Typed
  <2>2. i \in Nat
    BY LenProperties DEF ReleaseInv, Typed
  <2>3. group' = [group EXCEPT !.pending = i]
    BY <1>1
  <2> QED BY ONLY <2>1, <2>2, <2>3
<1>8. Typed'
  BY <1>1, <1>5, <1>6, <1>7 DEF ReleaseInv, Typed, MainHead, liveVars
<1>9. /\ group.running \in DOMAIN runs \ {i, old}
      /\ runs[group.running].stage \in PublisherStages
      /\ \A j \in DOMAIN runs : runs[j].stage = "pending" <=> j = old
  BY <1>1 DEF ReleaseInv, Serial, PublisherStages
<1>10. Serial'
  <2>1. \A j \in DOMAIN runs : runs'[j].stage \in PublisherStages <=> j = group.running
    BY <1>1, <1>2, <1>3, <1>4, <1>5, <1>9 DEF ReleaseInv, Serial, PublisherStages
  <2>2. \A j \in DOMAIN runs : runs'[j].stage = "pending" <=> j = i
    BY <1>1, <1>2, <1>3, <1>4, <1>5, <1>9
  <2> QED BY <1>5, <1>7, <1>9, <2>1, <2>2 DEF Serial
<1>11. Recorded'
  BY <1>1, <1>5, <1>7, <1>9 DEF ReleaseInv, Recorded, MainHead, liveVars
<1>12. Qualified' /\ (edge <= site)'
  BY <1>1 DEF ReleaseInv, Qualified, Passed, liveVars
<1>13. ASSUME NEW j \in DOMAIN runs
       PROVE  (Ended(runs[j]) /\ Uploaded(runs[j]) /\ Chosen(runs[j]))' /\ Follows(j)
  <2>1. CASE j = i
    <3>1. /\ Reached(runs'[j]) = "pending" /\ Reached(runs[j]) = "gated" /\ runs[j].result = "none"
      BY <1>1, <1>2, <1>4, <1>5, <2>1 DEF Reached, Ended
    <3>2. Passed(runs[j].rev) /\ runs[j].checks.deploy
      BY <1>4, <3>1 DEF Chosen, Admitted
    <3>3. Follows(j)
      BY <1>2, <1>4, <1>5, <2>1, <3>1 DEF Follows
    <3>4. Ended(runs[j])'
      BY <1>1, <1>2, <1>4, <1>5, <2>1, <3>1 DEF Ended, MainHead
    <3>5. Uploaded(runs[j])'
      BY <1>2, <1>4, <1>5, <2>1 DEF Uploaded
    <3>6. Chosen(runs[j])'
      BY <1>1, <1>2, <1>4, <1>5, <2>1, <3>1, <3>2 DEF Chosen, Passed
    <3> QED BY <3>3, <3>4, <3>5, <3>6
  <2>2. CASE j # i /\ j = old
    <3>1. /\ Reached(runs'[j]) = "gated" /\ Reached(runs[j]) = "pending" /\ runs'[j].result = "cancelled"
      BY <1>3, <1>4, <1>5, <1>9, <2>2 DEF Reached
    <3>2. Passed(runs[j].rev) /\ runs[j].checks.deploy
      BY <1>4, <3>1 DEF Chosen, Admitted
    <3>3. Follows(j)
      BY <1>3, <1>4, <1>5, <2>2, <3>1 DEF Follows
    <3>4. Ended(runs[j])'
      BY <1>1, <1>3, <1>4, <1>5, <2>2 DEF Ended, MainHead, Resumable
    <3>5. Uploaded(runs[j])'
      BY <1>3, <1>4, <1>5, <2>2 DEF Uploaded
    <3>6. Chosen(runs[j])'
      BY <1>1, <1>3, <1>4, <1>5, <2>2, <3>1, <3>2 DEF Chosen, Passed
    <3> QED BY <3>3, <3>4, <3>5, <3>6
  <2>3. CASE j # i /\ j # old
    <3>1. runs'[j] = runs[j]
      BY <1>5, <2>3
    <3> QED BY <1>1, <1>4, <1>5, <3>1 DEF Follows, Ended, Uploaded, Chosen, Passed, Reached, MainHead, liveVars
  <2> QED BY <2>1, <2>2, <2>3
<1>14. ReleaseInv'
  BY <1>5, <1>8, <1>10, <1>11, <1>12, <1>13 DEF ReleaseInv
<1> QED BY <1>1, <1>13, <1>14, LiveKept DEF Sound

\* A run becomes the publisher with a record of its own, or waits in place of the one that waited.
LEMMA EnqueueStep == ASSUME ReleaseInv, NEW i \in DOMAIN runs, Enqueue(i) PROVE Sound
BY Admits, Waits

\* What the runs become when the publisher ends.
LEMMA EndsFollow ==
  ASSUME ReleaseInv, NEW i \in DOMAIN runs, runs[i].stage \in PublisherStages,
         NEW result, NEW failedAt, NEW records, End(i, result, failedAt, records),
         \/ result = "failure" /\ failedAt = runs[i].stage
         \/ result = "success" /\ failedAt = "none" /\ runs[i].rev <= site'
  PROVE  \A j \in DOMAIN runs : Follows(j)
<1> DEFINE next == group.pending
           me == Done(runs[i], result, failedAt)
<1>1. /\ Typed /\ Serial /\ group.running = i /\ runs[i] \in Runs /\ Chosen(runs[i])
      /\ runs[i].stage \notin {"done", "pending", "selected"}
      /\ Reached(runs[i]) \in Admitted
  BY RunTyped DEF ReleaseInv, Serial, PublisherStages, Reached, Admitted
<1>2. failedAt \in Stages \cup {"none"} /\ result \in {"success", "failure", "cancelled"}
  BY <1>1 DEF Stages
<1>3. /\ next = None => Becomes(i, me)
      /\ next # None =>
           /\ next \in DOMAIN runs \ {i} /\ DOMAIN runs' = DOMAIN runs
           /\ runs'[i] = me
           /\ runs'[next] = [runs[next] EXCEPT !.stage = "verify"]
           /\ \A j \in DOMAIN runs \ {i, next} : runs'[j] = runs[j]
  <2>1. next = None => Becomes(i, me)
    BY <1>1, <1>2, EndHandsOver
  <2>2. next # None => /\ next \in DOMAIN runs \ {i} /\ DOMAIN runs' = DOMAIN runs
                       /\ runs'[next] = [runs[next] EXCEPT !.stage = "verify"]
    BY <1>1, <1>2, EndHandsOver
  <2>3. next # None => /\ runs'[i] = me
                       /\ \A j \in DOMAIN runs \ {i, next} : runs'[j] = runs[j]
    BY <1>1, <1>2, EndHandsOver
  <2> HIDE DEF next, me
  <2> QED BY <2>1, <2>2, <2>3
<1>4. /\ me.stage = "done" /\ me.rev = runs[i].rev /\ me.checks = runs[i].checks
      /\ me.event = runs[i].event /\ me.result = result /\ me.failedAt = failedAt
  BY <1>1 DEF Runs, Done
<1> HIDE DEF next, me
<1>5. DOMAIN runs' = DOMAIN runs /\ runs'[i] = me /\ next \notin {i}
  BY <1>1, <1>3 DEF Becomes, ReleaseInv, Serial, PublisherStages, next
<1>6. Follows(i)
  <2>1. runs[i].checks.deploy
    BY <1>1 DEF Chosen
  <2> QED BY <1>1, <1>4, <1>5, <2>1 DEF Follows, Reached
<1>7. ASSUME NEW j \in DOMAIN runs, j # i, j = next PROVE Follows(j)
  <2>1. /\ runs[j] \in Runs /\ runs[j].stage = "pending" /\ runs[j].result = "none"
        /\ runs'[j] = [runs[j] EXCEPT !.stage = "verify"]
    BY <1>3, <1>7, RunTyped, NoneIsNoRun DEF ReleaseInv, Serial, Ended, next
  <2>2. /\ runs'[j].stage = "verify" /\ runs'[j].result = "none" /\ runs'[j].checks = runs[j].checks
        /\ runs'[j].event = runs[j].event /\ runs'[j].rev = runs[j].rev
    BY <2>1 DEF Runs
  <2> QED BY <1>5, <2>2 DEF Follows, Reached
<1>8. ASSUME NEW j \in DOMAIN runs, j # i, j # next PROVE Follows(j)
  <2>1. runs'[j] = runs[j]
    BY <1>3, <1>8 DEF Becomes
  <2> QED BY <1>5, <2>1 DEF Follows
<1> QED BY <1>6, <1>7, <1>8

\* The publisher fails, in the middle of an upload perhaps.
LEMMA PublisherFails ==
  ASSUME ReleaseInv, NEW i \in DOMAIN runs, runs[i].stage \in PublisherStages, Fail(i),
         UNCHANGED <<trees, edge, qualified>>,
         site' \in {site, runs[i].rev}, redirect' \in {redirect, runs[i].rev},
         site <= site', redirect <= redirect'
  PROVE  Sound
<1>1. ReleaseInv'
  BY Ends DEF Fail
<1>2. \A j \in DOMAIN runs : Follows(j)
  BY EndsFollow DEF Fail
<1>3. Forward
  BY DEF Forward, ReleaseInv, Typed
<1> QED BY <1>1, <1>2, <1>3 DEF Sound

\* The publisher goes on to its next stage.
LEMMA PublisherMoves ==
  ASSUME ReleaseInv, NEW i \in DOMAIN runs, runs[i].stage \in PublisherStages,
         NEW stage \in PublisherStages, Move(i, stage),
         UNCHANGED <<trees, edge, qualified>>,
         site' \in {site, runs[i].rev}, redirect' \in {redirect, runs[i].rev},
         site <= site', redirect <= redirect',
         stage \in {"site", "redirect", "probe", "live"} =>
           site' <= runs[i].rev /\ redirect' <= runs[i].rev,
         stage \in {"redirect", "probe", "live"} => site' = runs[i].rev,
         stage \in {"probe", "live"} => redirect' = runs[i].rev
  PROVE  Sound
<1> DEFINE r == [runs[i] EXCEPT !.stage = stage]
<1>1. /\ runs[i] \in Runs /\ Ended(runs[i]) /\ runs[i].stage # "done" /\ stage \in Stages
      /\ stage \notin {"done", "selected"}
  BY RunTyped DEF ReleaseInv, PublisherStages, Stages
<1>2. Becomes(i, r) /\ UNCHANGED <<deployments, group>>
  BY <1>1, MoveRuns DEF ReleaseInv, Move
<1>3. /\ r \in Runs /\ r.stage = stage /\ r.rev = runs[i].rev /\ r.checks = runs[i].checks
      /\ r.event = runs[i].event /\ r.result = runs[i].result
      /\ r = [runs[i] EXCEPT !.stage = r.stage]
  BY <1>1 DEF Runs
<1> HIDE DEF r
<1>4. ReleaseInv'
  BY <1>2, <1>3, Continues
<1>5. Follows(i)
  BY <1>1, <1>2, <1>3 DEF Follows, Becomes, Ended, Reached
<1>6. Forward
  BY DEF Forward, ReleaseInv, Typed
<1> QED BY <1>2, <1>4, <1>5, <1>6, OthersFollow DEF Sound

\* What the stage of a publisher says of the live revisions.
LEMMA PublisherKnows ==
  ASSUME ReleaseInv, NEW i \in DOMAIN runs, runs[i].stage \in PublisherStages
  PROVE  /\ Uploaded(runs[i]) /\ runs[i].rev \in 1..MainHead
         /\ site \in 1..MainHead /\ redirect \in 1..MainHead /\ edge \in 1..MainHead
         /\ MainHead \in Nat
BY DEF ReleaseInv, Typed, Ended

\* A publisher that verifies has uploaded nothing.
LEMMA VerifyStep == ASSUME ReleaseInv, NEW i \in DOMAIN runs, Verify(i) PROVE Sound
<1>1. /\ runs[i].stage \in PublisherStages /\ "head" \in PublisherStages
      /\ UNCHANGED <<trees, liveVars, qualified>>
  BY DEF Verify, PublisherStages
<1>2. Uploaded(runs[i]) /\ site \in Nat /\ redirect \in Nat
  BY <1>1, PublisherKnows
<1>3. CASE Move(i, "head")
  BY <1>1, <1>2, <1>3, PublisherMoves DEF liveVars
<1>4. CASE Fail(i)
  BY <1>1, <1>2, <1>4, PublisherFails DEF liveVars
<1> QED BY <1>3, <1>4 DEF Verify

\* A publisher that goes on to upload has the head.
LEMMA CheckHeadStep == ASSUME ReleaseInv, NEW i \in DOMAIN runs, CheckHead(i) PROVE Sound
<1>1. /\ runs[i].stage \in PublisherStages /\ "site" \in PublisherStages
      /\ UNCHANGED <<trees, liveVars, qualified>>
  BY DEF CheckHead, PublisherStages
<1>2. /\ site \in 1..MainHead /\ redirect \in 1..MainHead /\ MainHead \in Nat
  BY <1>1, PublisherKnows
<1>3. CASE runs[i].rev = MainHead /\ Move(i, "site")
  BY <1>1, <1>2, <1>3, PublisherMoves DEF liveVars
<1>4. CASE Fail(i)
  BY <1>1, <1>2, <1>4, PublisherFails DEF liveVars
<1> QED BY <1>3, <1>4 DEF CheckHead

\* The site is the revision of the publisher, or stays.
LEMMA UploadSiteStep == ASSUME ReleaseInv, NEW i \in DOMAIN runs, UploadSite(i) PROVE Sound
<1>1. /\ runs[i].stage \in PublisherStages /\ "redirect" \in PublisherStages
      /\ runs[i].stage = "site" /\ UNCHANGED <<trees, redirect, edge, qualified>>
  BY DEF UploadSite, PublisherStages
<1>2. /\ site \in Nat /\ redirect \in Nat /\ runs[i].rev \in Nat
      /\ site <= runs[i].rev /\ redirect <= runs[i].rev
  BY <1>1, PublisherKnows DEF Uploaded
<1>3. CASE site' = runs[i].rev /\ Move(i, "redirect")
  BY <1>1, <1>2, <1>3, PublisherMoves
<1>4. CASE site' \in {site, runs[i].rev} /\ Fail(i)
  BY <1>1, <1>2, <1>4, PublisherFails
<1> QED BY <1>3, <1>4 DEF UploadSite

\* The redirect is the revision of the publisher, as the site is, or stays.
LEMMA UploadRedirectStep == ASSUME ReleaseInv, NEW i \in DOMAIN runs, UploadRedirect(i) PROVE Sound
<1>1. /\ runs[i].stage \in PublisherStages /\ "probe" \in PublisherStages
      /\ runs[i].stage = "redirect" /\ UNCHANGED <<trees, site, edge, qualified>>
  BY DEF UploadRedirect, PublisherStages
<1>2. /\ site \in Nat /\ redirect \in Nat /\ runs[i].rev \in Nat
      /\ site = runs[i].rev /\ redirect <= runs[i].rev
  BY <1>1, PublisherKnows DEF Uploaded
<1>3. CASE redirect' = runs[i].rev /\ Move(i, "probe")
  BY <1>1, <1>2, <1>3, PublisherMoves
<1>4. CASE redirect' \in {redirect, runs[i].rev} /\ Fail(i)
  BY <1>1, <1>2, <1>4, PublisherFails
<1> QED BY <1>3, <1>4 DEF UploadRedirect

\* Only the count of the probes changes.
LEMMA NothingFollows ==
  ASSUME ReleaseInv, UNCHANGED <<trees, runs, deployments, group, liveVars, qualified>> PROVE Sound
<1>1. ReleaseInv'
  BY DEF ReleaseInv, Typed, Serial, Recorded, Qualified, Passed, Ended, Uploaded, Chosen, Reached,
         MainHead, liveVars
<1>2. \A i \in DOMAIN runs : Follows(i)
  BY DEF Follows
<1> QED BY <1>1, <1>2, LiveKept DEF Sound

\* A publisher goes on when the edge has its revision.
LEMMA ProbeStep == ASSUME ReleaseInv, NEW i \in DOMAIN runs, Probe(i) PROVE Sound
<1>1. /\ runs[i].stage \in PublisherStages /\ "live" \in PublisherStages
      /\ runs[i].stage = "probe" /\ UNCHANGED <<trees, liveVars, qualified>>
  BY DEF Probe, PublisherStages
<1>2. /\ site \in Nat /\ redirect \in Nat /\ runs[i].rev \in Nat
      /\ site = runs[i].rev /\ redirect = runs[i].rev
  BY <1>1, PublisherKnows DEF Uploaded
<1>3. CASE Move(i, "live")
  BY <1>1, <1>2, <1>3, PublisherMoves DEF liveVars
<1>4. CASE Fail(i)
  BY <1>1, <1>2, <1>4, PublisherFails DEF liveVars
<1>5. CASE UNCHANGED <<runs, deployments, group>>
  BY <1>1, <1>5, NothingFollows DEF liveVars
<1> QED BY <1>3, <1>4, <1>5 DEF Probe

\* A success is recorded when the site, the redirect and the edge have the revision.
LEMMA VerifyLiveStep == ASSUME ReleaseInv, NEW i \in DOMAIN runs, VerifyLive(i) PROVE Sound
<1>1. /\ runs[i].stage \in PublisherStages
      /\ runs[i].stage = "live" /\ UNCHANGED <<trees, liveVars, qualified>>
  BY DEF VerifyLive, PublisherStages
<1>2. /\ site \in Nat /\ redirect \in Nat /\ runs[i].rev \in Nat
      /\ site = runs[i].rev /\ redirect = runs[i].rev
  BY <1>1, PublisherKnows DEF Uploaded
<1>3. CASE edge = runs[i].rev /\ End(i, "success", "none", Succeeded)
  <2>1. ReleaseInv'
    BY <1>1, <1>2, <1>3, Ends DEF liveVars
  <2>2. \A j \in DOMAIN runs : Follows(j)
    BY <1>1, <1>2, <1>3, EndsFollow DEF liveVars
  <2> QED BY <1>1, <2>1, <2>2, LiveKept DEF Sound
<1>4. CASE Fail(i)
  BY <1>1, <1>2, <1>4, PublisherFails DEF liveVars
<1> QED BY <1>3, <1>4 DEF VerifyLive

\* The edge takes the revision of the site.
LEMMA PropagateStep == ASSUME ReleaseInv, Propagate PROVE Sound
<1>1. edge' = site /\ UNCHANGED <<trees, runs, deployments, group, site, redirect, qualified>>
  BY DEF Propagate
<1>2. ReleaseInv'
  <2>1. Typed' /\ Serial' /\ Qualified' /\ (edge <= site)'
    BY <1>1 DEF ReleaseInv, Typed, Serial, Qualified, Passed, MainHead
  <2>2. Recorded'
    BY <1>1 DEF ReleaseInv, Recorded, MainHead
  <2>3. \A i \in DOMAIN runs' : (Ended(runs[i]) /\ Uploaded(runs[i]) /\ Chosen(runs[i]))'
    BY <1>1 DEF ReleaseInv, Ended, Uploaded, Chosen, Passed, Reached, MainHead
  <2> QED BY <2>1, <2>2, <2>3 DEF ReleaseInv
<1>3. \A i \in DOMAIN runs : Follows(i)
  BY <1>1 DEF Follows
<1>4. Forward
  BY <1>1 DEF ReleaseInv, Typed, Forward
<1> QED BY <1>2, <1>3, <1>4 DEF Sound

\* Every step keeps the invariant and goes forward.
LEMMA ReleaseStep == ASSUME ReleaseInv, [Next]_vars PROVE ReleaseInv' /\ Forward
<1>1. ASSUME NEW paths \in PushSets, Push(paths) PROVE ReleaseInv' /\ Forward
  BY <1>1, PushStep, LiveKept DEF Push
<1>2. ASSUME NEW mode \in {"validate", "redeploy"}, Dispatch(mode) PROVE ReleaseInv' /\ Forward
  BY <1>2, DispatchStep, LiveKept DEF Dispatch
<1>3. ASSUME NEW i \in DOMAIN runs, Advance(i) \/ Rerun(i) PROVE Sound
  BY <1>3, SelectStep, DetectionFailsStep, GateStep, EnqueueStep, VerifyStep, CheckHeadStep,
     UploadSiteStep, UploadRedirectStep, ProbeStep, VerifyLiveStep, RerunStep DEF Advance
<1>4. CASE Propagate
  BY <1>4, PropagateStep DEF Sound
<1>5. CASE UNCHANGED vars
  BY <1>5, NothingFollows DEF Sound, vars, liveVars
<1> QED BY <1>1, <1>2, <1>3, <1>4, <1>5 DEF Next, Sound

\* Every reachable state satisfies the invariant.
THEOREM ReleaseCorrect == Spec => []ReleaseInv
<1>1. ReleaseInv /\ [Next]_vars => ReleaseInv'
  BY ReleaseStep
<1> QED BY <1>1, ReleaseInit, PTL DEF Spec

\* Whatever the interleaving of pushes, manual runs, failed publications and reruns, neither
\* Worker nor the edge goes back to an older revision.
THEOREM ReleaseGoesForward == Spec => LiveNeverGoesBack
<1>1. ReleaseInv /\ [Next]_vars => [site' >= site /\ redirect' >= redirect /\ edge' >= edge]_vars
  <2>1. ASSUME ReleaseInv, [Next]_vars PROVE site' >= site /\ redirect' >= redirect /\ edge' >= edge
    BY <2>1, ReleaseStep DEF Forward
  <2> QED BY <2>1
<1> QED BY <1>1, ReleaseCorrect, PTL DEF Spec, LiveNeverGoesBack

\* What the invariant says of what is live.
LEMMA ReleasePromises == ReleaseInv => LiveIsQualified /\ SuccessMeansLive
BY DEF ReleaseInv, Recorded, Qualified, Passed, LiveIsQualified, SuccessMeansLive

\* The newest deployment record, when it is successful, is of the revision both Workers and
\* the edge show.
THEOREM ReleaseSucceeds == Spec => []SuccessMeansLive
BY ReleasePromises, ReleaseCorrect, PTL

\* The runtime content of what is live has passed the framework jobs.
THEOREM ReleaseQualifies == Spec => []LiveIsQualified
BY ReleasePromises, ReleaseCorrect, PTL

(* A green main *)

\* A push that selects no publication has the content of a revision that was live and of the
\* revision before it, and a publication that succeeded is no newer than what is live.
Complete(r) ==
  /\ r.event = "push" /\ ~r.checks.deploy /\ (Reached(r) = "selected" \/ r.result = "success")
       => NothingNew(r.rev)
  /\ r.checks.deploy /\ r.result = "success" => r.rev <= site

CompleteInv == ReleaseInv /\ (\A i \in DOMAIN runs : Complete(runs[i]))

\* What was live stays so, and what was as before, too.
LEMMA NothingNewKept ==
  ASSUME ReleaseInv, ReleaseInv', Forward, MainHead <= MainHead',
         \A q \in 1..MainHead : trees'[q] = trees[q],
         NEW rev \in 1..MainHead, NothingNew(rev)
  PROVE  NothingNew(rev)'
<1>1. PICK b \in 1..site : \A a \in Areas \ {"maintainer"} : trees[b][a] = trees[rev][a]
  BY DEF NothingNew, WasLive
<1>2. b \in 1..site' /\ b \in 1..MainHead /\ (rev > 1 => rev - 1 \in 1..MainHead)
  <2>1. /\ MainHead \in Nat /\ MainHead' \in Nat /\ site \in 1..MainHead
        /\ site' \in 1..MainHead' /\ site <= site'
    BY DEF ReleaseInv, Typed, Forward
  <2> QED BY ONLY <2>1, b \in 1..site, rev \in 1..MainHead
<1>3. trees'[b] = trees[b] /\ trees'[rev] = trees[rev] /\ (rev > 1 => trees'[rev - 1] = trees[rev - 1])
  BY <1>2
<1>4. WasLive(rev)'
  BY <1>1, <1>2, <1>3 DEF WasLive
<1>5. AsBefore(rev)'
  BY <1>3 DEF NothingNew, AsBefore
<1> QED BY <1>4, <1>5 DEF NothingNew

\* A run that a step follows stays complete.
LEMMA CompleteKept ==
  ASSUME ReleaseInv, ReleaseInv', Forward, MainHead <= MainHead',
         \A q \in 1..MainHead : trees'[q] = trees[q],
         NEW i \in DOMAIN runs, Follows(i), Complete(runs[i])
  PROVE  Complete(runs[i])'
<1> DEFINE r == runs[i]
           q == runs'[i]
<1>1. r.rev \in 1..MainHead /\ r.rev \in Nat /\ site \in Nat /\ site' \in Nat /\ site <= site'
  <2>1. /\ MainHead \in Nat /\ MainHead' \in Nat /\ site \in 1..MainHead
        /\ site' \in 1..MainHead' /\ site <= site'
    BY DEF ReleaseInv, Typed, Forward
  <2>2. r.rev \in 1..MainHead
    BY DEF ReleaseInv, Ended
  <2> QED BY <2>1, <2>2
<1>2. q.event = r.event /\ q.rev = r.rev
  BY DEF Follows
<1>a. PICK rev \in 1..MainHead : rev = r.rev
  BY <1>1
<1>3. NothingNew(rev) => NothingNew(rev)'
  BY <1>1, NothingNewKept
<1>4. ASSUME q.event = "push", ~q.checks.deploy, Reached(q) = "selected" \/ q.result = "success"
      PROVE  NothingNew(r.rev)
  <2>1. Reached(q) = "selected" \/ q.result = "success"
    BY <1>4
  <2>2. CASE q = r
    BY <1>4, <2>2 DEF Complete
  <2>3. CASE q.result # "success" /\ Reached(q) = "selected" /\ NothingNew(q.rev)
    BY <1>2, <2>3
  <2>4. CASE q.checks = r.checks /\ Reached(r) = "selected"
    BY <1>2, <1>4, <2>4 DEF Complete
  <2> QED BY <1>2, <1>4, <2>2, <2>3, <2>4 DEF Follows
<1>5. ASSUME q.checks.deploy, q.result = "success" PROVE q.rev <= site'
  <2>1. q = r \/ q.rev <= site'
    BY <1>5 DEF Follows
  <2>2. q = r => r.rev <= site
    BY <1>5 DEF Complete
  <2> QED BY <1>1, <2>1, <2>2
<1>6. NothingNew(rev)' => NothingNew(runs[i].rev)'
  BY <1>a, <1>2 DEF NothingNew, WasLive, AsBefore
<1>7. NothingNew(r.rev) => NothingNew(rev)
  BY <1>a DEF NothingNew, WasLive, AsBefore
<1> QED BY <1>2, <1>3, <1>4, <1>5, <1>6, <1>7 DEF Complete, Reached

\* A step of the runs keeps everything complete.
LEMMA SoundCompletes ==
  ASSUME CompleteInv, Sound, trees' = trees, DOMAIN runs' = DOMAIN runs PROVE CompleteInv'
<1>1. MainHead' = MainHead /\ MainHead \in Nat
  BY DEF CompleteInv, ReleaseInv, Typed, MainHead
<1>2. \A i \in DOMAIN runs' : Complete(runs[i])'
  BY <1>1, CompleteKept DEF CompleteInv, Sound
<1> QED BY <1>2 DEF CompleteInv, Sound

\* A new run has published nothing yet, and the others stay complete.
LEMMA BeginsComplete ==
  ASSUME CompleteInv, ReleaseInv', NEW r, r.stage = "triggered", r.result = "none",
         MainHead <= MainHead', \A q \in 1..MainHead : trees'[q] = trees[q],
         UNCHANGED liveVars,
         DOMAIN runs' = DOMAIN runs \cup {Len(runs) + 1}, runs'[Len(runs) + 1] = r,
         \A i \in DOMAIN runs : runs'[i] = runs[i]
  PROVE  CompleteInv'
<1>1. ASSUME NEW i \in DOMAIN runs PROVE Complete(runs[i])'
  <2>1. Follows(i)
    BY DEF Follows
  <2>2. Forward /\ ReleaseInv /\ Complete(runs[i])
    BY LiveKept DEF CompleteInv
  <2> QED BY <2>1, <2>2, CompleteKept
<1>2. ASSUME NEW i \in DOMAIN runs', i \notin DOMAIN runs PROVE Complete(runs[i])'
  <2>1. runs'[i].stage = "triggered" /\ runs'[i].result = "none"
    BY <1>2
  <2> QED BY <2>1 DEF Complete, Reached
<1> QED BY <1>1, <1>2 DEF CompleteInv

\* No run exists at the start.
LEMMA CompleteInit == Init => CompleteInv
<1>1. Init => DOMAIN runs = {}
  BY DEF Init
<1> QED BY <1>1, ReleaseInit DEF CompleteInv

\* Every step keeps the complete invariant.
LEMMA CompleteStep == ASSUME CompleteInv, [Next]_vars PROVE CompleteInv'
<1>0. ReleaseInv /\ ReleaseInv'
  BY ReleaseStep DEF CompleteInv
<1>1. ASSUME NEW paths \in PushSets, Push(paths) PROVE CompleteInv'
  <2> DEFINE r == NewRun("push", "validate", MainHead + 1)
  <2>1. /\ r \in Runs /\ runs' = Append(runs, r) /\ trees' \in Seq(Trees) /\ MainHead' = MainHead + 1
        /\ \A rev \in 1..MainHead : trees'[rev] = trees[rev]
        /\ UNCHANGED <<deployments, group, liveVars, qualified>> /\ MainHead \in Nat
    BY <1>0, <1>1, PushRuns DEF ReleaseInv, Typed
  <2>2. r.stage = "triggered" /\ r.result = "none" /\ r.rev = MainHead + 1
    BY DEF NewRun
  <2> HIDE DEF r
  <2>3. MainHead <= MainHead' /\ r.rev \in 1..MainHead'
    BY <2>1, <2>2
  <2>4. /\ DOMAIN runs' = DOMAIN runs \cup {Len(runs) + 1}
        /\ \A i \in DOMAIN runs : runs'[i] = runs[i]
        /\ runs'[Len(runs) + 1] = r
    BY <1>0, <2>1, <2>2, <2>3, Begins
  <2> QED BY <1>0, <2>1, <2>2, <2>3, <2>4, BeginsComplete
<1>2. ASSUME NEW mode \in {"validate", "redeploy"}, Dispatch(mode) PROVE CompleteInv'
  <2> DEFINE r == NewRun("workflow_dispatch", mode, MainHead)
  <2>1. /\ r \in Runs /\ runs' = Append(runs, r)
        /\ r.stage = "triggered" /\ r.result = "none" /\ r.rev = MainHead
        /\ UNCHANGED <<trees, deployments, group, liveVars, qualified>>
        /\ trees' \in Seq(Trees) /\ MainHead' = MainHead /\ MainHead \in Nat \ {0}
    BY <1>0, <1>2, DispatchRuns
  <2> HIDE DEF r
  <2>3. MainHead <= MainHead' /\ r.rev \in 1..MainHead' /\ \A rev \in 1..MainHead : trees'[rev] = trees[rev]
    BY <2>1
  <2>4. /\ DOMAIN runs' = DOMAIN runs \cup {Len(runs) + 1}
        /\ \A i \in DOMAIN runs : runs'[i] = runs[i]
        /\ runs'[Len(runs) + 1] = r
    BY <1>0, <2>1, <2>3, Begins
  <2> QED BY <1>0, <2>1, <2>3, <2>4, BeginsComplete
<1>3. ASSUME NEW i \in DOMAIN runs, Advance(i) \/ Rerun(i) PROVE CompleteInv'
  <2>1. Sound
    BY <1>0, <1>3, SelectStep, DetectionFailsStep, GateStep, EnqueueStep, VerifyStep, CheckHeadStep,
       UploadSiteStep, UploadRedirectStep, ProbeStep, VerifyLiveStep, RerunStep DEF Advance
  <2>2. trees' = trees
    BY <1>3 DEF Advance, Select, DetectionFails, Gate, Enqueue, Verify, CheckHead, UploadSite,
                UploadRedirect, Probe, VerifyLive, Rerun
  <2>3. DOMAIN runs' = DOMAIN runs
    <3>1. ASSUME Fail(i) PROVE DOMAIN runs' = DOMAIN runs
      BY <3>1 DEF Fail, End
    <3>2. CASE Advance(i)
      BY <1>3, <3>1, <3>2 DEF Advance, Select, DetectionFails, Gate, Enqueue, Verify, CheckHead, UploadSite,
              UploadRedirect, Probe, VerifyLive, Move, End
    <3> QED BY <1>3, <3>2 DEF Rerun
  <2> QED BY <2>1, <2>2, <2>3, SoundCompletes
<1>4. CASE Propagate
  BY <1>0, <1>4, PropagateStep, SoundCompletes DEF Propagate
<1>5. CASE UNCHANGED vars
  BY <1>0, <1>5, NothingFollows, SoundCompletes DEF vars, liveVars
<1> QED BY <1>1, <1>2, <1>3, <1>4, <1>5 DEF Next

\* A revision newer than what is live, whose run is green, changes nothing of the site.
LEMMA GreenIsAsBefore ==
  ASSUME CompleteInv, NEW rev \in site + 1..MainHead, Green(rev)
  PROVE  NothingNew(rev)
<1>1. PICK i \in DOMAIN runs :
        runs[i].event = "push" /\ runs[i].rev = rev /\ runs[i].result = "success"
  BY DEF Green
<1>2. Complete(runs[i]) /\ runs[i] \in Runs
  BY RunTyped DEF CompleteInv, ReleaseInv
<1>3. site \in Nat /\ MainHead \in Nat
  BY DEF CompleteInv, ReleaseInv, Typed
<1>4. ~(rev <= site)
  BY <1>3
<1>5. ~runs[i].checks.deploy
  BY <1>1, <1>2, <1>4 DEF Complete
<1> QED BY <1>1, <1>2, <1>5 DEF Complete

\* Main's head, when its run is green, has the content of what is live: it is live, or it has
\* the content of a revision that was, and either main has not left that content since, or no
\* revision since the live one has changed it.
LEMMA CompleteIsLive == CompleteInv => GreenMainIsLive
<1> SUFFICES ASSUME CompleteInv, Green(MainHead),
                    WentBack => \A rev \in site + 1..MainHead : Green(rev)
             PROVE  SiteContent(site) = SiteContent(MainHead)
  BY DEF GreenMainIsLive
<1>1. MainHead \in Nat \ {0} /\ site \in 1..MainHead
  BY DEF CompleteInv, ReleaseInv, Typed
<1>2. CASE site = MainHead
  BY <1>2
<1>3. CASE site # MainHead /\ ~WentBack
  <2>1. MainHead \in site + 1..MainHead
    BY <1>1, <1>3
  <2>2. PICK b \in 1..site : \A a \in Areas \ {"maintainer"} : trees[b][a] = trees[MainHead][a]
    BY <2>1, GreenIsAsBefore DEF NothingNew, WasLive
  <2>3. SiteContent(b) = SiteContent(MainHead)
    BY <2>2 DEF SiteContent
  <2>4. CASE b < site
    <3>1. b \in 1..MainHead
      BY <1>1
    <3> QED BY <1>1, <1>3, <2>3, <2>4, <3>1 DEF WentBack
  <2>5. b < site \/ b = site
    BY <1>1
  <2> QED BY <2>3, <2>4, <2>5
<1>4. CASE site # MainHead /\ \A rev \in site + 1..MainHead : Green(rev)
  <2> DEFINE Alike == {rev \in site..MainHead : SiteContent(rev) = SiteContent(site)}
  <2>1. site \in Alike /\ Alike \in SUBSET (0..MainHead)
    BY <1>1
  <2> HIDE DEF Alike
  <2>2. PICK m \in Alike : \A k \in Alike : m >= k
    BY <1>1, <2>1, GreatestExists
  <2>3. m \in site..MainHead /\ SiteContent(m) = SiteContent(site)
    BY DEF Alike
  <2>4. ASSUME m # MainHead PROVE FALSE
    <3> DEFINE rev == m + 1
    <3>1. rev \in site + 1..MainHead /\ rev \in site..MainHead /\ rev > 1 /\ rev - 1 = m /\ ~(m >= rev)
      BY <1>1, <2>3, <2>4
    <3> HIDE DEF rev
    <3>2. NothingNew(rev)
      BY <1>4, <3>1, GreenIsAsBefore
    <3>3. \A a \in Areas \ {"maintainer"} : trees[m][a] = trees[rev][a]
      BY <3>1, <3>2 DEF NothingNew, AsBefore
    <3>4. SiteContent(rev) = SiteContent(site)
      BY <2>3, <3>3 DEF SiteContent
    <3>5. rev \in Alike
      BY <3>1, <3>4 DEF Alike
    <3> QED BY <2>2, <3>1, <3>5
  <2> QED BY <2>3, <2>4
<1> QED BY <1>2, <1>3, <1>4

\* When nothing runs and the run of main's head is green, visitors see its content; also after a
\* push that restores an earlier content, unless a run since the live revision has failed.
THEOREM ReleaseIsComplete == Spec => []GreenMainIsLive
<1>1. CompleteInv /\ [Next]_vars => CompleteInv'
  BY CompleteStep
<1> QED BY <1>1, CompleteInit, CompleteIsLive, PTL DEF Spec
=============================================================================
