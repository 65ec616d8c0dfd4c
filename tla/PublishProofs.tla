--------------------------- MODULE PublishProofs ---------------------------
(***************************************************************************)
(* The properties of MCPublish.  Of the swap of the staged directory, for  *)
(* every set of processes and of versions: its invariant, and that it      *)
(* implements the atomic publication.  Of the content snapshot: what is    *)
(* labelled and recorded was verified, and production is committed.  Of    *)
(* the release, the theorems of ReleaseProofs for its three settings.      *)
(* Of the generator: what it accepts is approved, and links are served.    *)
(***************************************************************************)
EXTENDS MCPublish, TLAPS, SequenceTheorems, FiniteSetTheorems

(* The swap of the staged directory *)

USE PublishAssumption

\* No process runs, no directory exists: the invariant holds at the start.
LEMMA SwapInit == Init => SwapInv
BY DEF Init, SwapInv, TypeOK, Recoverable, Standing, Directories, Steps

\* Only one process is in the critical section.
LEMMA Alone ==
  ASSUME SwapInv, NEW p \in Publishers, pc[p] # "idle" \/ lock = "free"
  PROVE  \A q \in Publishers \ {p} : pc[q] = "idle"
BY DEF SwapInv, Standing

\* A step of the one process keeps the invariant if it keeps that process's part.
LEMMA OneMoves ==
  ASSUME SwapInv, NEW p \in Publishers, pc[p] # "idle" \/ lock = "free",
         TypeOK', Recoverable', Standing(p)',
         \A q \in Publishers \ {p} : pc'[q] = pc[q]
  PROVE  SwapInv'
<1>1. \A q \in Publishers \ {p} : pc'[q] = "idle"
      BY Alone
<1>2. \A q \in Publishers \ {p} : Standing(q)'
      BY <1>1 DEF Standing
<1> QED
    BY <1>2 DEF SwapInv

\* Every step of every process preserves the invariant: the process that steps
\* holds the lock, or the lock was free, so that all the others are idle.
LEMMA SwapStep == SwapInv /\ [Next]_vars => SwapInv'
<1> SUFFICES ASSUME SwapInv, [Next]_vars PROVE SwapInv'
    OBVIOUS
<1>1. CASE UNCHANGED vars
      BY <1>1 DEF vars, SwapInv, TypeOK, Recoverable, Standing
<1>2. ASSUME NEW p \in Publishers, Acquire(p) PROVE SwapInv'
  <2>1. /\ pc[p] # "idle" \/ lock = "free"
        /\ \A q \in Publishers \ {p} : pc'[q] = pc[q]
        BY <1>2 DEF Acquire, Goto, SwapInv, TypeOK
  <2>2. TypeOK'
        BY <1>2 DEF Acquire, Goto, SwapInv, TypeOK, Standing, Directories, Steps
  <2>3. Recoverable' /\ Standing(p)'
        BY <1>2 DEF Acquire, Goto, SwapInv, TypeOK, Recoverable, Standing, Directories
  <2> QED
      BY <2>1, <2>2, <2>3, OneMoves
<1>3. ASSUME NEW p \in Publishers, Recover(p) PROVE SwapInv'
  <2>1. /\ pc[p] # "idle" \/ lock = "free"
        /\ \A q \in Publishers \ {p} : pc'[q] = pc[q]
        BY <1>3 DEF Recover, Goto, SwapInv, TypeOK
  <2>2. TypeOK'
        BY <1>3 DEF Recover, Goto, SwapInv, TypeOK, Standing, Directories, Steps
  <2>3. CASE backup # Absent /\ target = Absent
    <3>1. /\ target' = backup /\ backup' = Absent /\ pc'[p] = "clean" /\ lock' = p
          /\ backup # Partial
          BY <1>3, <2>3 DEF Recover, Goto, SwapInv, TypeOK, Recoverable, Standing
    <3> QED
        BY <2>1, <2>2, <2>3, <3>1, OneMoves DEF Recoverable, Standing
  <2>4. CASE ~(backup # Absent /\ target = Absent)
    <3>1. /\ target' = target /\ target # Partial
          /\ backup' = IF target = Absent THEN Absent ELSE backup'
          /\ lock' = p
          /\ pc'[p] = IF backup' = Absent THEN "clean" ELSE "finally"
          BY <1>3, <2>4 DEF Recover, Goto, SwapInv, TypeOK, Recoverable, Standing
    <3> QED
        BY <2>1, <2>2, <3>1, OneMoves DEF Recoverable, Standing
  <2> QED
      BY <2>3, <2>4
<1>4. ASSUME NEW p \in Publishers, Clean(p) PROVE SwapInv'
  <2>1. /\ pc[p] # "idle" \/ lock = "free"
        /\ \A q \in Publishers \ {p} : pc'[q] = pc[q]
        BY <1>4 DEF Clean, Goto, SwapInv, TypeOK
  <2>2. TypeOK'
        BY <1>4 DEF Clean, Goto, SwapInv, TypeOK, Standing, Directories, Steps
  <2>3. Recoverable' /\ Standing(p)'
        BY <1>4 DEF Clean, Goto, SwapInv, TypeOK, Recoverable, Standing, Directories
  <2> QED
      BY <2>1, <2>2, <2>3, OneMoves
<1>5. ASSUME NEW p \in Publishers, MakeStage(p) PROVE SwapInv'
  <2>1. /\ pc[p] # "idle" \/ lock = "free"
        /\ \A q \in Publishers \ {p} : pc'[q] = pc[q]
        BY <1>5 DEF MakeStage, Goto, SwapInv, TypeOK
  <2>2. TypeOK'
        BY <1>5 DEF MakeStage, Goto, SwapInv, TypeOK, Standing, Directories, Steps
  <2>3. Recoverable' /\ Standing(p)'
        BY <1>5 DEF MakeStage, Goto, SwapInv, TypeOK, Recoverable, Standing, Directories
  <2> QED
      BY <2>1, <2>2, <2>3, OneMoves
<1>6. ASSUME NEW p \in Publishers, Prepare(p) PROVE SwapInv'
  <2>1. /\ pc[p] # "idle" \/ lock = "free"
        /\ \A q \in Publishers \ {p} : pc'[q] = pc[q]
        BY <1>6 DEF Prepare, Goto, SwapInv, TypeOK
  <2>2. TypeOK'
        BY <1>6 DEF Prepare, Goto, SwapInv, TypeOK, Standing, Directories, Steps
  <2>3. Recoverable' /\ Standing(p)'
        BY <1>6 DEF Prepare, Goto, SwapInv, TypeOK, Recoverable, Standing, Directories
  <2> QED
      BY <2>1, <2>2, <2>3, OneMoves
<1>7. ASSUME NEW p \in Publishers, BackUp(p) PROVE SwapInv'
  <2>1. /\ pc[p] # "idle" \/ lock = "free"
        /\ \A q \in Publishers \ {p} : pc'[q] = pc[q]
        BY <1>7 DEF BackUp, Goto, SwapInv, TypeOK
  <2>2. TypeOK'
        BY <1>7 DEF BackUp, Goto, SwapInv, TypeOK, Standing, Directories, Steps
  <2>3. Recoverable' /\ Standing(p)'
        BY <1>7 DEF BackUp, Goto, SwapInv, TypeOK, Recoverable, Standing, Directories
  <2> QED
      BY <2>1, <2>2, <2>3, OneMoves
<1>8. ASSUME NEW p \in Publishers, Promote(p) PROVE SwapInv'
  <2>1. /\ pc[p] # "idle" \/ lock = "free"
        /\ \A q \in Publishers \ {p} : pc'[q] = pc[q]
        BY <1>8 DEF Promote, Goto, SwapInv, TypeOK
  <2>2. TypeOK'
        BY <1>8 DEF Promote, Goto, SwapInv, TypeOK, Standing, Directories, Steps
  <2>3. Recoverable' /\ Standing(p)'
        BY <1>8 DEF Promote, Goto, SwapInv, TypeOK, Recoverable, Standing, Directories
  <2> QED
      BY <2>1, <2>2, <2>3, OneMoves
<1>9. ASSUME NEW p \in Publishers, Restore(p) PROVE SwapInv'
  <2>1. /\ pc[p] # "idle" \/ lock = "free"
        /\ \A q \in Publishers \ {p} : pc'[q] = pc[q]
        BY <1>9 DEF Restore, Goto, SwapInv, TypeOK
  <2>2. TypeOK'
        BY <1>9 DEF Restore, Goto, SwapInv, TypeOK, Standing, Directories, Steps
  <2>3. target = Absent /\ backup # Partial /\ lock = p
        BY <1>9 DEF Restore, SwapInv, Recoverable, Standing
  <2>4. Recoverable' /\ Standing(p)'
    <3>1. /\ target' = backup \/ backup' = Absent
          /\ target' # Partial /\ backup' # Partial
          BY <1>9, <2>3, Absent # Partial DEF Restore
    <3>2. pc'[p] = "finally" /\ lock' = p
          BY <1>9, <2>3 DEF Restore, Goto, SwapInv, TypeOK
    <3> QED
        BY <3>1, <3>2 DEF Recoverable, Standing
  <2> QED
      BY <2>1, <2>2, <2>4, OneMoves
<1>10. ASSUME NEW p \in Publishers, Remove(p) PROVE SwapInv'
  <2>1. /\ pc[p] # "idle" \/ lock = "free"
        /\ \A q \in Publishers \ {p} : pc'[q] = pc[q]
        BY <1>10 DEF Remove, Goto, SwapInv, TypeOK
  <2>2. TypeOK'
        BY <1>10 DEF Remove, Goto, SwapInv, TypeOK, Standing, Directories, Steps
  <2>3. Recoverable' /\ Standing(p)'
        BY <1>10 DEF Remove, Goto, SwapInv, TypeOK, Recoverable, Standing, Directories
  <2> QED
      BY <2>1, <2>2, <2>3, OneMoves
<1>11. ASSUME NEW p \in Publishers, Finally(p) PROVE SwapInv'
  <2>1. /\ pc[p] # "idle" \/ lock = "free"
        /\ \A q \in Publishers \ {p} : pc'[q] = pc[q]
        BY <1>11 DEF Finally, Goto, SwapInv, TypeOK
  <2>2. TypeOK'
        BY <1>11 DEF Finally, Goto, SwapInv, TypeOK, Standing, Directories, Steps
  <2>3. Recoverable' /\ Standing(p)'
        BY <1>11 DEF Finally, Goto, SwapInv, TypeOK, Recoverable, Standing, Directories
  <2> QED
      BY <2>1, <2>2, <2>3, OneMoves
<1>12. ASSUME NEW p \in Publishers, Fail(p) PROVE SwapInv'
  <2>1. /\ pc[p] # "idle" \/ lock = "free"
        /\ \A q \in Publishers \ {p} : pc'[q] = pc[q]
        BY <1>12 DEF Fail, Goto, SwapInv, TypeOK
  <2>2. TypeOK'
        BY <1>12 DEF Fail, Goto, SwapInv, TypeOK, Standing, Directories, Steps
  <2>3. Recoverable' /\ Standing(p)'
        BY <1>12 DEF Fail, Goto, SwapInv, TypeOK, Recoverable, Standing, Directories
  <2> QED
      BY <2>1, <2>2, <2>3, OneMoves
<1>13. ASSUME NEW p \in Publishers, Kill(p) PROVE SwapInv'
  <2>1. /\ pc[p] # "idle" \/ lock = "free"
        /\ \A q \in Publishers \ {p} : pc'[q] = pc[q]
        BY <1>13 DEF Kill, Goto, SwapInv, TypeOK
  <2>2. TypeOK'
        BY <1>13 DEF Kill, Goto, SwapInv, TypeOK, Standing, Directories, Steps
  <2>3. Recoverable' /\ Standing(p)'
        BY <1>13 DEF Kill, Goto, SwapInv, TypeOK, Recoverable, Standing, Directories
  <2> QED
      BY <2>1, <2>2, <2>3, OneMoves
<1> QED
    BY <1>1, <1>2, <1>3, <1>4, <1>5, <1>6, <1>7, <1>8, <1>9, <1>10, <1>11, <1>12, <1>13 DEF Next

\* Where the process in the swap stands tells what the directories hold.
THEOREM SwapInvariant == Spec => []SwapInv
<1>1. Init => SwapInv
      BY SwapInit
<1>2. SwapInv /\ [Next]_vars => SwapInv'
      BY SwapStep
<1> QED
    BY <1>1, <1>2, PTL DEF Spec

\* The snapshot Astro reads is complete, or its complete backup is there, after
\* any failures and kills of any number of processes.
THEOREM AlwaysRecoverable == Spec => []Recoverable
<1>1. SwapInv => Recoverable
      BY DEF SwapInv
<1> QED
    BY SwapInvariant, <1>1, PTL

\* A step of a process publishes its complete version, or changes nothing that
\* a later run would not undo.
LEMMA StepPublishes ==
  ASSUME SwapInv, [Next]_vars
  PROVE  [Atomically!Publish]_Shown
<1> USE DEF SwapInv, TypeOK, Recoverable, Standing, Directories, Shown
<1>1. CASE UNCHANGED vars
      BY <1>1 DEF vars
<1>2. ASSUME NEW p \in Publishers,
             Acquire(p) \/ Clean(p) \/ MakeStage(p) \/ Prepare(p) \/ Finally(p) \/ Fail(p)
      PROVE  UNCHANGED Shown
      BY <1>2 DEF Acquire, Clean, MakeStage, Prepare, Finally, Fail
<1>3. ASSUME NEW p \in Publishers, Recover(p) PROVE UNCHANGED Shown
      BY <1>3 DEF Recover
<1>4. ASSUME NEW p \in Publishers, BackUp(p) PROVE UNCHANGED Shown
      BY <1>4 DEF BackUp
<1>5. ASSUME NEW p \in Publishers, Promote(p) PROVE Atomically!Publish
  <2>1. stage[p] \in Versions /\ target' = stage[p]
        BY <1>5 DEF Promote
  <2>2. Shown' = stage[p]
        BY <2>1
  <2> QED
      BY <2>1, <2>2 DEF Atomically!Publish
<1>6. ASSUME NEW p \in Publishers, Restore(p) PROVE UNCHANGED Shown
      BY <1>6 DEF Restore
<1>7. ASSUME NEW p \in Publishers, Remove(p) \/ Kill(p) PROVE UNCHANGED Shown
      BY <1>7 DEF Remove, Kill
<1> QED
    BY <1>1, <1>2, <1>3, <1>4, <1>5, <1>6, <1>7 DEF Next

\* publishSnapshot implements the atomic publication, for every number of
\* processes and of versions.
THEOREM ImplementsSnapshot == Spec => PublishesAtomically
<1>1. Init => Atomically!Init
      BY DEF Init, Atomically!Init, Shown
<1>2. SwapInv /\ [Next]_vars => [Atomically!Publish]_Shown
      BY StepPublishes
<1> QED
    BY <1>1, <1>2, SwapInvariant, PTL DEF Spec, PublishesAtomically, Atomically!Spec

(* The generation of the content *)

\* What the files hold.
Values == Bytes \cup {CHOOSE v \in Bytes : TRUE}
Runs == [sample : Values, runtime : Values]
Recordings ==
  {r \in [run : Runs, sample : Values, transcript : Runs, revision : Nat, runtime : Values,
          steady : BOOLEAN] :
     /\ r.transcript = r.run
     /\ r.steady => r.run = Sources!Run(r.sample, r.runtime)}
Tree(tree) ==
  /\ \A f \in Sources!Files \ Sources!Recorded : tree[f] \in Values
  /\ tree["transcript"] \in Runs
  /\ tree["recording"] \in Recordings
ContentTrees == {tree \in [Sources!Files -> Values \cup Runs \cup Recordings] : Tree(tree)}

\* A recording that names a revision there is.
Dated(r) == r \in Recordings /\ r.revision \in 1..Sources!HEAD

CaptureFields == {"step", "run", "sample", "transcript", "revision", "steady"}

GenFields == {"step", "production", "revision", "records", "bytes", "labels", "match",
              "runtimeChanged", "edited"}

\* The steps after the recording was compared with the sample.
Compared == {"recheck lesson", "recheck its sample", "label lesson", "image", "readme", "publish"}
Labelled == {"image", "readme", "publish"}
GenSteps == {"idle", "pin", "guide", "lesson", "sample", "transcript", "recheck", "label",
             "recording", "recorded"}
              \cup Compared

\* The steps at which a file has been read.
ReadBy == [guide |-> GenSteps \ {"idle", "pin", "guide"},
           lesson |-> GenSteps \ {"idle", "pin", "guide", "lesson"},
           sample |-> GenSteps \ {"idle", "pin", "guide", "lesson", "sample"},
           transcript |-> GenSteps \ {"idle", "pin", "guide", "lesson", "sample", "transcript"},
           recording |-> {"recorded"} \cup Compared,
           readme |-> {"publish"}]

\* A record of a verification that took place, or none.
Taken(s, record) ==
  \/ record.base = 0
  \/ \E covered \in Sources!Coverings(s) :
       /\ record \in tested
       /\ record.base \in 1..Sources!HEAD
       /\ record = [base |-> record.base, hashes |-> Sources!Restrict(record.hashes, covered)]
       /\ s = "guide" => record.hashes["guide"] = commits[record.base]["guide"]

\* A verification of the subject with these bytes took place at the revision.
Earned(bytes, s, revision) ==
  /\ Sources!Required[s] \subseteq DOMAIN bytes
  /\ [base |-> revision, hashes |-> Sources!Restrict(bytes, Sources!Required[s])] \in tested

\* What the record names is what was staged.
Matches(s, f) == f \in DOMAIN gen.records[s].hashes => gen.records[s].hashes[f] = gen.bytes[f]

\* Nothing that the subject's label reads again was edited.
Untouched(s) == Sources!Required[s] \cap gen.edited \subseteq {"guide"}

GenTyped ==
  /\ files \in ContentTrees /\ commits \in Seq(ContentTrees) /\ Sources!HEAD \in Nat \ {0}
  /\ Dated(files["recording"])
  /\ DOMAIN records = DOMAIN Sources!Required
  /\ DOMAIN gen = GenFields /\ gen.step \in GenSteps
  /\ {gen.production, gen.match} \subseteq BOOLEAN

\* What the recording script knows so far.
CaptureInv ==
  /\ DOMAIN capture = CaptureFields /\ capture.steady \in BOOLEAN
  /\ capture.step \in {"none", "copy", "run", "hash", "revision", "write"}
  /\ capture.step # "none" =>
       /\ capture.run.runtime \in Values
       /\ capture.steady => capture.run.runtime = files["runtime"]
  /\ capture.step \notin {"none", "copy"} =>
       /\ capture.run \in Runs
       /\ capture.steady => capture.run.sample = files["sample"]
  /\ capture.step = "hash" => files["transcript"] = capture.run
  /\ capture.step \in {"revision", "write"} =>
       /\ capture.sample \in Values /\ capture.transcript = capture.run
       /\ capture.steady => capture.run.sample = capture.sample
  /\ capture.step = "write" => capture.revision \in 1..Sources!HEAD

\* The recording belongs to what was staged with it.
Belongs(bytes) ==
  /\ \A f \in {"sample", "transcript"} : bytes["recording"][f] = bytes[f]
  /\ commits[bytes["recording"].revision]["runtime"] = bytes["recording"].runtime

\* What the generation has read.
ReadInv ==
  /\ gen.step \notin {"idle", "pin"} => gen.revision \in 1..Sources!HEAD
  /\ gen.step \in {"idle", "pin"} => DOMAIN gen.bytes = {} /\ DOMAIN gen.labels = {}
  /\ \A f \in Sources!Checked : gen.step \in ReadBy[f] => f \in DOMAIN gen.bytes
  /\ gen.production => \A f \in DOMAIN gen.bytes \cap Sources!Checked :
                         gen.bytes[f] = commits[gen.revision][f]
  /\ gen.step \in ReadBy["recording"] => Dated(gen.bytes["recording"])
  /\ gen.step \in Compared => Belongs(gen.bytes)

\* What it says of what nobody has edited since it was read.
LabelInv ==
  /\ \A s \in DOMAIN Sources!Required : Taken(s, records[s])
  /\ gen.step # "idle" => \A s \in DOMAIN Sources!Required : Taken(s, gen.records[s])
  /\ DOMAIN gen.labels \subseteq DOMAIN Sources!Required
  /\ gen.step \in {"guide", "lesson", "sample"} => "sample" \notin DOMAIN gen.labels
  /\ \A f \in DOMAIN gen.bytes \ gen.edited : gen.bytes[f] = files[f]
  /\ gen.match =>
       /\ gen.step = "label" /\ "sample" \notin gen.edited => Matches("sample", "sample")
       /\ gen.step \in {"recheck its sample", "label lesson"} /\ "lesson" \notin gen.edited
             => Matches("lesson", "lesson")
       /\ gen.step = "label lesson" /\ "sample" \notin gen.edited => Matches("lesson", "sample")
  /\ \A s \in DOMAIN gen.labels :
       gen.labels[s] /\ Untouched(s) /\ (s = "lesson" => gen.step \in Labelled)
         => Earned(gen.bytes, s, gen.revision)

\* What was published.
SnapshotInv ==
  /\ snapshot.production => snapshot.revision \in 1..Sources!HEAD
  /\ snapshot # Sources!Idle => Dated(snapshot.bytes["recording"])
  /\ Sources!ProductionIsCommitted /\ Sources!LabelsAreEarned /\ Sources!RecordingIsOfSample

ContentInv == GenTyped /\ CaptureInv /\ ReadInv /\ LabelInv /\ SnapshotInv

\* What a tree holds.
LEMMA TreeHas ==
  ASSUME NEW tree \in ContentTrees
  PROVE  /\ DOMAIN tree = Sources!Files
         /\ tree["sample"] \in Values /\ tree["runtime"] \in Values
         /\ tree["transcript"] \in Runs /\ tree["recording"] \in Recordings
BY DEF ContentTrees, Tree, Sources!Files, Sources!Checked, Sources!Pages, Sources!Recorded

\* A file with a value of its kind makes another tree.
LEMMA TreeWith ==
  ASSUME NEW tree \in ContentTrees, NEW f \in Sources!Files, NEW v,
         f = "transcript" => v \in Runs,
         f = "recording" => v \in Recordings,
         f \notin Sources!Recorded => v \in Values
  PROVE  [tree EXCEPT ![f] = v] \in ContentTrees
<1> DEFINE new == [tree EXCEPT ![f] = v]
<1>1. /\ tree \in [Sources!Files -> Values \cup Runs \cup Recordings] /\ Tree(tree)
      /\ {"transcript", "recording"} \subseteq Sources!Files
  BY DEF ContentTrees, Sources!Files, Sources!Checked
<1>2. v \in Values \cup Runs \cup Recordings
  BY DEF Sources!Recorded
<1>3. new \in [Sources!Files -> Values \cup Runs \cup Recordings]
  BY <1>1, <1>2
<1>4. \A g \in Sources!Files : new[g] = IF g = f THEN v ELSE tree[g]
  BY <1>1
<1> HIDE DEF new
<1>5. Tree(new)
  BY <1>1, <1>4 DEF Tree, Sources!Recorded
<1> QED BY <1>3, <1>5 DEF ContentTrees, new

\* One commit, no record, nothing read and nothing published.
LEMMA ContentInit == Sources!Init => ContentInv
<1> SUFFICES ASSUME Sources!Init PROVE ContentInv
  OBVIOUS
<1> DEFINE v == CHOOSE v \in Bytes : TRUE
           run == Sources!Run(v, v)
           r == [run |-> run, sample |-> v, transcript |-> run, revision |-> 1, runtime |-> v,
                 steady |-> TRUE]
<1>1. files = [f \in Sources!Files |-> CASE f = "transcript" -> run
                                        [] f = "recording" -> r
                                        [] OTHER -> v]
  BY DEF Sources!Init, Sources!Recording, Sources!NoCapture
<1>0. v \in Values
  BY DEF Values
<1> HIDE DEF v
<1>2. commits = <<files>>
  BY DEF Sources!Init
<1>3. run \in Runs /\ r \in Recordings /\ r.revision = 1
  BY <1>0 DEF Runs, Recordings, Sources!Run
<1> HIDE DEF r, run
<1>4. files \in ContentTrees /\ files["recording"] = r
  <2>1. files = [f \in Sources!Files |-> IF f = "transcript" THEN run ELSE IF f = "recording" THEN r ELSE v]
    BY <1>1
  <2>2. \A f \in Sources!Files : (IF f = "transcript" THEN run ELSE IF f = "recording" THEN r ELSE v)
                                  \in Values \cup Runs \cup Recordings
    BY <1>0, <1>3
  <2>3. files \in [Sources!Files -> Values \cup Runs \cup Recordings]
    BY <2>1, <2>2
  <2>4. {"transcript", "recording"} \subseteq Sources!Files
    BY DEF Sources!Files, Sources!Checked
  <2>5. Tree(files) /\ files["recording"] = r
    BY <1>0, <1>3, <2>1, <2>4 DEF Tree, Sources!Recorded
  <2> QED BY <2>3, <2>5 DEF ContentTrees
<1>5. commits \in Seq(ContentTrees) /\ Sources!HEAD = 1
  BY <1>2, <1>4 DEF Sources!HEAD
<1>6. /\ gen = Sources!Idle /\ snapshot = Sources!Idle
      /\ records = [s \in DOMAIN Sources!Required |-> Sources!NoRecord]
      /\ capture = Sources!NoCapture
  BY DEF Sources!Init
<1>7. /\ DOMAIN Sources!Idle = GenFields /\ Sources!Idle.step = "idle" /\ Sources!Idle.production = FALSE
      /\ Sources!Idle.match = TRUE /\ Sources!Idle.edited = {}
      /\ DOMAIN Sources!Idle.bytes = {} /\ DOMAIN Sources!Idle.labels = {}
  BY DEF Sources!Idle, GenFields
<1>8. GenTyped
  <2>1. gen.step \in GenSteps /\ {gen.production, gen.match} \subseteq BOOLEAN
    BY <1>6, <1>7 DEF GenSteps
  <2>2. Sources!HEAD \in Nat \ {0}
    BY <1>5
  <2>3. DOMAIN gen = GenFields
    BY <1>6, <1>7
  <2>4. DOMAIN records = DOMAIN Sources!Required
    BY <1>6
  <2>5. Dated(files["recording"])
    BY <1>3, <1>4, <1>5 DEF Dated
  <2> QED BY <1>4, <1>5, <2>1, <2>2, <2>3, <2>4, <2>5 DEF GenTyped
<1>9. ReadInv
  BY <1>6, <1>7 DEF ReadInv, ReadBy, Sources!Checked, Sources!Pages, GenSteps, Compared
<1>10. LabelInv
  BY <1>6, <1>7 DEF LabelInv, Taken, Sources!NoRecord
<1>11. SnapshotInv
  BY <1>6, <1>7 DEF SnapshotInv, Sources!ProductionIsCommitted, Sources!LabelsAreEarned,
      Sources!RecordingIsOfSample
<1>12. CaptureInv
  BY <1>6 DEF CaptureInv, CaptureFields, Sources!NoCapture
<1> QED BY <1>8, <1>9, <1>10, <1>11, <1>12 DEF ContentInv


\* Steps of the generation leave what was published.
LEMMA GenerationOnly ==
  ASSUME ContentInv, UNCHANGED <<Sources!sources, snapshot>>, ReadInv', LabelInv',
         DOMAIN gen' = GenFields, gen'.step \in GenSteps,
         {gen'.production, gen'.match} \subseteq BOOLEAN
  PROVE  ContentInv'
<1>1. UNCHANGED <<files, commits, records, tested, capture, snapshot>> /\ Sources!HEAD' = Sources!HEAD
  BY DEF Sources!sources, Sources!HEAD
<1>2. GenTyped'
  BY <1>1 DEF ContentInv, GenTyped, Dated
<1>3. SnapshotInv'
  BY <1>1 DEF ContentInv, SnapshotInv, Sources!ProductionIsCommitted, Sources!LabelsAreEarned,
      Sources!RecordingIsOfSample, Dated
<1>4. CaptureInv'
  BY <1>1 DEF ContentInv, CaptureInv
<1> QED BY <1>2, <1>3, <1>4 DEF ContentInv

\* A generation takes the records it starts with, and has read nothing yet.
LEMMA StartKeeps == ASSUME ContentInv, Sources!Start PROVE ContentInv'
<1>1. PICK production \in BOOLEAN :
        gen' = [Sources!Idle EXCEPT !.step = "pin", !.production = production, !.records = records]
  BY DEF Sources!Start
<1>2. /\ DOMAIN gen' = GenFields /\ gen'.step = "pin" /\ gen'.production = production
      /\ gen'.records = records /\ gen'.match = TRUE /\ gen'.edited = {}
      /\ DOMAIN gen'.bytes = {} /\ DOMAIN gen'.labels = {}
  BY <1>1 DEF Sources!Idle, GenFields
<1>3. UNCHANGED <<Sources!sources, snapshot>> /\ UNCHANGED <<files, commits, records, tested, capture>> /\ Sources!HEAD' = Sources!HEAD
  BY DEF Sources!Start, Sources!sources, Sources!HEAD
<1>4. ReadInv'
  BY <1>2 DEF ReadInv, ReadBy, Sources!Checked, Sources!Pages, GenSteps, Compared
<1>5. LabelInv'
  BY <1>2, <1>3 DEF ContentInv, LabelInv, Taken
<1> QED BY <1>2, <1>3, <1>4, <1>5, GenerationOnly DEF GenSteps

\* The revision it pins is one of the commits.
LEMMA PinKeeps == ASSUME ContentInv, Sources!Pin PROVE ContentInv'
<1>1. /\ gen.step = "pin" /\ gen' = [gen EXCEPT !.step = "guide", !.revision = Sources!HEAD]
      /\ UNCHANGED <<Sources!sources, snapshot>> /\ UNCHANGED <<files, commits, records, tested, capture>> /\ Sources!HEAD' = Sources!HEAD
  BY DEF Sources!Pin, Sources!sources, Sources!HEAD
<1>2. /\ DOMAIN gen' = GenFields /\ gen'.step = "guide" /\ gen'.revision = Sources!HEAD
      /\ gen'.production = gen.production /\ gen'.records = gen.records /\ gen'.match = gen.match
      /\ gen'.edited = gen.edited /\ gen'.bytes = gen.bytes /\ gen'.labels = gen.labels
  BY <1>1 DEF ContentInv, GenTyped, GenFields
<1>3. ReadInv'
  BY <1>1, <1>2 DEF ContentInv, GenTyped, ReadInv, ReadBy, Sources!Checked, Sources!Pages,
      GenSteps, Compared
<1>4. LabelInv'
  <2>1. \A s \in DOMAIN Sources!Required : Taken(s, records[s])' /\ Taken(s, gen.records[s])'
    BY <1>1, <1>2 DEF ContentInv, LabelInv, Taken
  <2> QED BY <1>1, <1>2, <2>1 DEF ContentInv, LabelInv, ReadInv
<1>5. {gen'.production, gen'.match} \subseteq BOOLEAN
  BY <1>2 DEF ContentInv, GenTyped
<1> QED BY <1>1, <1>2, <1>3, <1>4, <1>5, GenerationOnly DEF GenSteps

\* A generation that stops has read nothing.
LEMMA AbortKeeps == ASSUME ContentInv, Sources!Abort PROVE ContentInv'
<1>1. gen' = Sources!Idle /\ UNCHANGED <<Sources!sources, snapshot>> /\ UNCHANGED <<files, commits, records, tested, capture>>
      /\ Sources!HEAD' = Sources!HEAD
  BY DEF Sources!Abort, Sources!sources, Sources!HEAD
<1>2. /\ DOMAIN gen' = GenFields /\ gen'.step = "idle" /\ gen'.production = FALSE /\ gen'.match = TRUE
      /\ gen'.edited = {} /\ DOMAIN gen'.bytes = {} /\ DOMAIN gen'.labels = {}
  BY <1>1 DEF Sources!Idle, GenFields
<1>3. ReadInv'
  BY <1>2 DEF ReadInv, ReadBy, Sources!Checked, Sources!Pages, GenSteps, Compared
<1>4. LabelInv'
  BY <1>1, <1>2 DEF ContentInv, LabelInv, Taken
<1>5. {gen'.production, gen'.match} \subseteq BOOLEAN
  BY <1>2
<1> QED BY <1>1, <1>2, <1>3, <1>4, <1>5, GenerationOnly DEF GenSteps

\* Reading a file adds its bytes, those of the pinned revision in production.
LEMMA ReadKeeps ==
  ASSUME ContentInv, UNCHANGED <<Sources!sources, snapshot>>, NEW f \in Sources!Files, NEW next \in GenSteps,
         gen.step \notin {"idle", "pin"}, next \notin {"idle", "pin"},
         gen'.step = next, gen'.bytes = Sources!With(gen.bytes, f, files[f]),
         gen'.production = gen.production, gen'.revision = gen.revision,
         gen.production /\ f \in Sources!Checked => ~Sources!SourceModified(f),
         gen'.edited = gen.edited,
         next \in Compared => gen.step \in Compared /\ f \notin {"recording", "sample", "transcript"},
         \A g \in Sources!Checked : next \in ReadBy[g] => gen.step \in ReadBy[g] \/ g = f
  PROVE  /\ ReadInv'
         /\ DOMAIN gen'.bytes = DOMAIN gen.bytes \cup {f}
         /\ gen'.bytes[f] = files[f]
         /\ \A g \in DOMAIN gen.bytes \ {f} : gen'.bytes[g] = gen.bytes[g]
         /\ \A g \in DOMAIN gen'.bytes \ gen.edited : gen'.bytes[g] = files[g]
<1> DEFINE new == gen'.bytes
<1>1. /\ DOMAIN new = DOMAIN gen.bytes \cup {f} /\ new[f] = files[f]
      /\ \A g \in DOMAIN gen.bytes \ {f} : new[g] = gen.bytes[g]
  <2>1. new = Sources!With(gen.bytes, f, files[f])
    OBVIOUS
  <2>2. /\ DOMAIN Sources!With(gen.bytes, f, files[f]) = DOMAIN gen.bytes \cup {f}
        /\ Sources!With(gen.bytes, f, files[f])[f] = files[f]
        /\ \A g \in DOMAIN gen.bytes \ {f} : Sources!With(gen.bytes, f, files[f])[g] = gen.bytes[g]
    BY DEF Sources!With
  <2> HIDE DEF new
  <2> QED BY <2>1, <2>2
<1>2. UNCHANGED <<files, commits>> /\ Sources!HEAD' = Sources!HEAD
  BY DEF Sources!sources, Sources!HEAD
<1>3. gen'.revision \in 1..Sources!HEAD'
  BY <1>2 DEF ContentInv, ReadInv
<1>4. \A g \in Sources!Checked : next \in ReadBy[g] => g \in DOMAIN new
  BY <1>1 DEF ContentInv, ReadInv
<1>5. gen.production => \A g \in DOMAIN new \cap Sources!Checked : new[g] = commits[gen.revision][g]
  BY <1>1 DEF ContentInv, ReadInv, Sources!SourceModified
<1>6. next \in Compared => Belongs(new)
  <2>1. gen.step \in Compared => \A g \in {"recording", "sample", "transcript"} : gen.step \in ReadBy[g]
    <3>1. Compared \subseteq GenSteps \ {"idle", "pin", "guide", "lesson", "sample", "transcript"}
      BY DEF Compared, GenSteps
    <3>2. /\ Compared \subseteq ReadBy["recording"] /\ Compared \subseteq ReadBy["sample"]
          /\ Compared \subseteq ReadBy["transcript"]
      BY <3>1 DEF ReadBy
    <3> QED BY <3>2
  <2>2. gen.step \in Compared => {"recording", "sample", "transcript"} \subseteq DOMAIN gen.bytes
    BY <2>1 DEF ContentInv, ReadInv, Sources!Checked, Sources!Pages
  <2>3. gen.step \in Compared => Belongs(gen.bytes)
    BY DEF ContentInv, ReadInv
  <2> HIDE DEF new
  <2> SUFFICES ASSUME next \in Compared PROVE Belongs(new)
    OBVIOUS
  <2>4. \A g \in {"recording", "sample", "transcript"} : new[g] = gen.bytes[g]
    BY <1>1, <2>2
  <2> QED BY <2>3, <2>4 DEF Belongs
<1>7. next \in ReadBy["recording"] => Dated(new["recording"])
  <2> HIDE DEF new
  <2>1. "recording" \in Sources!Checked
    BY DEF Sources!Checked
  <2>2. CASE f = "recording"
    BY <1>1, <2>2 DEF ContentInv, GenTyped
  <2>3. CASE f # "recording" /\ next \in ReadBy["recording"]
    <3>1. gen.step \in ReadBy["recording"]
      BY <2>1, <2>3
    <3>2. "recording" \in DOMAIN gen.bytes /\ Dated(gen.bytes["recording"])
      BY <2>1, <3>1 DEF ContentInv, ReadInv
    <3> QED BY <1>1, <2>3, <3>2
  <2> QED BY <2>2, <2>3
<1>8. ReadInv'
  <2>1. Belongs(new) => Belongs(gen.bytes)'
    BY <1>2 DEF Belongs
  <2>2. Dated(new["recording"]) => Dated(gen.bytes["recording"])'
    BY <1>2 DEF Dated
  <2> QED BY <1>2, <1>3, <1>4, <1>5, <1>6, <1>7, <2>1, <2>2 DEF ReadInv
<1>9. \A g \in DOMAIN new \ gen.edited : new[g] = files[g]
  BY <1>1 DEF ContentInv, LabelInv
<1> QED BY <1>1, <1>8, <1>9

\* Reading another file does not change what a label says.
LEMMA EarnedAlike ==
  ASSUME NEW s, NEW bytes, NEW bytes2, NEW f, NEW revision, Earned(bytes, s, revision),
         f \notin Sources!Required[s], DOMAIN bytes2 = DOMAIN bytes \cup {f},
         \A g \in DOMAIN bytes \ {f} : bytes2[g] = bytes[g]
  PROVE  Earned(bytes2, s, revision)
<1>1. Sources!Restrict(bytes2, Sources!Required[s]) = Sources!Restrict(bytes, Sources!Required[s])
  BY DEF Earned, Sources!Restrict
<1> QED BY <1>1 DEF Earned

\* Staging a file that bears no label.
LEMMA StageKeeps ==
  ASSUME ContentInv, NEW f, NEW next, Sources!Stage(f, next),
         <<f, next>> \in {<<"sample", "transcript">>, <<"transcript", "recheck">>,
                           <<"recording", "recorded">>, <<"readme", "publish">>}
  PROVE  ContentInv'
<1>1. CASE gen.production /\ Sources!SourceModified(f)
  BY <1>1, AbortKeeps DEF Sources!Stage
<1>2. CASE ~(gen.production /\ Sources!SourceModified(f))
  <2>1. /\ gen.step = f /\ UNCHANGED <<Sources!sources, snapshot>>
        /\ gen' = [gen EXCEPT !.step = next, !.bytes = Sources!With(gen.bytes, f, files[f])]
    BY <1>2 DEF Sources!Stage
  <2>2. UNCHANGED <<files, commits, records, tested, capture>> /\ Sources!HEAD' = Sources!HEAD
    BY <2>1 DEF Sources!sources, Sources!HEAD
  <2>3. /\ DOMAIN gen' = GenFields /\ gen'.step = next /\ gen'.bytes = Sources!With(gen.bytes, f, files[f])
        /\ gen'.production = gen.production /\ gen'.revision = gen.revision /\ gen'.records = gen.records
        /\ gen'.match = gen.match /\ gen'.edited = gen.edited /\ gen'.labels = gen.labels
    BY <2>1 DEF ContentInv, GenTyped, GenFields
  <2>4. /\ f \in Sources!Files /\ next \in GenSteps /\ gen.step \notin {"idle", "pin"} /\ next \notin {"idle", "pin"}
        /\ next \in Compared => gen.step \in Compared /\ f \notin {"recording", "sample", "transcript"}
        /\ \A g \in Sources!Checked : next \in ReadBy[g] => gen.step \in ReadBy[g] \/ g = f
    <3>1. CASE f = "sample" /\ next = "transcript"
      BY <2>1, <3>1 DEF Sources!Files, Sources!Checked, Sources!Pages, GenSteps, Compared,
          ReadBy
    <3>4. CASE f = "transcript" /\ next = "recheck"
      BY <2>1, <3>4 DEF Sources!Files, Sources!Checked, Sources!Pages, GenSteps, Compared,
          ReadBy
    <3>2. CASE f = "recording" /\ next = "recorded"
      BY <2>1, <3>2 DEF Sources!Files, Sources!Checked, Sources!Pages, GenSteps, Compared,
          ReadBy
    <3>3. CASE f = "readme" /\ next = "publish"
      BY <2>1, <3>3 DEF Sources!Files, Sources!Checked, Sources!Pages, GenSteps, Compared,
          ReadBy
    <3> QED BY <3>1, <3>2, <3>3, <3>4
  <2>5. /\ ReadInv' /\ DOMAIN gen'.bytes = DOMAIN gen.bytes \cup {f}
        /\ \A g \in DOMAIN gen.bytes \ {f} : gen'.bytes[g] = gen.bytes[g]
        /\ \A g \in DOMAIN gen'.bytes \ gen.edited : gen'.bytes[g] = files[g]
    BY <1>2, <2>1, <2>3, <2>4, ReadKeeps
  <2>6. \A s \in DOMAIN Sources!Required : Taken(s, records[s])' /\ Taken(s, gen.records[s])'
    <3>1. gen.step # "idle"
      BY <2>4
    <3> QED BY ZenonT(60), <2>2, <2>3, <3>1 DEF ContentInv, LabelInv, Taken
  <2>7. next \in Labelled => gen.step \in Labelled
    BY <2>1 DEF Labelled
  <2>8. LabelInv'
    <3>1. next \notin {"label", "recheck its sample", "label lesson"}
      OBVIOUS
    <3>2. ASSUME NEW s \in DOMAIN gen.labels, gen.labels[s], Untouched(s),
                 s = "lesson" => next \in Labelled
          PROVE  Earned(gen'.bytes, s, gen.revision)
      <4>1. s \in DOMAIN Sources!Required /\ Earned(gen.bytes, s, gen.revision)
        BY <2>7, <3>2 DEF ContentInv, LabelInv
      <4>2. f \notin Sources!Required[s]
        <5>1. f = "sample" => s # "sample"
          BY <2>1, <3>2 DEF ContentInv, LabelInv
        <5>2. f = "sample" => s # "lesson"
          BY <2>1, <3>2 DEF Labelled
        <5> QED BY <4>1, <5>1, <5>2 DEF Sources!Required
      <4> QED BY <2>5, <4>1, <4>2, EarnedAlike
    <3>3. \A s \in DOMAIN gen'.labels :
            gen'.labels[s] /\ Untouched(s)' /\ (s = "lesson" => gen'.step \in Labelled)
              => Earned(gen.bytes, s, gen.revision)'
      BY <2>2, <2>3, <3>2 DEF Earned, Untouched
    <3>4. DOMAIN gen'.labels \subseteq DOMAIN Sources!Required
      BY <2>3 DEF ContentInv, LabelInv
    <3>5. gen'.step \in {"guide", "lesson", "sample"} => "sample" \notin DOMAIN gen'.labels
      BY <2>3 
    <3>6. \A g \in DOMAIN gen'.bytes \ gen'.edited : gen'.bytes[g] = files'[g]
      BY <2>2, <2>3, <2>5
    <3> QED BY <2>3, <2>6, <3>1, <3>3, <3>4, <3>5, <3>6 DEF LabelInv
  <2>9. {gen'.production, gen'.match} \subseteq BOOLEAN
    BY <2>3 DEF ContentInv, GenTyped
  <2> QED BY <2>1, <2>3, <2>4, <2>5, <2>8, <2>9, GenerationOnly
<1> QED BY <1>1, <1>2

\* An approved asset bears none either.
LEMMA CopyKeeps == ASSUME ContentInv, Sources!CopyAsset PROVE ContentInv'
<1>1. /\ gen.step = "image" /\ UNCHANGED <<Sources!sources, snapshot>>
      /\ gen' = [gen EXCEPT !.step = "readme", !.bytes = Sources!With(gen.bytes, "image", files["image"])]
  BY DEF Sources!CopyAsset
<1>2. UNCHANGED <<files, commits, records, tested, capture>> /\ Sources!HEAD' = Sources!HEAD
  BY <1>1 DEF Sources!sources, Sources!HEAD
<1>3. /\ DOMAIN gen' = GenFields /\ gen'.step = "readme" /\ gen'.bytes = Sources!With(gen.bytes, "image", files["image"])
      /\ gen'.production = gen.production /\ gen'.revision = gen.revision /\ gen'.records = gen.records
      /\ gen'.match = gen.match /\ gen'.edited = gen.edited /\ gen'.labels = gen.labels
  BY <1>1 DEF ContentInv, GenTyped, GenFields
<1>4. /\ "image" \in Sources!Files \ Sources!Checked /\ "readme" \in GenSteps /\ gen.step \in Compared
      /\ \A g \in Sources!Checked : "readme" \in ReadBy[g] => gen.step \in ReadBy[g]
  BY <1>1 DEF Sources!Files, Sources!Checked, Sources!Pages, GenSteps, Compared, ReadBy
<1>5. /\ ReadInv' /\ DOMAIN gen'.bytes = DOMAIN gen.bytes \cup {"image"}
      /\ \A g \in DOMAIN gen.bytes \ {"image"} : gen'.bytes[g] = gen.bytes[g]
      /\ \A g \in DOMAIN gen'.bytes \ gen.edited : gen'.bytes[g] = files[g]
  BY <1>1, <1>3, <1>4, ReadKeeps
<1>6. \A s \in DOMAIN Sources!Required : Taken(s, records[s])' /\ Taken(s, gen.records[s])'
  BY <1>1, <1>2, <1>3 DEF ContentInv, LabelInv, Taken
<1>7. \A s \in DOMAIN gen'.labels :
        gen'.labels[s] /\ Untouched(s)' => Earned(gen.bytes, s, gen.revision)'
  <2>1. ASSUME NEW s \in DOMAIN gen.labels, gen.labels[s], Untouched(s)
        PROVE  Earned(gen'.bytes, s, gen.revision)
    <3>1. s \in DOMAIN Sources!Required /\ Earned(gen.bytes, s, gen.revision)
      BY <1>1, <2>1 DEF ContentInv, LabelInv, Labelled
    <3>2. "image" \notin Sources!Required[s]
      BY <3>1 DEF Sources!Required
    <3> QED BY <1>5, <3>1, <3>2, EarnedAlike
  <2> QED BY <1>2, <1>3, <2>1 DEF Earned, Untouched
<1>8. LabelInv'
  <2>1. DOMAIN gen'.labels \subseteq DOMAIN Sources!Required
    BY <1>3 DEF ContentInv, LabelInv
  <2>2. \A g \in DOMAIN gen'.bytes \ gen'.edited : gen'.bytes[g] = files'[g]
    BY <1>2, <1>3, <1>5
  <2> QED BY <1>3, <1>6, <1>7, <2>1, <2>2 DEF LabelInv
<1>9. {gen'.production, gen'.match} \subseteq BOOLEAN
  BY <1>3 DEF ContentInv, GenTyped
<1> QED BY <1>1, <1>3, <1>4, <1>5, <1>8, <1>9, GenerationOnly

\* A record that names every required source, as it was staged, is of a verification
\* of what was staged.
LEMMA TakenIsEarned ==
  ASSUME NEW s \in DOMAIN Sources!Required, NEW record, NEW revision \in Nat \ {0}, NEW bytes,
         Taken(s, record), record.base = revision, Sources!Required[s] \subseteq DOMAIN bytes,
         Sources!Required[s] \subseteq DOMAIN record.hashes \/ s = "guide",
         \A f \in Sources!Required[s] : f \in DOMAIN record.hashes => record.hashes[f] = bytes[f]
  PROVE  Earned(bytes, s, revision)
<1>1. PICK covered \in Sources!Coverings(s) :
        /\ record \in tested
        /\ record = [base |-> record.base, hashes |-> Sources!Restrict(record.hashes, covered)]
  BY DEF Taken
<1>2. record.hashes = Sources!Restrict(record.hashes, covered)
  BY <1>1
<1>3. DOMAIN record.hashes = covered
  BY <1>2 DEF Sources!Restrict
<1>4. covered = Sources!Required[s]
  <2>1. s \in Sources!Required[s]
    BY DEF Sources!Required
  <2>2. s = "guide" => Sources!Required[s] = {s}
    BY DEF Sources!Required
  <2> QED BY <1>1, <1>3, <2>1, <2>2 DEF Sources!Coverings
<1>5. Sources!Restrict(record.hashes, covered) = Sources!Restrict(bytes, Sources!Required[s])
  BY <1>3, <1>4 DEF Sources!Restrict
<1> QED BY <1>1, <1>5 DEF Earned

\* A page is staged with its label, the lesson's to be replaced later.
LEMMA PageKeeps ==
  ASSUME ContentInv, NEW p, NEW next, Sources!StagePage(p, next),
         <<p, next>> \in {<<"guide", "lesson">>, <<"lesson", "sample">>}
  PROVE  ContentInv'
<1>1. CASE gen.production /\ Sources!SourceModified(p)
  BY <1>1, AbortKeeps DEF Sources!StagePage
<1>2. CASE ~(gen.production /\ Sources!SourceModified(p))
  <2> DEFINE current == Sources!PageIsCurrent(p)
  <2>1. /\ gen.step = p /\ UNCHANGED <<Sources!sources, snapshot>>
        /\ gen' = [gen EXCEPT !.step = next, !.bytes = Sources!With(gen.bytes, p, files[p]),
                              !.labels = Sources!With(gen.labels, p, current)]
    BY <1>2 DEF Sources!StagePage
  <2>2. UNCHANGED <<files, commits, records, tested, capture>> /\ Sources!HEAD' = Sources!HEAD
    BY <2>1 DEF Sources!sources, Sources!HEAD
  <2>3. /\ DOMAIN gen' = GenFields /\ gen'.step = next /\ gen'.bytes = Sources!With(gen.bytes, p, files[p])
        /\ gen'.production = gen.production /\ gen'.revision = gen.revision /\ gen'.records = gen.records
        /\ gen'.match = gen.match /\ gen'.edited = gen.edited /\ gen'.labels = Sources!With(gen.labels, p, current)
    BY <2>1 DEF ContentInv, GenTyped, GenFields
  <2>4. /\ p \in Sources!Files /\ next \in GenSteps /\ gen.step \notin {"idle", "pin"} /\ next \notin {"idle", "pin"}
        /\ next \notin Compared
        /\ \A g \in Sources!Checked : next \in ReadBy[g] => gen.step \in ReadBy[g] \/ g = p
    <3>1. CASE p = "guide" /\ next = "lesson"
      BY <2>1, <3>1 DEF Sources!Files, Sources!Checked, Sources!Pages, GenSteps, Compared,
          ReadBy
    <3>2. CASE p = "lesson" /\ next = "sample"
      BY <2>1, <3>2 DEF Sources!Files, Sources!Checked, Sources!Pages, GenSteps, Compared,
          ReadBy
    <3> QED BY <3>1, <3>2
  <2>5. /\ ReadInv' /\ DOMAIN gen'.bytes = DOMAIN gen.bytes \cup {p} /\ gen'.bytes[p] = files[p]
        /\ \A g \in DOMAIN gen.bytes \ {p} : gen'.bytes[g] = gen.bytes[g]
        /\ \A g \in DOMAIN gen'.bytes \ gen.edited : gen'.bytes[g] = files[g]
    BY <1>2, <2>1, <2>3, <2>4, ReadKeeps
  <2>6. \A s \in DOMAIN Sources!Required : Taken(s, records[s])' /\ Taken(s, gen.records[s])'
    <3>1. gen.step # "idle"
      BY <2>4
    <3> QED BY ZenonT(60), <2>2, <2>3, <3>1 DEF ContentInv, LabelInv, Taken
  <2>7. p = "guide" /\ current => Earned(gen'.bytes, "guide", gen.revision)
    <3> SUFFICES ASSUME p = "guide", Sources!PageIsCurrent("guide")
                 PROVE  Earned(gen'.bytes, "guide", gen.revision)
      OBVIOUS
    <3> DEFINE r == gen.records["guide"] b == gen'.bytes
    <3>1. "guide" \in DOMAIN Sources!Required /\ Sources!Required["guide"] = {"guide"}
      BY DEF Sources!Required
    <3>2. gen.revision \in Nat \ {0}
      BY <2>1, <2>4 DEF ContentInv, ReadInv, GenTyped
    <3>3. Taken("guide", r) /\ r.base = gen.revision
      BY <2>1, <3>1 DEF ContentInv, LabelInv, Sources!PageIsCurrent
    <3>4. files["guide"] = commits[gen.revision]["guide"]
      BY DEF Sources!PageIsCurrent, Sources!SourceModified
    <3>5. r.hashes["guide"] = b["guide"] /\ "guide" \in DOMAIN b
      BY <2>5, <3>2, <3>3, <3>4 DEF Taken
    <3> HIDE DEF r, b
    <3>6. Earned(b, "guide", gen.revision)
      BY <3>1, <3>2, <3>3, <3>5, TakenIsEarned
    <3> QED BY <3>6 DEF b
  <2>8. LabelInv'
    <3> HIDE DEF current
    <3> DEFINE new == gen'.labels
    <3>1. /\ DOMAIN new = DOMAIN gen.labels \cup {p} /\ new[p] = current
          /\ \A s \in DOMAIN gen.labels \ {p} : new[s] = gen.labels[s]
      BY <2>3 DEF Sources!With
    <3>2. DOMAIN new \subseteq DOMAIN Sources!Required
      BY <3>1 DEF ContentInv, LabelInv, Sources!Required
    <3>3. next \notin {"label", "recheck its sample", "label lesson"} /\ next \notin Labelled
      BY DEF Labelled
    <3>4. p \in {"guide", "lesson"} /\ next \in {"lesson", "sample"}
      OBVIOUS
    <3>5. "sample" \notin DOMAIN gen.labels
      BY <2>1, <3>4 DEF ContentInv, LabelInv
    <3>6. ASSUME NEW s \in DOMAIN new, new[s], s # "lesson", Untouched(s)
          PROVE Earned(gen'.bytes, s, gen.revision)
      <4>1. CASE s = p
        BY <2>7, <3>1, <3>4, <3>6, <4>1
      <4>2. CASE s # p
        <5>1. s \in DOMAIN gen.labels /\ gen.labels[s] /\ s \in DOMAIN Sources!Required
          BY <3>1, <3>2, <3>6, <4>2
        <5>2. Earned(gen.bytes, s, gen.revision)
          BY <3>6, <5>1 DEF ContentInv, LabelInv
        <5>3. p \notin Sources!Required[s]
          BY <3>4, <3>5, <3>6, <4>2, <5>1 DEF Sources!Required
        <5> QED BY <2>5, <5>2, <5>3, EarnedAlike
      <4> QED BY <4>1, <4>2
    <3>7. \A s \in DOMAIN new : new[s] /\ Untouched(s)' /\ s # "lesson"
                                  => Earned(gen.bytes, s, gen.revision)'
      BY <2>2, <2>3, <3>6 DEF Earned, Untouched
    <3>8. \A f \in DOMAIN gen'.bytes \ gen'.edited : gen'.bytes[f] = files'[f]
      BY <2>2, <2>3, <2>5
    <3>9. "sample" \notin DOMAIN new
      BY <3>1, <3>4, <3>5
    <3> QED BY <2>3, <2>6, <3>2, <3>3, <3>7, <3>8, <3>9 DEF LabelInv
  <2>9. {gen'.production, gen'.match} \subseteq BOOLEAN
    BY <2>3 DEF ContentInv, GenTyped
  <2> QED BY <2>1, <2>3, <2>4, <2>5, <2>8, <2>9, GenerationOnly
<1> QED BY <1>1, <1>2

\* A step that reads no new file leaves what was read.
LEMMA ReadStays ==
  ASSUME ContentInv, UNCHANGED commits, Sources!HEAD' = Sources!HEAD,
         gen'.bytes = gen.bytes, gen'.production = gen.production, gen'.revision = gen.revision,
         gen.step \notin {"idle", "pin"}, gen'.step \notin {"idle", "pin"},
         gen'.step \in Compared => Belongs(gen.bytes),
         \A g \in Sources!Checked : gen'.step \in ReadBy[g] => gen.step \in ReadBy[g]
  PROVE  ReadInv'
<1>1. gen'.revision \in 1..Sources!HEAD'
  BY DEF ContentInv, ReadInv
<1>2. \A f \in Sources!Checked : gen'.step \in ReadBy[f] => f \in DOMAIN gen'.bytes
  BY DEF ContentInv, ReadInv
<1>3. gen'.step \in ReadBy["recording"] => Dated(gen.bytes["recording"])'
  <2>1. "recording" \in Sources!Checked
    BY DEF Sources!Checked
  <2>2. gen.step \in ReadBy["recording"] => Dated(gen.bytes["recording"])
    BY DEF ContentInv, ReadInv
  <2> QED BY <2>1, <2>2 DEF Dated
<1>4. gen'.step \in Compared => Belongs(gen.bytes)'
  BY DEF Belongs
<1> QED BY <1>1, <1>2, <1>3, <1>4 DEF ContentInv, ReadInv

\* A recheck remembers whether what it read is what was tested.
LEMMA RecheckKeeps ==
  ASSUME ContentInv, NEW s, NEW f, NEW step, NEW next, Sources!Recheck(s, f, step, next),
         <<s, f, step, next>> \in {<<"sample", "sample", "recheck", "label">>,
                                   <<"lesson", "lesson", "recheck lesson", "recheck its sample">>,
                                   <<"lesson", "sample", "recheck its sample", "label lesson">>}
  PROVE  ContentInv'
<1> DEFINE match == /\ gen.match
                    /\ LET hashes == gen.records[s].hashes
                       IN f \in DOMAIN hashes => hashes[f] = files[f]
<1>1. /\ gen.step = step /\ UNCHANGED <<Sources!sources, snapshot>>
      /\ gen' = [gen EXCEPT !.step = next, !.match = match]
  BY DEF Sources!Recheck
<1>2. UNCHANGED <<files, commits, records, tested, capture>> /\ Sources!HEAD' = Sources!HEAD
  BY <1>1 DEF Sources!sources, Sources!HEAD
<1>3. match \in BOOLEAN
  BY DEF ContentInv, GenTyped
<1> HIDE DEF match
<1>4. /\ DOMAIN gen' = GenFields /\ gen'.step = next /\ gen'.bytes = gen.bytes
      /\ gen'.production = gen.production /\ gen'.revision = gen.revision /\ gen'.records = gen.records
      /\ gen'.match = match /\ gen'.edited = gen.edited /\ gen'.labels = gen.labels
  BY <1>1 DEF ContentInv, GenTyped, GenFields
<1>5. /\ next \in GenSteps /\ gen.step \notin {"idle", "pin"} /\ next \notin {"idle", "pin"}
      /\ next \in Compared => gen.step \in Compared
      /\ \A g \in Sources!Checked : next \in ReadBy[g] => gen.step \in ReadBy[g]
      /\ next \notin Labelled
  <2>1. CASE step = "recheck" /\ next = "label"
    BY <1>1, <2>1 DEF Sources!Checked, Sources!Pages, GenSteps, Compared, ReadBy, Labelled
  <2>2. CASE s = "lesson"
    <3>1. gen.step \in Compared /\ next \in Compared /\ next \notin Labelled
      BY <1>1, <2>2 DEF Compared, Labelled
    <3>2. next # "publish" /\ gen.step \notin {"idle", "pin"} /\ next \notin {"idle", "pin"}
      BY <1>1, <2>2
    <3>3. \A g \in Sources!Checked \ {"readme"} : Compared \subseteq ReadBy[g]
      <4>1. Compared \cap {"idle", "pin", "guide", "lesson", "sample", "transcript"} = {} /\ Compared \subseteq GenSteps
        BY DEF Compared, GenSteps
      <4>2. ReadBy["guide"] = GenSteps \ {"idle", "pin", "guide"}
        BY DEF ReadBy
      <4>3. ReadBy["lesson"] = GenSteps \ {"idle", "pin", "guide", "lesson"}
        BY DEF ReadBy
      <4>4. ReadBy["sample"] = GenSteps \ {"idle", "pin", "guide", "lesson", "sample"}
        BY DEF ReadBy
      <4>5. ReadBy["recording"] = {"recorded"} \cup Compared
        BY DEF ReadBy
      <4>6. ReadBy["transcript"] = GenSteps \ {"idle", "pin", "guide", "lesson", "sample", "transcript"}
        BY DEF ReadBy
      <4> QED BY <4>1, <4>2, <4>3, <4>4, <4>5, <4>6 DEF Sources!Checked, Sources!Pages
    <3>4. ReadBy["readme"] = {"publish"}
      BY DEF ReadBy
    <3> QED BY <3>1, <3>2, <3>3, <3>4 DEF GenSteps, Sources!Checked
  <2> QED BY <2>1, <2>2
<1>6. ReadInv'
  <2>1. next \in Compared => Belongs(gen.bytes)
    BY <1>5 DEF ContentInv, ReadInv
  <2> QED BY <1>2, <1>4, <1>5, <2>1, ReadStays
<1>7. \A t \in DOMAIN Sources!Required : Taken(t, records[t])' /\ Taken(t, gen.records[t])'
  <2>1. gen.step # "idle"
    BY <1>5
  <2> QED BY <1>2, <1>4, <2>1 DEF ContentInv, LabelInv, Taken
<1>8. \A t, g : Matches(t, g)' <=> Matches(t, g)
  BY <1>2, <1>4 DEF Matches
<1>9. LabelInv'
  <2>1. \A t \in DOMAIN gen'.labels :
          gen'.labels[t] /\ Untouched(t)' /\ t # "lesson" => Earned(gen.bytes, t, gen.revision)'
    BY <1>2, <1>4 DEF ContentInv, LabelInv, Earned, Untouched
  <2>2. match /\ f \notin gen.edited => gen.match /\ Matches(s, f)
    <3>1. f \in DOMAIN gen.bytes
      <4>1. gen.step \in ReadBy[f]
        <5>1. gen.step \in GenSteps \ {"idle", "pin", "guide", "lesson", "sample"}
          BY <1>1 DEF GenSteps, Compared
        <5>2. gen.step \in ReadBy["lesson"] /\ gen.step \in ReadBy["sample"]
          BY <5>1 DEF ReadBy
        <5> QED BY <5>2
      <4> QED BY <4>1 DEF ContentInv, ReadInv, Sources!Checked, Sources!Pages
    <3>2. f \notin gen.edited => gen.bytes[f] = files[f]
      BY <3>1 DEF ContentInv, LabelInv
    <3> QED BY <3>2 DEF match, Matches
  <2>3. match => gen.match
    BY DEF match
  <2>4. match =>
          /\ next = "label" /\ "sample" \notin gen.edited => Matches("sample", "sample")
          /\ next \in {"recheck its sample", "label lesson"} /\ "lesson" \notin gen.edited
                => Matches("lesson", "lesson")
          /\ next = "label lesson" /\ "sample" \notin gen.edited => Matches("lesson", "sample")
    <3>1. CASE next = "label"
      BY <2>2, <3>1
    <3>2. CASE next = "recheck its sample"
      BY <2>2, <3>2
    <3>3. CASE next = "label lesson"
      <4>1. s = "lesson" /\ f = "sample" /\ gen.step = "recheck its sample"
        BY <1>1, <3>3
      <4>2. gen.match /\ "lesson" \notin gen.edited => Matches("lesson", "lesson")
        BY <4>1 DEF ContentInv, LabelInv
      <4> QED BY <2>2, <2>3, <3>3, <4>1, <4>2
    <3> QED BY <3>1, <3>2, <3>3
  <2>5. match =>
          /\ next = "label" /\ "sample" \notin gen'.edited => Matches("sample", "sample")'
          /\ next \in {"recheck its sample", "label lesson"} /\ "lesson" \notin gen'.edited
                => Matches("lesson", "lesson")'
          /\ next = "label lesson" /\ "sample" \notin gen'.edited => Matches("lesson", "sample")'
    BY <1>4, <1>8, <2>4
  <2>6. /\ DOMAIN gen'.labels \subseteq DOMAIN Sources!Required
        /\ next \notin {"guide", "lesson", "sample"}
    BY <1>4 DEF ContentInv, LabelInv
  <2>7. \A g \in DOMAIN gen'.bytes \ gen'.edited : gen'.bytes[g] = files'[g]
    BY <1>2, <1>4 DEF ContentInv, LabelInv
  <2> QED BY <1>4, <1>5, <1>7, <2>1, <2>5, <2>6, <2>7 DEF LabelInv
<1>10. {gen'.production, gen'.match} \subseteq BOOLEAN
  BY <1>3, <1>4 DEF ContentInv, GenTyped
<1> QED BY <1>1, <1>4, <1>5, <1>6, <1>9, <1>10, GenerationOnly

\* A label that a recheck ends in is earned, unless somebody edits.
LEMMA LabelKeeps ==
  ASSUME ContentInv, NEW subject, NEW step, NEW next, Sources!Label(subject, step, next),
         <<subject, step, next>> \in {<<"sample", "label", "recording">>, <<"lesson", "label lesson", "image">>}
  PROVE  ContentInv'
<1> DEFINE current == /\ gen.records[subject].base = gen.revision
                      /\ Sources!CoverageComplete(subject) /\ gen.match
<1>1. /\ gen.step = step /\ UNCHANGED <<Sources!sources, snapshot>>
      /\ gen' = [gen EXCEPT !.step = next, !.match = TRUE, !.labels = Sources!With(gen.labels, subject, current)]
  BY DEF Sources!Label
<1>2. UNCHANGED <<files, commits, records, tested, capture>> /\ Sources!HEAD' = Sources!HEAD
  BY <1>1 DEF Sources!sources, Sources!HEAD
<1>3. /\ DOMAIN gen' = GenFields /\ gen'.step = next /\ gen'.bytes = gen.bytes
      /\ gen'.production = gen.production /\ gen'.revision = gen.revision /\ gen'.records = gen.records
      /\ gen'.match = TRUE /\ gen'.edited = gen.edited /\ gen'.labels = Sources!With(gen.labels, subject, current)
  BY <1>1 DEF ContentInv, GenTyped, GenFields
<1>4. /\ next \in GenSteps /\ gen.step \notin {"idle", "pin"} /\ next \notin {"idle", "pin"}
      /\ next \in Compared => gen.step \in Compared
      /\ \A g \in Sources!Checked : next \in ReadBy[g] => gen.step \in ReadBy[g]
  <2>1. CASE step = "label" /\ next = "recording"
    BY <1>1, <2>1 DEF Sources!Checked, Sources!Pages, GenSteps, Compared, ReadBy
  <2>2. CASE step = "label lesson" /\ next = "image"
    <3>1. /\ gen.step \in Compared /\ next \in Compared /\ next # "publish"
      BY <1>1, <2>2 DEF Compared
    <3>2. gen.step \notin {"idle", "pin", "guide", "lesson", "sample", "transcript"} /\ next \notin {"idle", "pin"}
      BY <1>1, <2>2
    <3>3. ReadBy["readme"] = {"publish"} /\ ReadBy["recording"] = {"recorded"} \cup Compared
      BY DEF ReadBy
    <3>4. /\ gen.step \in ReadBy["guide"] /\ gen.step \in ReadBy["lesson"]
          /\ gen.step \in ReadBy["sample"] /\ gen.step \in ReadBy["transcript"]
      <4>1. gen.step \in GenSteps
        BY <3>1 DEF GenSteps
      <4> QED BY <3>2, <4>1 DEF ReadBy
    <3>5. next \in GenSteps
      BY <3>1 DEF GenSteps
    <3>6. \A g \in Sources!Checked : next \in ReadBy[g] => gen.step \in ReadBy[g]
      BY <3>1, <3>3, <3>4 DEF Sources!Checked, Sources!Pages
    <3> QED BY <3>1, <3>2, <3>5, <3>6
  <2> QED BY <2>1, <2>2
<1>5. ReadInv'
  <2>1. next \in Compared => Belongs(gen.bytes)
    BY <1>4 DEF ContentInv, ReadInv
  <2> QED BY <1>2, <1>3, <1>4, <2>1, ReadStays
<1>6. \A s \in DOMAIN Sources!Required : Taken(s, records[s])' /\ Taken(s, gen.records[s])'
  <2>1. gen.step # "idle"
    BY <1>4
  <2> QED BY ZenonT(60), <1>2, <1>3, <2>1 DEF ContentInv, LabelInv, Taken
<1>7. Untouched(subject) /\ current => Earned(gen.bytes, subject, gen.revision)
  <2> SUFFICES ASSUME Untouched(subject), current PROVE Earned(gen.bytes, subject, gen.revision)
    OBVIOUS
  <2> DEFINE r == gen.records[subject]
  <2>1. subject \in DOMAIN Sources!Required
    BY DEF Sources!Required
  <2>2. gen.revision \in Nat \ {0}
    <3>1. gen.revision \in 1..Sources!HEAD
      BY <1>4 DEF ContentInv, ReadInv
    <3>2. Sources!HEAD \in Nat
      BY DEF ContentInv, GenTyped
    <3> QED BY ONLY <3>1, <3>2
  <2>3. Taken(subject, r) /\ r.base = gen.revision
    BY <1>4, <2>1 DEF ContentInv, LabelInv
  <2>4. Sources!Required[subject] \subseteq DOMAIN r.hashes
    BY DEF Sources!CoverageComplete
  <2>5. \A f \in Sources!Required[subject] : Matches(subject, f)
    <3>1. CASE subject = "sample"
      <4>1. Sources!Required["sample"] = {"sample"} /\ "sample" \notin gen.edited
        BY <3>1 DEF Sources!Required, Untouched
      <4>2. Matches("sample", "sample")
        BY <1>1, <3>1, <4>1 DEF ContentInv, LabelInv
      <4> QED BY <3>1, <4>1, <4>2
    <3>2. CASE subject = "lesson"
      <4>1. Sources!Required["lesson"] = {"lesson", "sample"} /\ {"lesson", "sample"} \cap gen.edited = {}
        BY <3>2 DEF Sources!Required, Untouched
      <4>2. Matches("lesson", "lesson") /\ Matches("lesson", "sample")
        BY <1>1, <3>2, <4>1 DEF ContentInv, LabelInv
      <4> QED BY <3>2, <4>1, <4>2
    <3> QED BY <3>1, <3>2
  <2>6. \A f \in Sources!Required[subject] : f \in DOMAIN r.hashes => r.hashes[f] = gen.bytes[f]
    BY <2>5 DEF Matches
  <2>7. Sources!Required[subject] \subseteq DOMAIN gen.bytes
    <3>1. \A f \in Sources!Required[subject] : f \in Sources!Checked /\ gen.step \in ReadBy[f]
      <4>1. gen.step \in GenSteps \ {"idle", "pin", "guide", "lesson", "sample"}
        BY <1>1 DEF GenSteps, Compared
      <4>2. Sources!Required[subject] \subseteq {"lesson", "sample"}
        <5>1. CASE subject = "sample"
          BY <5>1 DEF Sources!Required
        <5>2. CASE subject = "lesson"
          BY <5>2 DEF Sources!Required
        <5> QED BY <5>1, <5>2
      <4>3. gen.step \in ReadBy["lesson"] /\ gen.step \in ReadBy["sample"]
        BY <4>1 DEF ReadBy
      <4> QED BY <4>2, <4>3 DEF Sources!Checked, Sources!Pages
    <3> QED BY <3>1 DEF ContentInv, ReadInv
  <2> HIDE DEF r
  <2> QED BY <2>1, <2>2, <2>3, <2>4, <2>6, <2>7, TakenIsEarned
<1> HIDE DEF current
<1>8. LabelInv'
  <2> DEFINE new == gen'.labels
  <2>1. /\ DOMAIN new = DOMAIN gen.labels \cup {subject} /\ new[subject] = current
        /\ \A s \in DOMAIN gen.labels \ {subject} : new[s] = gen.labels[s]
    BY <1>3 DEF Sources!With
  <2>2. DOMAIN new \subseteq DOMAIN Sources!Required
    BY <2>1 DEF ContentInv, LabelInv, Sources!Required
  <2>3. next \notin {"label", "recheck its sample", "label lesson", "guide", "lesson", "sample"}
    OBVIOUS
  <2>4. subject # "lesson" => next \notin Labelled
    BY DEF Labelled
  <2>5. ASSUME NEW s \in DOMAIN new, new[s], Untouched(s), s = "lesson" => next \in Labelled
        PROVE Earned(gen.bytes, s, gen.revision)
    <3>1. CASE s = subject
      BY <1>7, <2>1, <2>5, <3>1
    <3>2. CASE s # subject
      <4>1. s \in DOMAIN gen.labels /\ gen.labels[s]
        BY <2>1, <2>5, <3>2
      <4>2. s = "lesson" => FALSE
        BY <2>4, <2>5, <3>2
      <4> QED BY <2>5, <4>1, <4>2 DEF ContentInv, LabelInv
    <3> QED BY <3>1, <3>2
  <2>6. \A s \in DOMAIN new : new[s] /\ Untouched(s)' /\ (s = "lesson" => next \in Labelled)
                                => Earned(gen.bytes, s, gen.revision)'
    BY <1>2, <1>3, <2>5 DEF Earned, Untouched
  <2>7. \A f \in DOMAIN gen'.bytes \ gen'.edited : gen'.bytes[f] = files'[f]
    BY <1>2, <1>3 DEF ContentInv, LabelInv
  <2> QED BY <1>3, <1>6, <2>2, <2>3, <2>6, <2>7 DEF LabelInv
<1>9. {gen'.production, gen'.match} \subseteq BOOLEAN
  BY <1>3 DEF ContentInv, GenTyped
<1> QED BY <1>1, <1>3, <1>4, <1>5, <1>8, <1>9, GenerationOnly

\* The recording is compared with the sample that was staged.
LEMMA CheckKeeps == ASSUME ContentInv, Sources!CheckRecording PROVE ContentInv'
<1> DEFINE recording == gen.bytes["recording"]
<1>1. CASE ~(/\ commits[recording.revision]["runtime"] = recording.runtime
             /\ Sources!Fresh(recording))
  BY <1>1, AbortKeeps DEF Sources!CheckRecording
<1>2. CASE Sources!Fresh(recording) /\ commits[recording.revision]["runtime"] = recording.runtime
  <2> DEFINE changed == files["runtime"] # recording.runtime
  <2>1. /\ gen.step = "recorded" /\ UNCHANGED <<Sources!sources, snapshot>>
        /\ gen' = [gen EXCEPT !.step = "recheck lesson", !.runtimeChanged = changed]
    BY <1>2 DEF Sources!CheckRecording
  <2> HIDE DEF changed
  <2>2. UNCHANGED <<files, commits, records, tested, capture>> /\ Sources!HEAD' = Sources!HEAD
    BY <2>1 DEF Sources!sources, Sources!HEAD
  <2>3. /\ DOMAIN gen' = GenFields /\ gen'.step = "recheck lesson" /\ gen'.bytes = gen.bytes
        /\ gen'.production = gen.production /\ gen'.revision = gen.revision /\ gen'.records = gen.records
        /\ gen'.match = gen.match /\ gen'.edited = gen.edited /\ gen'.labels = gen.labels
    BY <2>1 DEF ContentInv, GenTyped, GenFields
  <2>4. Belongs(gen.bytes)
    BY <1>2 DEF Sources!Fresh, Belongs
  <2>5. \A g \in Sources!Checked : gen'.step \in ReadBy[g] => gen.step \in ReadBy[g]
    <3>1. ReadBy["readme"] = {"publish"} /\ ReadBy["recording"] = {"recorded"} \cup Compared
      BY DEF ReadBy
    <3>2. \A g \in Sources!Checked \ {"readme", "recording"} : "recorded" \in ReadBy[g]
      <4>1. "recorded" \in GenSteps
        BY DEF GenSteps
      <4>2. /\ "recorded" \in ReadBy["guide"] /\ "recorded" \in ReadBy["lesson"]
            /\ "recorded" \in ReadBy["sample"] /\ "recorded" \in ReadBy["transcript"]
        BY <4>1 DEF ReadBy
      <4> QED BY <4>2 DEF Sources!Checked, Sources!Pages
    <3> QED BY <2>1, <2>3, <3>1, <3>2
  <2>8. ReadInv'
    BY <2>1, <2>2, <2>3, <2>4, <2>5, ReadStays
  <2>9. \A s \in DOMAIN Sources!Required : Taken(s, records[s])' /\ Taken(s, gen.records[s])'
    BY <2>1, <2>2, <2>3 DEF ContentInv, LabelInv, Taken
  <2>10. LabelInv'
    <3>1. gen'.step \notin {"label", "recheck its sample", "label lesson"} /\ gen'.step \notin Labelled
      BY <2>3 DEF Labelled
    <3>2. \A s \in DOMAIN gen'.labels :
            gen'.labels[s] /\ Untouched(s)' /\ s # "lesson" => Earned(gen.bytes, s, gen.revision)'
      BY <2>2, <2>3 DEF ContentInv, LabelInv, Earned, Untouched
    <3>3. \A f \in DOMAIN gen'.bytes \ gen'.edited : gen'.bytes[f] = files'[f]
      BY <2>2, <2>3 DEF ContentInv, LabelInv
    <3>4. DOMAIN gen'.labels \subseteq DOMAIN Sources!Required /\ gen'.step \notin {"guide", "lesson", "sample"}
      BY <2>3 DEF ContentInv, LabelInv
    <3> QED BY <2>3, <2>9, <3>1, <3>2, <3>3, <3>4 DEF LabelInv
  <2>11. {gen'.production, gen'.match} \subseteq BOOLEAN
    BY <2>3 DEF ContentInv, GenTyped
  <2>12. gen'.step \in GenSteps
    BY <2>3 DEF GenSteps, Compared
  <2> HIDE DEF recording
  <2> QED BY <2>1, <2>3, <2>8, <2>10, <2>11, <2>12, GenerationOnly
<1> QED BY <1>1, <1>2

\* What is published was read, committed and earned.
LEMMA PublishKeeps == ASSUME ContentInv, Sources!Publish PROVE ContentInv'
<1>1. /\ gen.step = "publish" /\ snapshot' = gen /\ gen' = Sources!Idle
      /\ UNCHANGED <<files, commits, records, tested, capture>> /\ Sources!HEAD' = Sources!HEAD
  BY DEF Sources!Publish, Sources!sources, Sources!HEAD
<1>2. /\ DOMAIN gen' = GenFields /\ gen'.step = "idle" /\ gen'.production = FALSE /\ gen'.match = TRUE
      /\ gen'.edited = {} /\ DOMAIN gen'.bytes = {} /\ DOMAIN gen'.labels = {}
  BY <1>1 DEF Sources!Idle, GenFields
<1>3. GenTyped'
  <2>1. gen'.step \in GenSteps /\ {gen'.production, gen'.match} \subseteq BOOLEAN
    BY <1>2 DEF GenSteps
  <2> QED BY <1>1, <1>2, <2>1 DEF ContentInv, GenTyped, Dated
<1>4. ReadInv'
  BY <1>2 DEF ReadInv, ReadBy, Sources!Checked, Sources!Pages, GenSteps, Compared
<1>5. LabelInv'
  BY <1>1, <1>2 DEF ContentInv, LabelInv, Taken
<1>6. gen.step \in Compared /\ gen.step \in Labelled
  BY <1>1 DEF Compared, Labelled
<1>7. \A f \in Sources!Checked : f \in DOMAIN gen.bytes
  <2>1. \A f \in Sources!Checked : gen.step \in ReadBy[f]
    <3>1. /\ gen.step \in ReadBy["guide"] /\ gen.step \in ReadBy["lesson"]
          /\ gen.step \in ReadBy["sample"] /\ gen.step \in ReadBy["transcript"]
      <4>1. "publish" \in GenSteps
        BY DEF GenSteps, Compared
      <4> QED BY <1>1, <4>1 DEF ReadBy
    <3>2. gen.step \in ReadBy["recording"] /\ gen.step \in ReadBy["readme"]
      BY <1>1 DEF Compared, ReadBy
    <3> QED BY <3>1, <3>2 DEF Sources!Checked, Sources!Pages
  <2> QED BY <2>1 DEF ContentInv, ReadInv
<1>8. snapshot'.production => snapshot'.revision \in 1..Sources!HEAD' /\ Sources!ProductionIsCommitted'
  BY <1>1, <1>7 DEF ContentInv, ReadInv, Sources!ProductionIsCommitted
<1>9. Sources!LabelsAreEarned'
  <2> SUFFICES ASSUME NEW s \in DOMAIN gen.labels, gen.labels[s], Untouched(s)
               PROVE  [base |-> gen.revision, hashes |-> Sources!Restrict(gen.bytes, Sources!Required[s])] \in tested
    <3>1. UNCHANGED tested /\ snapshot' = gen
      BY <1>1
    <3> QED BY <3>1 DEF Sources!LabelsAreEarned, Untouched
  <2>1. Earned(gen.bytes, s, gen.revision)
    BY <1>6 DEF ContentInv, LabelInv
  <2> QED BY <2>1 DEF Earned
<1>10. Dated(gen.bytes["recording"]) /\ Belongs(gen.bytes)
  BY <1>6 DEF ContentInv, ReadInv, ReadBy
<1>11. Sources!RecordingIsOfSample'
  <2> DEFINE r == gen.bytes["recording"]
  <2>1. r \in Recordings /\ r.transcript = r.run /\ (r.steady => r.run = Sources!Run(r.sample, r.runtime))
    BY <1>10 DEF Dated, Recordings
  <2>2. /\ r.sample = gen.bytes["sample"] /\ r.transcript = gen.bytes["transcript"]
        /\ r.runtime = commits[r.revision]["runtime"]
    BY <1>10 DEF Belongs
  <2>3. snapshot' = gen /\ commits' = commits
    BY <1>1
  <2> HIDE DEF r
  <2>4. /\ gen.bytes["transcript"] = r.run
        /\ r.steady => r.run = Sources!Run(gen.bytes["sample"], commits[r.revision]["runtime"])
    BY <2>1, <2>2
  <2> QED BY <2>3, <2>4 DEF Sources!RecordingIsOfSample, r
<1>12. Dated(snapshot.bytes["recording"])'
  BY <1>1, <1>10 DEF Dated
<1>13. Sources!ProductionIsCommitted'
  BY <1>8 DEF Sources!ProductionIsCommitted
<1>14. CaptureInv'
  BY <1>1 DEF ContentInv, CaptureInv
<1> QED BY <1>3, <1>4, <1>5, <1>8, <1>9, <1>11, <1>12, <1>13, <1>14 DEF ContentInv, SnapshotInv

\* Who saves a file leaves what was staged, and says which of it is edited.
LEMMA SaveKeeps ==
  ASSUME ContentInv, NEW f, NEW v, Sources!Save(f, v), files' \in ContentTrees,
         Dated(files'["recording"]), CaptureInv',
         UNCHANGED <<commits, records, tested, snapshot>>, Sources!HEAD' = Sources!HEAD
  PROVE  ContentInv'
<1>1. /\ DOMAIN gen' = GenFields /\ gen'.step = gen.step /\ gen'.bytes = gen.bytes
      /\ gen'.production = gen.production /\ gen'.revision = gen.revision /\ gen'.records = gen.records
      /\ gen'.match = gen.match /\ gen'.labels = gen.labels
      /\ gen'.edited = gen.edited \cup ({f} \cap DOMAIN gen.bytes)
  BY DEF ContentInv, GenTyped, GenFields, Sources!Save
<1>2. GenTyped'
  BY <1>1 DEF ContentInv, GenTyped, Dated
<1>3. ReadInv'
  BY <1>1 DEF ContentInv, ReadInv, Belongs, Dated
<1>4. LabelInv'
  <2>1. \A s \in DOMAIN Sources!Required : Taken(s, records[s])'
    BY DEF ContentInv, LabelInv, Taken
  <2>2. ASSUME gen.step # "idle", NEW s \in DOMAIN Sources!Required PROVE Taken(s, gen.records[s])'
    <3>1. Taken(s, gen.records[s])
      BY <2>2 DEF ContentInv, LabelInv
    <3>2. (gen.records[s])' = gen.records[s]
      BY <1>1
    <3> QED BY ONLY <3>1, <3>2, Sources!HEAD' = Sources!HEAD, UNCHANGED <<commits, tested>> DEF Taken, Sources!Coverings
  <2>3. \A g \in DOMAIN gen'.bytes \ gen'.edited : gen'.bytes[g] = files'[g]
    <3> SUFFICES ASSUME NEW g \in DOMAIN gen.bytes \ gen.edited, g # f PROVE gen.bytes[g] = files'[g]
      BY <1>1
    <3>1. gen.bytes[g] = files[g]
      BY DEF ContentInv, LabelInv
    <3>2. files' = [files EXCEPT ![f] = v]
      BY DEF Sources!Save
    <3>3. DOMAIN files = Sources!Files /\ DOMAIN files' = Sources!Files
      BY TreeHas DEF ContentInv, GenTyped
    <3> QED BY <3>1, <3>2
  <2>4. \A s : Untouched(s)' => Untouched(s)
    BY <1>1 DEF Untouched
  <2>5. \A s \in DOMAIN gen'.labels :
          gen'.labels[s] /\ Untouched(s)' /\ (s = "lesson" => gen'.step \in Labelled)
            => Earned(gen.bytes, s, gen.revision)'
    BY <1>1, <2>4 DEF ContentInv, LabelInv, Earned
  <2>6. \A s, g : Matches(s, g) <=> Matches(s, g)'
    BY <1>1 DEF Matches
  <2>7. gen'.match =>
          /\ gen'.step = "label" /\ "sample" \notin gen'.edited => Matches("sample", "sample")'
          /\ gen'.step \in {"recheck its sample", "label lesson"} /\ "lesson" \notin gen'.edited
                => Matches("lesson", "lesson")'
          /\ gen'.step = "label lesson" /\ "sample" \notin gen'.edited => Matches("lesson", "sample")'
    BY <1>1, <2>6 DEF ContentInv, LabelInv
  <2>8. /\ DOMAIN gen'.labels \subseteq DOMAIN Sources!Required
        /\ gen'.step \in {"guide", "lesson", "sample"} => "sample" \notin DOMAIN gen'.labels
    BY <1>1 DEF ContentInv, LabelInv
  <2> QED BY <1>1, <2>1, <2>2, <2>3, <2>5, <2>7, <2>8 DEF LabelInv
<1>5. SnapshotInv'
  BY DEF ContentInv, SnapshotInv, Sources!ProductionIsCommitted, Sources!LabelsAreEarned,
      Sources!RecordingIsOfSample, Dated
<1> QED BY <1>2, <1>3, <1>4, <1>5 DEF ContentInv

\* What nobody has read again is as it was; who edits the sample or the runtime
\* takes the steadiness from a recording that is being made.
LEMMA EditKeeps ==
  ASSUME ContentInv, NEW f \in Sources!Files \ Sources!Recorded, Sources!Edit(f)
  PROVE  ContentInv'
<1>1. PICK v \in Bytes : Sources!Save(f, v)
  BY DEF Sources!Edit
<1>2. /\ capture' = [capture EXCEPT !.steady = @ /\ f \notin {"sample", "runtime"}]
      /\ UNCHANGED <<commits, records, tested, snapshot>> /\ Sources!HEAD' = Sources!HEAD
  BY DEF Sources!Edit, Sources!Change, Sources!HEAD
<1>3. files' = [files EXCEPT ![f] = v] /\ files \in ContentTrees
  BY <1>1 DEF Sources!Save, ContentInv, GenTyped
<1>4. files' \in ContentTrees
  <2>1. v \in Values
    BY DEF Values
  <2> QED BY <1>3, <2>1, TreeWith DEF Sources!Recorded
<1>5. \A g \in Sources!Files \ {f} : files'[g] = files[g]
  BY <1>3, TreeHas
<1>6. /\ files'["recording"] = files["recording"] /\ files'["transcript"] = files["transcript"]
      /\ f # "sample" => files'["sample"] = files["sample"]
      /\ f # "runtime" => files'["runtime"] = files["runtime"]
  BY <1>5 DEF Sources!Files, Sources!Checked, Sources!Recorded
<1>7. Dated(files'["recording"])
  BY <1>6 DEF ContentInv, GenTyped
<1>8. CaptureInv'
  <2>1. CaptureInv
    BY DEF ContentInv
  <2>2. /\ DOMAIN capture' = CaptureFields /\ capture'.steady = (capture.steady /\ f \notin {"sample", "runtime"})
        /\ capture'.step = capture.step /\ capture'.run = capture.run /\ capture'.sample = capture.sample
        /\ capture'.transcript = capture.transcript /\ capture'.revision = capture.revision
    BY <1>2, <2>1 DEF CaptureInv, CaptureFields
  <2> QED BY <1>2, <1>6, <2>1, <2>2 DEF CaptureInv
<1> QED BY <1>1, <1>2, <1>4, <1>7, <1>8, SaveKeeps

\* A step of the recording script that writes no file concerns the script alone.
LEMMA CaptureOnly ==
  ASSUME ContentInv, UNCHANGED <<files, commits, records, tested, gen, snapshot>>, CaptureInv'
  PROVE  ContentInv'
<1>1. Sources!HEAD' = Sources!HEAD
  BY DEF Sources!HEAD
<1>2. GenTyped' /\ ReadInv'
  BY <1>1 DEF ContentInv, GenTyped, ReadInv, Dated, Belongs
<1>3. LabelInv'
  BY <1>1 DEF ContentInv, LabelInv, Taken, Earned, Matches, Untouched
<1>4. SnapshotInv'
  BY <1>1 DEF ContentInv, SnapshotInv, Sources!ProductionIsCommitted, Sources!LabelsAreEarned,
      Sources!RecordingIsOfSample, Dated
<1> QED BY <1>2, <1>3, <1>4 DEF ContentInv

\* Every step of the script keeps what it knows.
LEMMA CaptureKeeps == ASSUME ContentInv, Sources!Capture PROVE ContentInv'
<1> DEFINE Others == UNCHANGED <<files, commits, records, tested, gen, snapshot>>
<1>0. /\ CaptureInv /\ files \in ContentTrees /\ Sources!HEAD \in Nat \ {0}
      /\ files["sample"] \in Values /\ files["runtime"] \in Values
      /\ DOMAIN capture = CaptureFields
  BY TreeHas DEF ContentInv, GenTyped, CaptureInv
<1>1. ASSUME Sources!StopCapture PROVE ContentInv'
  <2>1. CaptureInv'
    BY <1>1 DEF Sources!StopCapture, CaptureInv, CaptureFields, Sources!NoCapture
  <2> QED BY <1>1, <2>1, CaptureOnly DEF Sources!StopCapture
<1>2. ASSUME Sources!Build PROVE ContentInv'
  <2>1. Others /\ capture' = [Sources!NoCapture EXCEPT !.step = "copy", !.run = Sources!Run(0, files["runtime"])]
    BY <1>2 DEF Sources!Build, Sources!Change
  <2>2. /\ DOMAIN capture' = CaptureFields /\ capture'.step = "copy" /\ capture'.steady = TRUE
        /\ capture'.run.runtime = files["runtime"]
    BY <2>1 DEF Sources!NoCapture, CaptureFields, Sources!Run
  <2>3. CaptureInv'
    BY <1>0, <2>1, <2>2 DEF CaptureInv
  <2> QED BY <2>1, <2>3, CaptureOnly
<1>3. ASSUME Sources!CopySample PROVE ContentInv'
  <2>1. /\ Others /\ capture.step = "copy"
        /\ capture' = [capture EXCEPT !.step = "run", !.run = Sources!Run(files["sample"], @.runtime)]
    BY <1>3 DEF Sources!CopySample
  <2>2. /\ DOMAIN capture' = CaptureFields /\ capture'.step = "run" /\ capture'.steady = capture.steady
        /\ capture'.run = Sources!Run(files["sample"], capture.run.runtime)
    BY <1>0, <2>1 DEF CaptureFields
  <2>3. /\ capture'.run \in Runs /\ capture'.run.sample = files["sample"]
        /\ capture'.run.runtime = capture.run.runtime /\ capture.run.runtime \in Values
    BY <1>0, <2>1, <2>2 DEF CaptureInv, Runs, Sources!Run
  <2>4. CaptureInv'
    BY <1>0, <2>1, <2>2, <2>3 DEF CaptureInv
  <2> QED BY <2>1, <2>4, CaptureOnly
<1>4. ASSUME Sources!RunSample PROVE ContentInv'
  <2>1. /\ capture.step = "run" /\ Sources!Save("transcript", capture.run)
        /\ capture' = [capture EXCEPT !.step = "hash"]
        /\ UNCHANGED <<commits, records, tested, snapshot>> /\ Sources!HEAD' = Sources!HEAD
    BY <1>4 DEF Sources!RunSample, Sources!HEAD
  <2>2. capture.run \in Runs /\ capture.run.runtime \in Values
    BY <1>0, <2>1 DEF CaptureInv
  <2>3. files' = [files EXCEPT !["transcript"] = capture.run]
    BY <2>1 DEF Sources!Save
  <2>4. {"transcript", "recording", "sample", "runtime"} \subseteq Sources!Files
    BY DEF Sources!Files, Sources!Checked
  <2>5. files' \in ContentTrees
    BY <1>0, <2>2, <2>3, <2>4, TreeWith DEF Sources!Recorded
  <2>6. /\ files'["recording"] = files["recording"] /\ files'["transcript"] = capture.run
        /\ files'["sample"] = files["sample"] /\ files'["runtime"] = files["runtime"]
    BY <1>0, <2>3, <2>4, TreeHas
  <2>7. Dated(files'["recording"])
    BY <2>6 DEF ContentInv, GenTyped
  <2>8. /\ DOMAIN capture' = CaptureFields /\ capture'.step = "hash" /\ capture'.steady = capture.steady
        /\ capture'.run = capture.run
    BY <1>0, <2>1 DEF CaptureFields
  <2>9. CaptureInv'
    BY <1>0, <2>1, <2>6, <2>8 DEF CaptureInv
  <2> QED BY <2>1, <2>5, <2>7, <2>9, SaveKeeps
<1>5. ASSUME Sources!HashSources PROVE ContentInv'
  <2>1. /\ Others /\ capture.step = "hash"
        /\ capture' = [capture EXCEPT !.step = "revision", !.sample = files["sample"],
                                      !.transcript = files["transcript"]]
    BY <1>5 DEF Sources!HashSources
  <2>2. /\ DOMAIN capture' = CaptureFields /\ capture'.step = "revision" /\ capture'.steady = capture.steady
        /\ capture'.run = capture.run /\ capture'.sample = files["sample"]
        /\ capture'.transcript = files["transcript"]
    BY <1>0, <2>1 DEF CaptureFields
  <2>3. CaptureInv'
    BY <1>0, <2>1, <2>2 DEF CaptureInv
  <2> QED BY <2>1, <2>3, CaptureOnly
<1>6. ASSUME Sources!PinRevision PROVE ContentInv'
  <2>1. /\ Others /\ capture.step = "revision" /\ Sources!HEAD' = Sources!HEAD
        /\ capture' = [capture EXCEPT !.step = "write", !.revision = Sources!HEAD]
    BY <1>6 DEF Sources!PinRevision, Sources!HEAD
  <2>2. /\ DOMAIN capture' = CaptureFields /\ capture'.step = "write" /\ capture'.steady = capture.steady
        /\ capture'.run = capture.run /\ capture'.sample = capture.sample
        /\ capture'.transcript = capture.transcript /\ capture'.revision = Sources!HEAD
    BY <1>0, <2>1 DEF CaptureFields
  <2>3. Sources!HEAD \in 1..Sources!HEAD'
    BY <1>0, <2>1
  <2>4. CaptureInv'
    BY <1>0, <2>1, <2>2, <2>3 DEF CaptureInv
  <2> QED BY <2>1, <2>4, CaptureOnly
<1>7. ASSUME Sources!WriteRecording PROVE ContentInv'
  <2> DEFINE r == Sources!Recording(capture, files["runtime"])
  <2>1. /\ capture.step = "write" /\ Sources!Save("recording", r) /\ capture' = Sources!NoCapture
        /\ UNCHANGED <<commits, records, tested, snapshot>> /\ Sources!HEAD' = Sources!HEAD
    BY <1>7 DEF Sources!WriteRecording, Sources!HEAD
  <2>2. /\ capture.run \in Runs /\ capture.sample \in Values /\ capture.transcript = capture.run
        /\ capture.revision \in 1..Sources!HEAD /\ capture.steady \in BOOLEAN
        /\ capture.steady => capture.run.sample = capture.sample /\ capture.run.runtime = files["runtime"]
    BY <1>0, <2>1 DEF CaptureInv
  <2>3. r \in Recordings /\ r.revision = capture.revision
    <3>1. capture.steady => capture.run = Sources!Run(capture.sample, files["runtime"])
      BY <2>2 DEF Runs, Sources!Run
    <3> QED BY <1>0, <2>2, <3>1 DEF Recordings, Sources!Recording
  <2> HIDE DEF r
  <2>4. files' = [files EXCEPT !["recording"] = r] /\ "recording" \in Sources!Files
    BY <2>1 DEF Sources!Save, Sources!Files, Sources!Checked
  <2>5. files' \in ContentTrees
    BY <1>0, <2>3, <2>4, TreeWith DEF Sources!Recorded
  <2>6. Dated(files'["recording"])
    <3>1. files'["recording"] = r
      BY <1>0, <2>4, TreeHas
    <3> QED BY <2>2, <2>3, <3>1 DEF Dated
  <2>7. CaptureInv'
    BY <2>1 DEF CaptureInv, CaptureFields, Sources!NoCapture
  <2> QED BY <2>1, <2>5, <2>6, <2>7, SaveKeeps
<1> QED BY <1>1, <1>2, <1>3, <1>4, <1>5, <1>6, <1>7 DEF Sources!Capture

\* A commit adds a revision.
LEMMA CommitKeeps == ASSUME ContentInv, Sources!Commit PROVE ContentInv'
<1>1. /\ commits' = Append(commits, files) /\ UNCHANGED <<files, records, tested, capture, gen, snapshot>>
  BY DEF Sources!Commit, Sources!Change
<1>2. /\ commits' \in Seq(ContentTrees) /\ Sources!HEAD' = Sources!HEAD + 1 /\ Sources!HEAD \in Nat \ {0}
      /\ \A i \in 1..Sources!HEAD : i \in 1..Sources!HEAD' /\ commits'[i] = commits[i]
  BY <1>1 DEF ContentInv, GenTyped, Sources!HEAD
<1>0. /\ \A r : Dated(r) => Dated(r)'
      /\ \A bytes : Dated(bytes["recording"]) /\ Belongs(bytes) => Belongs(bytes)'
  BY <1>2 DEF Dated, Belongs
<1>3. GenTyped'
  BY <1>0, <1>1, <1>2 DEF ContentInv, GenTyped
<1>4. ReadInv'
  <2>1. gen.production => \A f \in DOMAIN gen.bytes \cap Sources!Checked : gen.bytes[f] = commits'[gen.revision][f]
    <3>1. CASE gen.step \in {"idle", "pin"}
      BY <3>1 DEF ContentInv, ReadInv
    <3>2. CASE gen.step \notin {"idle", "pin"}
      BY <1>2, <3>2 DEF ContentInv, ReadInv
    <3> QED BY <3>1, <3>2
  <2>2. gen.step \notin {"idle", "pin"} => gen.revision \in 1..Sources!HEAD'
    BY <1>2 DEF ContentInv, ReadInv
  <2>3. gen.step \in ReadBy["recording"] => Dated(gen.bytes["recording"])'
    BY <1>0, <1>1 DEF ContentInv, ReadInv
  <2>4. gen.step \in Compared => Belongs(gen.bytes)'
    BY <1>0, <1>1 DEF ContentInv, ReadInv, ReadBy
  <2> QED BY <1>1, <2>1, <2>2, <2>3, <2>4 DEF ContentInv, ReadInv
<1>5. ASSUME NEW s, NEW record, Taken(s, record)
      PROVE  \/ record.base = 0
             \/ \E covered \in Sources!Coverings(s) :
                  /\ record \in tested
                  /\ record.base \in 1..Sources!HEAD'
                  /\ record = [base |-> record.base, hashes |-> Sources!Restrict(record.hashes, covered)]
                  /\ s = "guide" => record.hashes["guide"] = commits'[record.base]["guide"]
  BY <1>2, <1>5 DEF Taken
<1>6. \A s \in DOMAIN Sources!Required : Taken(s, records[s])' /\ (gen.step # "idle" => Taken(s, gen.records[s])')
  <2> TAKE s \in DOMAIN Sources!Required
  <2>1. Taken(s, records[s])'
    <3>1. Taken(s, records[s])
      BY DEF ContentInv, LabelInv
    <3> QED BY <1>1, <1>5, <3>1 DEF Taken
  <2>2. gen.step # "idle" => Taken(s, gen.records[s])'
    <3>1. gen.step # "idle" => Taken(s, gen.records[s])
      BY DEF ContentInv, LabelInv
    <3> QED BY <1>1, <1>5, <3>1 DEF Taken
  <2> QED BY <2>1, <2>2
<1>7. LabelInv'
  <2>1. \A s \in DOMAIN gen.labels :
          gen.labels[s] /\ Untouched(s)' /\ (s = "lesson" => gen.step \in Labelled)
            => Earned(gen.bytes, s, gen.revision)'
    BY <1>1 DEF ContentInv, LabelInv, Earned, Untouched
  <2>2. gen.match =>
          /\ gen.step = "label" /\ "sample" \notin gen.edited => Matches("sample", "sample")'
          /\ gen.step \in {"recheck its sample", "label lesson"} /\ "lesson" \notin gen.edited
                => Matches("lesson", "lesson")'
          /\ gen.step = "label lesson" /\ "sample" \notin gen.edited => Matches("lesson", "sample")'
    BY <1>1 DEF ContentInv, LabelInv, Matches
  <2>3. \A f \in DOMAIN gen'.bytes \ gen'.edited : gen'.bytes[f] = files'[f]
    BY <1>1 DEF ContentInv, LabelInv
  <2>4. /\ DOMAIN gen'.labels \subseteq DOMAIN Sources!Required
        /\ gen'.step \in {"guide", "lesson", "sample"} => "sample" \notin DOMAIN gen'.labels
    BY <1>1 DEF ContentInv, LabelInv
  <2> QED BY <1>1, <1>6, <2>1, <2>2, <2>3, <2>4 DEF LabelInv
<1>8. SnapshotInv'
  <2>1. ASSUME snapshot # Sources!Idle
        PROVE  Dated(snapshot.bytes["recording"])' /\ Sources!RecordingIsOfSample'
    <3>1. Dated(snapshot.bytes["recording"]) /\ Sources!RecordingIsOfSample
      BY <2>1 DEF ContentInv, SnapshotInv
    <3>2. LET r == snapshot.bytes["recording"] IN commits'[r.revision] = commits[r.revision]
      BY <1>2, <3>1 DEF Dated
    <3> QED BY <1>0, <1>1, <3>1, <3>2 DEF Sources!RecordingIsOfSample
  <2>2. snapshot.production => snapshot.revision \in 1..Sources!HEAD' /\ commits'[snapshot.revision] = commits[snapshot.revision]
    BY <1>2 DEF ContentInv, SnapshotInv
  <2>3. Sources!ProductionIsCommitted' /\ Sources!LabelsAreEarned'
    BY <1>1, <2>2 DEF ContentInv, SnapshotInv, Sources!ProductionIsCommitted, Sources!LabelsAreEarned
  <2>4. snapshot = Sources!Idle => Sources!RecordingIsOfSample'
    BY <1>1 DEF Sources!RecordingIsOfSample
  <2> QED BY <1>1, <2>1, <2>2, <2>3, <2>4 DEF SnapshotInv
<1>9. CaptureInv'
  BY <1>1, <1>2 DEF ContentInv, CaptureInv
<1> QED BY <1>3, <1>4, <1>7, <1>8, <1>9 DEF ContentInv

\* A record is of a verification that takes place.
LEMMA VerifyKeeps ==
  ASSUME ContentInv, NEW subject \in DOMAIN Sources!Required, NEW covered \in Sources!Coverings(subject),
         Sources!Verify(subject, covered)
  PROVE  ContentInv'
<1>0. PICK record : record = [base |-> Sources!HEAD, hashes |-> Sources!Restrict(files, covered)]
  OBVIOUS
<1>1. /\ records' = [records EXCEPT ![subject] = record] /\ tested' = tested \cup {record}
      /\ subject = "guide" => files["guide"] = commits[Sources!HEAD]["guide"]
      /\ UNCHANGED <<files, commits, capture, gen, snapshot>> /\ Sources!HEAD' = Sources!HEAD
  <2>1. /\ records' = [records EXCEPT ![subject] = record] /\ tested' = tested \cup {record}
    BY <1>0 DEF Sources!Verify
  <2>2. subject = "guide" => files["guide"] = commits[Sources!HEAD]["guide"]
    BY DEF Sources!Verify
  <2>3. UNCHANGED <<files, commits, capture, gen, snapshot>>
    BY DEF Sources!Verify, Sources!Change
  <2> QED BY <2>1, <2>2, <2>3 DEF Sources!HEAD
<1>2. Taken(subject, record)'
  <2>1. record \in tested' /\ record.base = Sources!HEAD
    BY <1>0, <1>1
  <2>2. Sources!HEAD \in 1..Sources!HEAD'
    BY <1>1 DEF ContentInv, GenTyped
  <2>3. record.hashes = Sources!Restrict(record.hashes, covered)
    BY <1>0 DEF Sources!Restrict
  <2>4. subject = "guide" => record.hashes["guide"] = commits'[Sources!HEAD]["guide"]
    <3> SUFFICES ASSUME subject = "guide" PROVE record.hashes["guide"] = commits'[Sources!HEAD]["guide"]
      OBVIOUS
    <3>1. "guide" \in covered
      BY DEF Sources!Coverings, Sources!Required
    <3>2. record.hashes["guide"] = files["guide"]
      BY <1>0, <3>1 DEF Sources!Restrict
    <3> QED BY <1>1, <3>2
  <2>5. record = [base |-> record.base, hashes |-> Sources!Restrict(record.hashes, covered)]
    BY <1>0, <2>3
  <2> QED BY <1>1, <2>1, <2>2, <2>4, <2>5 DEF Taken
<1>3. \A s \in DOMAIN Sources!Required : Taken(s, records[s])'
  <2> TAKE s \in DOMAIN Sources!Required
  <2>1. CASE s = subject
    <3>1. s \in DOMAIN records => records'[s] = record
      BY <1>1, <2>1
    <3>2. s \in DOMAIN records
      BY DEF ContentInv, GenTyped
    <3> QED BY <1>2, <2>1, <3>1, <3>2 DEF Taken
  <2>2. CASE s # subject
    <3>1. records'[s] = records[s]
      BY <1>1, <2>2
    <3>2. Taken(s, records[s])
      BY DEF ContentInv, LabelInv
    <3> QED BY <1>1, <3>1, <3>2 DEF Taken
  <2> QED BY <2>1, <2>2
<1>4. gen.step # "idle" => \A s \in DOMAIN Sources!Required : Taken(s, gen.records[s])'
  BY <1>1 DEF ContentInv, LabelInv, Taken
<1>5. \A s \in DOMAIN Sources!Required : Taken(s, records[s])' /\ (gen.step # "idle" => Taken(s, gen.records[s])')
  BY <1>3, <1>4
<1>6. LabelInv'
  <2>1. \A s \in DOMAIN gen.labels :
          gen.labels[s] /\ Untouched(s) /\ (s = "lesson" => gen.step \in Labelled)
            => Earned(gen.bytes, s, gen.revision)'
    BY <1>1 DEF ContentInv, LabelInv, Earned
  <2> QED BY <1>1, <1>5, <2>1 DEF ContentInv, LabelInv, Matches, Untouched
<1>7. GenTyped' /\ ReadInv' /\ CaptureInv'
  <2>1. DOMAIN records' = DOMAIN Sources!Required
    BY <1>1 DEF ContentInv, GenTyped
  <2> QED BY <1>1, <2>1 DEF ContentInv, GenTyped, ReadInv, CaptureInv, Dated, Belongs
<1>8. SnapshotInv'
  BY <1>1 DEF ContentInv, SnapshotInv, Sources!ProductionIsCommitted, Sources!LabelsAreEarned,
      Sources!RecordingIsOfSample, Dated
<1> QED BY <1>6, <1>7, <1>8 DEF ContentInv

\* Every step keeps it.
LEMMA ContentStep == ContentInv /\ [Sources!Next]_(Sources!vars) => ContentInv'
<1> SUFFICES ASSUME ContentInv, [Sources!Next]_(Sources!vars) PROVE ContentInv'
  OBVIOUS
<1>1. ASSUME Sources!Generate PROVE ContentInv'
  <2>1. \/ Sources!Start \/ Sources!Pin \/ Sources!CheckRecording \/ Sources!CopyAsset \/ Sources!Publish
        \/ Sources!StagePage("guide", "lesson") \/ Sources!StagePage("lesson", "sample")
        \/ Sources!Stage("sample", "transcript") \/ Sources!Stage("transcript", "recheck")
        \/ Sources!Stage("recording", "recorded") \/ Sources!Stage("readme", "publish")
        \/ Sources!Recheck("sample", "sample", "recheck", "label")
        \/ Sources!Recheck("lesson", "lesson", "recheck lesson", "recheck its sample")
        \/ Sources!Recheck("lesson", "sample", "recheck its sample", "label lesson")
        \/ Sources!Label("sample", "label", "recording") \/ Sources!Label("lesson", "label lesson", "image")
    BY <1>1 DEF Sources!Generate
  <2>2. ASSUME \/ Sources!Stage("sample", "transcript") \/ Sources!Stage("transcript", "recheck")
               \/ Sources!Stage("recording", "recorded") \/ Sources!Stage("readme", "publish")
        PROVE  ContentInv'
    BY <2>2, StageKeeps
  <2>3. Sources!StagePage("guide", "lesson") \/ Sources!StagePage("lesson", "sample") => ContentInv'
    BY PageKeeps
  <2>4. ASSUME \/ Sources!Recheck("sample", "sample", "recheck", "label")
               \/ Sources!Recheck("lesson", "lesson", "recheck lesson", "recheck its sample")
               \/ Sources!Recheck("lesson", "sample", "recheck its sample", "label lesson")
        PROVE  ContentInv'
    BY <2>4, RecheckKeeps
  <2>5. Sources!Label("sample", "label", "recording") \/ Sources!Label("lesson", "label lesson", "image") => ContentInv'
    BY LabelKeeps
  <2> QED BY <2>1, <2>2, <2>3, <2>4, <2>5, StartKeeps, PinKeeps, CheckKeeps, CopyKeeps,
      PublishKeeps
<1>2. ASSUME Sources!People PROVE ContentInv'
  BY <1>2, EditKeeps, CommitKeeps, CaptureKeeps, VerifyKeeps DEF Sources!People
<1>3. ASSUME UNCHANGED Sources!vars PROVE ContentInv'
  <2>1. UNCHANGED <<files, commits, records, tested, capture, gen, snapshot>> /\ Sources!HEAD' = Sources!HEAD
    BY <1>3 DEF Sources!vars, Sources!HEAD
  <2>2. CaptureInv'
    BY <2>1 DEF ContentInv, CaptureInv
  <2> QED BY <2>1, <2>2, CaptureOnly
<1> QED BY <1>1, <1>2, <1>3 DEF Sources!Next

\* Whichever part runs, the generation's invariant holds.
LEMMA ContentCorrect == MCSpec => []ContentInv
<1>1. MCInit => ContentInv
  BY ContentInit DEF MCInit
<1>2. [MCNext]_allVars => [Sources!Next]_(Sources!vars)
  BY DEF MCNext, allVars, contentVars, Sources!vars
<1>3. ContentInv /\ [MCNext]_allVars => ContentInv'
  BY <1>2, ContentStep
<1> QED BY <1>1, <1>3, PTL DEF MCSpec

\* For every set of contents and every number of changes, production publishes
\* what its revision committed,
THEOREM CommittedOnly == MCSpec => []ProductionIsCommitted
<1>1. ContentInv => ProductionIsCommitted
  BY DEF ContentInv, SnapshotInv, ProductionIsCommitted
<1> QED BY <1>1, ContentCorrect, PTL

\* shows as verified only what was tested as published, unless what a label reads
\* again was edited after it was staged,
THEOREM LabelsEarned == MCSpec => []LabelsAreEarned
<1>1. ContentInv => LabelsAreEarned
  BY DEF ContentInv, SnapshotInv, LabelsAreEarned
<1> QED BY <1>1, ContentCorrect, PTL

\* and offers the transcript of the run it shows, which was of the sample offered
\* beside it unless that was edited while the run was recorded.
THEOREM RecordingFits == MCSpec => []RecordingIsOfSample
<1>1. ContentInv => RecordingIsOfSample
  BY DEF ContentInv, SnapshotInv, RecordingIsOfSample
<1> QED BY <1>1, ContentCorrect, PTL

(* The release *)

\* Each setting keeps its own invariant.
SettingInv ==
  /\ part = "reruns" => Reruns!CompleteInv
  /\ part = "reverts" => Reverts!CompleteInv
  /\ part \notin {"reruns", "reverts"} => Race!CompleteInv

\* They start alike.
LEMMA SettingInit == MCInit => SettingInv
<1> SUFFICES ASSUME MCInit PROVE SettingInv
  OBVIOUS
<1>1. Race!Init /\ (Reruns!Init <=> Race!Init)
  BY DEF MCInit, Race!Init, Reruns!Init, Race!InitialTree, Reruns!InitialTree,
         Race!Areas, Reruns!Areas, Race!None, Reruns!None
<1>4. Reverts!Init <=> Race!Init
  BY DEF Race!Init, Reverts!Init, Race!InitialTree, Reverts!InitialTree,
         Race!Areas, Reverts!Areas, Race!None, Reverts!None
<1>2. Race!CompleteInv
  BY <1>1, Race!CompleteInit
<1>3. Reruns!CompleteInv
  BY <1>1, Reruns!CompleteInit
<1>5. Reverts!CompleteInv
  BY <1>1, <1>4, Reverts!CompleteInit
<1> QED BY <1>2, <1>3, <1>5 DEF SettingInv

\* One setting takes a step of the release and keeps its invariant, and nothing goes back.
LEMMA SettingStep ==
  ASSUME SettingInv, [MCNext]_allVars
  PROVE  SettingInv' /\ site' >= site /\ redirect' >= redirect /\ edge' >= edge
<1>1. /\ part' = part
      /\ \/ part = "reruns" /\ Reruns!Next
         \/ part = "race" /\ Race!Next
         \/ part = "reverts" /\ Reverts!Next
         \/ UNCHANGED siteVars
  BY DEF MCNext, allVars
<1>2. CASE part = "reruns"
  <2>1. [Reruns!Next]_(Reruns!vars) /\ Reruns!CompleteInv
    BY <1>1, <1>2 DEF siteVars, Reruns!vars, SettingInv
  <2>2. Reruns!CompleteInv'
    BY <2>1, Reruns!CompleteStep
  <2>3. Reruns!ReleaseInv
    BY <2>1 DEF Reruns!CompleteInv
  <2>4. Reruns!Forward
    BY <2>1, <2>3, Reruns!ReleaseStep
  <2> QED BY <1>1, <1>2, <2>2, <2>4 DEF SettingInv, Reruns!Forward
<1>3. CASE part \notin {"reruns", "reverts"}
  <2>1. [Race!Next]_(Race!vars) /\ Race!CompleteInv
    BY <1>1, <1>3 DEF siteVars, Race!vars, SettingInv
  <2>2. Race!CompleteInv'
    BY <2>1, Race!CompleteStep
  <2>3. Race!ReleaseInv
    BY <2>1 DEF Race!CompleteInv
  <2>4. Race!Forward
    BY <2>1, <2>3, Race!ReleaseStep
  <2> QED BY <1>1, <1>3, <2>2, <2>4 DEF SettingInv, Race!Forward
<1>4. CASE part = "reverts"
  <2>1. [Reverts!Next]_(Reverts!vars) /\ Reverts!CompleteInv
    BY <1>1, <1>4 DEF siteVars, Reverts!vars, SettingInv
  <2>2. Reverts!CompleteInv'
    BY <2>1, Reverts!CompleteStep
  <2>3. Reverts!ReleaseInv
    BY <2>1 DEF Reverts!CompleteInv
  <2>4. Reverts!Forward
    BY <2>1, <2>3, Reverts!ReleaseStep
  <2> QED BY <1>1, <1>4, <2>2, <2>4 DEF SettingInv, Reverts!Forward
<1> QED BY <1>2, <1>3, <1>4

\* What every setting promises of a state.
LEMMA SettingPromises == SettingInv => LiveIsQualified /\ SuccessMeansLive /\ GreenMainIsLive
<1>1. ASSUME Race!CompleteInv PROVE LiveIsQualified /\ SuccessMeansLive /\ GreenMainIsLive
  <2>1. Race!LiveIsQualified /\ Race!SuccessMeansLive
    BY <1>1, Race!ReleasePromises DEF Race!CompleteInv
  <2>2. Race!GreenMainIsLive
    BY <1>1, Race!CompleteIsLive
  <2> QED BY <2>1, <2>2 DEF LiveIsQualified, SuccessMeansLive, GreenMainIsLive
<1>2. ASSUME Reruns!CompleteInv PROVE LiveIsQualified /\ SuccessMeansLive /\ GreenMainIsLive
  <2>1. Reruns!LiveIsQualified /\ Reruns!SuccessMeansLive
    BY <1>2, Reruns!ReleasePromises DEF Reruns!CompleteInv
  <2>2. Reruns!GreenMainIsLive
    BY <1>2, Reruns!CompleteIsLive
  <2>3. LiveIsQualified /\ SuccessMeansLive
    BY <2>1 DEF LiveIsQualified, SuccessMeansLive, Reruns!LiveIsQualified, Race!LiveIsQualified,
                Reruns!SuccessMeansLive, Race!SuccessMeansLive
  <2>4. /\ Reruns!Quiet <=> Race!Quiet
        /\ \A rev : Reruns!Green(rev) <=> Race!Green(rev)
        /\ \A rev : Reruns!SiteContent(rev) = Race!SiteContent(rev)
        /\ Reruns!MainHead = Race!MainHead
    BY DEF Reruns!Quiet, Race!Quiet, Reruns!Green, Race!Green, Reruns!SiteContent,
           Race!SiteContent, Reruns!MainHead, Race!MainHead, Reruns!Areas, Race!Areas
  <2>5. Reruns!WentBack <=> Race!WentBack
    BY <2>4 DEF Reruns!WentBack, Race!WentBack
  <2>6. GreenMainIsLive
    BY <2>2, <2>4, <2>5 DEF GreenMainIsLive, Reruns!GreenMainIsLive, Race!GreenMainIsLive
  <2> QED BY <2>3, <2>6
<1>3. ASSUME Reverts!CompleteInv PROVE LiveIsQualified /\ SuccessMeansLive /\ GreenMainIsLive
  <2>1. Reverts!LiveIsQualified /\ Reverts!SuccessMeansLive
    BY <1>3, Reverts!ReleasePromises DEF Reverts!CompleteInv
  <2>2. Reverts!GreenMainIsLive
    BY <1>3, Reverts!CompleteIsLive
  <2>3. LiveIsQualified /\ SuccessMeansLive
    BY <2>1 DEF LiveIsQualified, SuccessMeansLive, Reverts!LiveIsQualified, Race!LiveIsQualified,
                Reverts!SuccessMeansLive, Race!SuccessMeansLive
  <2>4. /\ Reverts!Quiet <=> Race!Quiet
        /\ \A rev : Reverts!Green(rev) <=> Race!Green(rev)
        /\ \A rev : Reverts!SiteContent(rev) = Race!SiteContent(rev)
        /\ Reverts!MainHead = Race!MainHead
    BY DEF Reverts!Quiet, Race!Quiet, Reverts!Green, Race!Green, Reverts!SiteContent,
           Race!SiteContent, Reverts!MainHead, Race!MainHead, Reverts!Areas, Race!Areas
  <2>5. Reverts!WentBack <=> Race!WentBack
    BY <2>4 DEF Reverts!WentBack, Race!WentBack
  <2>6. GreenMainIsLive
    BY <2>2, <2>4, <2>5 DEF GreenMainIsLive, Reverts!GreenMainIsLive, Race!GreenMainIsLive
  <2> QED BY <2>3, <2>6
<1> QED BY <1>1, <1>2, <1>3 DEF SettingInv

\* Of the settings, the one that runs goes on by its own steps.
LEMMA SettingCorrect == MCSpec => []SettingInv
<1>1. SettingInv /\ [MCNext]_allVars => SettingInv'
  BY SettingStep
<1> QED BY <1>1, SettingInit, PTL DEF MCSpec

\* In every setting what visitors are served has passed the framework jobs,
THEOREM LiveQualified == MCSpec => []LiveIsQualified
BY SettingCorrect, SettingPromises, PTL

\* a publication recorded as successful is live,
THEOREM SuccessLive == MCSpec => []SuccessMeansLive
BY SettingCorrect, SettingPromises, PTL

\* a green main with nothing under way is what visitors see, also after a revert unless a
\* run since the live revision has failed,
THEOREM GreenLive == MCSpec => []GreenMainIsLive
BY SettingCorrect, SettingPromises, PTL

\* and nothing live goes back to an older revision.
THEOREM NeverBack == MCSpec => LiveNeverGoesBack
<1>1. SettingInv /\ [MCNext]_allVars =>
        [site' >= site /\ redirect' >= redirect /\ edge' >= edge]_(Race!vars)
  BY SettingStep
<1> QED BY <1>1, SettingCorrect, PTL DEF MCSpec, LiveNeverGoesBack, Race!LiveNeverGoesBack

(* What the generator accepts *)

\* Where the entries may lead.
ConfigTyped ==
  /\ DOMAIN manifest = Config!Docs
  /\ \A d \in Config!Docs : manifest[d].route \in Config!Routes \cup {Config!NoEntry}
  /\ DOMAIN assets = Config!Files
  /\ \A f \in Config!Files : assets[f] \in {Config!Media, Config!NoEntry}
  /\ \A x \in example : x.path \in Config!Paths
  /\ public \subseteq {Config!Media} \cup Config!Paths

\* The first configuration leads there.
LEMMA ConfigInit == Config!Init => ConfigTyped
<1> SUFFICES ASSUME Config!Init PROVE ConfigTyped
  OBVIOUS
<1>1. /\ DOMAIN manifest = Config!Docs
      /\ \A d \in Config!Docs : manifest[d].route \in Config!Routes \cup {Config!NoEntry}
  BY DEF Config!Init, Config!Docs, Config!Routes, Config!Unpublished, Config!NoEntry
<1>2. /\ DOMAIN assets = Config!Files
      /\ \A f \in Config!Files : assets[f] \in {Config!Media, Config!NoEntry}
  BY DEF Config!Init
<1>3. \A x \in example : x.path \in Config!Paths
  BY DEF Config!Init, Config!Paths
<1>4. public = {}
  BY DEF Config!Init
<1> QED BY <1>1, <1>2, <1>3, <1>4 DEF ConfigTyped

\* An edit leads there too.
LEMMA ConfigStep == ConfigTyped /\ [Config!Next]_(Config!vars) => ConfigTyped'
<1> SUFFICES ASSUME ConfigTyped, [Config!Next]_(Config!vars) PROVE ConfigTyped'
  OBVIOUS
<1>1. ASSUME UNCHANGED <<manifest, assets, example, public>> PROVE ConfigTyped'
  BY <1>1 DEF ConfigTyped
<1>2. ASSUME NEW d \in Config!Docs, Config!SetPage(d) PROVE ConfigTyped'
  <2>1. PICK entry : /\ entry.route \in Config!Routes \cup {Config!NoEntry}
                     /\ manifest' = [manifest EXCEPT ![d] = entry]
    BY <1>2 DEF Config!SetPage, Config!NoPage
  <2>2. UNCHANGED <<assets, example, public>>
    BY <1>2 DEF Config!SetPage
  <2> QED BY <2>1, <2>2 DEF ConfigTyped
<1>3. ASSUME Config!MapAsset PROVE ConfigTyped'
  <2>1. PICK f, a : a \in {Config!Media, Config!NoEntry} /\ assets' = [assets EXCEPT ![f] = a]
    BY <1>3 DEF Config!MapAsset
  <2>2. UNCHANGED <<manifest, example, public>>
    BY <1>3 DEF Config!MapAsset
  <2> QED BY <2>1, <2>2 DEF ConfigTyped
<1>4. ASSUME Config!Offer PROVE ConfigTyped'
  <2>1. PICK x : /\ x.path \in Config!Paths \/ x \in example
                 /\ example' = IF x \in example THEN example \ {x} ELSE example \cup {x}
    BY <1>4 DEF Config!Offer, Config!Paths
  <2>2. UNCHANGED <<manifest, assets, public>>
    BY <1>4 DEF Config!Offer
  <2> QED BY <2>1, <2>2 DEF ConfigTyped
<1>5. ASSUME Config!Author PROVE ConfigTyped'
  <2>1. PICK a \in {Config!Media} \cup {Config!Href(p) : p \in Config!Paths} : public' = public \cup {a}
    BY <1>5 DEF Config!Author
  <2>2. a \in {Config!Media} \cup Config!Paths
    BY <2>1 DEF Config!Href, Config!Paths
  <2>3. UNCHANGED <<manifest, assets, example>>
    BY <1>5 DEF Config!Author
  <2> QED BY <2>1, <2>2, <2>3 DEF ConfigTyped
<1>6. ASSUME Config!SetRule \/ Config!Link \/ Config!Lead \/ Config!Untrack
      PROVE  UNCHANGED <<manifest, assets, example, public>>
  BY <1>6 DEF Config!SetRule, Config!Link, Config!Lead, Config!Untrack
<1>7. CASE UNCHANGED Config!vars
  BY <1>1, <1>7 DEF Config!vars
<1> QED BY <1>1, <1>2, <1>3, <1>4, <1>5, <1>6, <1>7 DEF Config!Next

\* No directory rule approves a copy: the file has a rule of its own.
LEMMA CopyHasRule ==
  ASSUME Config!ValidRules, NEW f, Config!Disposition(f) \in {"media", "example-download"}
  PROVE  f \in tracked /\ rules[f] = Config!Disposition(f)
<1> DEFINE over == {d \in DOMAIN Config!Below : directories[d] # Config!NoEntry /\ f \in Config!Below[d]}
<1>1. over # {} => directories[CHOOSE d \in over : TRUE] = "repository-only"
  <2> SUFFICES ASSUME over # {} PROVE directories[CHOOSE d \in over : TRUE] = "repository-only"
    OBVIOUS
  <2>1. PICK e : e = CHOOSE d \in over : TRUE
    OBVIOUS
  <2>2. e \in over
    BY <2>1
  <2> QED BY <2>1, <2>2 DEF Config!ValidRules, Config!DirectoryDispositions
<1> QED BY <1>1 DEF Config!Disposition, Config!NoEntry

\* What is accepted has its approvals.
LEMMA Approved == Config!CopiesAreApproved
<1> SUFFICES ASSUME Config!Accepted
             PROVE  /\ \A f \in Config!Downloads : f \in tracked /\ rules[f] = "example-download"
                    /\ \A f \in Config!Mapped : f \in tracked /\ rules[f] = "media"
  BY DEF Config!CopiesAreApproved
<1>1. /\ Config!ValidRules
      /\ \A f \in Config!Files :
           /\ Config!Disposition(f) = "example-download" <=> f \in Config!Downloads
           /\ Config!Disposition(f) = "media" <=> f \in Config!Mapped
  BY DEF Config!Accepted, Config!SupplementalInventory
<1>2. Config!Downloads \subseteq Config!Files
  BY DEF Config!Accepted, Config!ValidateExampleSelection, Config!Files
<1>3. Config!Mapped \subseteq Config!Files
  BY DEF Config!Mapped
<1>4. ASSUME NEW f \in Config!Downloads PROVE f \in tracked /\ rules[f] = "example-download"
  <2>1. Config!Disposition(f) = "example-download"
    BY <1>1, <1>2
  <2> QED BY <1>1, <2>1, CopyHasRule
<1>5. ASSUME NEW f \in Config!Mapped PROVE f \in tracked /\ rules[f] = "media"
  <2>1. Config!Disposition(f) = "media"
    BY <1>1, <1>3
  <2> QED BY <1>1, <2>1, CopyHasRule
<1> QED BY <1>4, <1>5

\* Each kind of owner of an address.
LEMMA OwnerKinds ==
  ASSUME NEW address
  PROVE  /\ \A d \in Config!RenderedDocs : manifest[d].route = address => Config!Owners(address) # {}
         /\ \A x \in example : Config!Href(x.path) = address => Config!Owners(address) # {}
         /\ \A f \in Config!Mapped : assets[f] = address => Config!Owners(address) # {}
<1>1. ASSUME NEW d \in Config!RenderedDocs, manifest[d].route = address PROVE Config!Owners(address) # {}
  <2>1. [page |-> d] \in Config!Owners(address)
    BY <1>1 DEF Config!Owners
  <2> QED BY <2>1
<1>2. ASSUME NEW x \in example, Config!Href(x.path) = address PROVE Config!Owners(address) # {}
  <2>1. [download |-> x] \in Config!Owners(address)
    BY <1>2 DEF Config!Owners
  <2> QED BY <2>1
<1>3. ASSUME NEW f \in Config!Mapped, assets[f] = address PROVE Config!Owners(address) # {}
  <2>1. [asset |-> f] \in Config!Owners(address)
    BY <1>3 DEF Config!Owners
  <2> QED BY <2>1
<1> QED BY <1>1, <1>2, <1>3

\* What is accepted passes the check of the output.
LEMMA Served == Config!LinksAreServed
<1> SUFFICES ASSUME Config!Accepted PROVE Config!OutputChecked
  BY DEF Config!LinksAreServed
<1>1. ASSUME NEW d \in Config!RenderedDocs, NEW link \in links[d], Config!Destination(link) # "repository"
      PROVE  Config!Owners(Config!Destination(link)) # {}
  <2> DEFINE f == link.target
  <2>1. Config!Resolvable(link)
    BY DEF Config!Accepted, Config!TransformMarkdown
  <2>2. CASE link.image
    BY <2>1, <2>2, OwnerKinds DEF Config!Resolvable, Config!Destination
  <2>3. CASE ~link.image /\ f \in Config!RoutedDocs
    BY <2>3, OwnerKinds DEF Config!Destination, Config!RoutedDocs
  <2>4. CASE ~link.image /\ f \notin Config!RoutedDocs /\ f \in Config!Mapped
    BY <2>4, OwnerKinds DEF Config!Destination
  <2>5. CASE ~link.image /\ f \notin Config!RoutedDocs /\ f \notin Config!Mapped
    <3>1. /\ f \in {x.source : x \in Config!Offered}
          /\ Config!Destination(link) = Config!Href((CHOOSE x \in Config!Offered : x.source = f).path)
      BY <1>1, <2>5 DEF Config!Destination
    <3>2. PICK y : y = CHOOSE x \in Config!Offered : x.source = f
      OBVIOUS
    <3>3. y \in Config!Offered
      BY <3>1, <3>2
    <3>4. y \in example
      BY <3>3 DEF Config!Offered
    <3> QED BY <3>1, <3>2, <3>4, OwnerKinds
  <2> QED BY <2>2, <2>3, <2>4, <2>5
<1>2. \A d \in Config!RenderedDocs : \A n \in Config!Neighbors(d) : Config!Owners(manifest[n].route) # {}
  BY OwnerKinds DEF Config!Accepted, Config!PageMetadata
<1>3. \A d \in reader.capability : Config!Owners(manifest[d].route) # {}
  BY OwnerKinds DEF Config!Accepted, Config!CapabilityCoverage
<1> QED BY <1>1, <1>2, <1>3 DEF Config!OutputChecked

\* The addresses of pages, of downloads and of assets differ, and none is written twice.
LEMMA OwnersAgree ==
  ASSUME ConfigTyped, Config!Accepted, NEW address \in Config!Routes \cup {Config!Media} \cup Config!Paths,
         NEW o \in Config!Owners(address), NEW p \in Config!Owners(address)
  PROVE  o = p
<1> DEFINE pages == {d \in Config!RenderedDocs : manifest[d].route = address}
           downloads == {x \in example : Config!Href(x.path) = address}
           media == {f \in Config!Mapped : assets[f] = address}
           Owner(q) == \/ \E d \in pages : q = [page |-> d]
                       \/ \E x \in downloads : q = [download |-> x]
                       \/ \E f \in media : q = [asset |-> f]
                       \/ address \in public /\ q = [authored |-> address]
<1>1. Owner(o) /\ Owner(p)
  BY DEF Config!Owners
<1>2. \A d, e \in pages : d = e
  BY DEF Config!Accepted, Config!ValidateManifest
<1>3. \A x, y \in downloads : x = y
  BY DEF Config!Accepted, Config!WrittenOnce
<1>4. \A f, g \in media : f = g
  BY DEF Config!Accepted, Config!CopyAssets
<1>5. pages # {} => address \in Config!Routes
  <2>1. Config!NoEntry \notin Config!Routes \cup {Config!Media} \cup Config!Paths
    BY DEF Config!NoEntry, Config!Routes, Config!Media, Config!Paths
  <2> QED BY <2>1 DEF ConfigTyped, Config!RenderedDocs
<1>6. downloads # {} => address \in Config!Paths
  BY DEF ConfigTyped, Config!Href, Config!Paths
<1>7. media # {} => address = Config!Media
  BY DEF ConfigTyped, Config!Mapped
<1>8. address \in public => address \in {Config!Media} \cup Config!Paths
  BY DEF ConfigTyped
<1>9. address \in public => downloads = {} /\ media = {}
  BY DEF Config!Accepted, Config!WrittenOnce, Config!CopyAssets
<1>10. /\ Config!Routes \cap ({Config!Media} \cup Config!Paths) = {}
       /\ Config!Media \notin Config!Paths
  BY DEF Config!Routes, Config!Media, Config!Paths
<1> HIDE DEF pages, downloads, media
<1> QED BY <1>1, <1>2, <1>3, <1>4, <1>5, <1>6, <1>7, <1>8, <1>9, <1>10

\* An address has one owner.
LEMMA OwnedOnce == ConfigTyped => Config!OneOwner
<1> SUFFICES ASSUME ConfigTyped, Config!Accepted,
                    NEW address \in Config!Routes \cup {Config!Media} \cup Config!Paths
             PROVE  Cardinality(Config!Owners(address)) <= 1
  BY DEF Config!OneOwner, Config!Cardinality, Cardinality
<1>1. CASE Config!Owners(address) = {}
  BY <1>1, FS_EmptySet
<1>2. ASSUME NEW o \in Config!Owners(address) PROVE Cardinality(Config!Owners(address)) <= 1
  <2>1. Config!Owners(address) = {o}
    BY OwnersAgree
  <2>2. Cardinality({o}) = 1
    BY FS_Singleton
  <2> QED BY <2>1, <2>2
<1> QED BY <1>1, <1>2

\* Every configuration leads where it may.
LEMMA ConfigCorrect == MCSpec => []ConfigTyped
<1>1. MCInit => ConfigTyped
  BY ConfigInit DEF MCInit
<1>2. [MCNext]_allVars => [Config!Next]_(Config!vars)
  BY DEF MCNext, allVars, configVars, Config!vars
<1>3. ConfigTyped /\ [MCNext]_allVars => ConfigTyped'
  BY <1>2, ConfigStep
<1> QED BY <1>1, <1>3, PTL DEF MCSpec

\* However many entries are edited, what is copied has an approval of its own,
THEOREM CopiesApproved == MCSpec => []CopiesAreApproved
<1>1. CopiesAreApproved
  BY Approved DEF CopiesAreApproved
<1> QED BY <1>1, PTL

\* and every link of the output is served by one owner of its address.
THEOREM LinksServed == MCSpec => []LinksAreServed
<1>1. ConfigTyped => LinksAreServed
  BY Served, OwnedOnce DEF LinksAreServed
<1> QED BY <1>1, ConfigCorrect, PTL
=============================================================================
