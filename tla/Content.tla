------------------------------ MODULE Content ------------------------------
(***************************************************************************)
(* One generation of the website's content (website/scripts/content.mjs    *)
(* with provenance.mjs, examples.mjs and applications.mjs) while people    *)
(* edit, commit, verify and record the sources.  The generator reads one   *)
(* file at a time, some of them twice, and pins HEAD once.  Whoever        *)
(* records runs record-showcase.py, which copies the sample, runs it,      *)
(* writes the transcript of the run and, of the sources as they are by     *)
(* then, the hashes of recording.json.                                     *)
(*                                                                         *)
(* There is one file of each class the generator treats differently; what  *)
(* it accepts of the configuration is the module Publication's subject,    *)
(* and how the result replaces the last one SnapshotPublish's.             *)
(***************************************************************************)
EXTENDS Naturals, Sequences, Functions

CONSTANTS
  Versions,     \* the bytes a file may have
  MaxChanges    \* bound: edits, commits, verifications and recordings

Pages == {"guide", "lesson"}
Checked == Pages \cup {"sample", "transcript", "recording", "readme"}
Files == Checked \cup {"image", "runtime"}

\* What the recording script writes.
Recorded == {"transcript", "recording"}

\* The sources a verification record must cover.
Required == [guide |-> {"guide"}, lesson |-> {"lesson", "sample"}, sample |-> {"sample"}]

VARIABLES
  files,      \* the working tree
  commits,    \* the committed trees; a revision is an index, HEAD the last
  records,    \* config: the verification record of each subject
  tested,     \* every verification that took place (history)
  capture,    \* the running recording script
  gen,        \* the running generation
  snapshot,   \* what the last complete generation published
  changes     \* bound

vars == <<files, commits, records, tested, capture, gen, snapshot, changes>>
sources == <<files, commits, records, tested, capture, changes>>

HEAD == Len(commits)

\* f with the value v for x.
With(f, x, v) == [y \in DOMAIN f \cup {x} |-> IF y = x THEN v ELSE f[y]]

NoRecord == [base |-> 0, hashes |-> << >>]
\* edited (history) has the files that were edited after they were staged.
Idle == [step |-> "idle", production |-> FALSE, revision |-> 0, records |-> << >>,
         bytes |-> << >>, labels |-> << >>, match |-> TRUE, runtimeChanged |-> FALSE,
         edited |-> {}]

\* steady (history): nobody has edited the sample or the runtime since the script began.
NoCapture == [step |-> "none", run |-> << >>, sample |-> 0, transcript |-> << >>,
              revision |-> 0, steady |-> TRUE]

\* A run is of the sample that was copied, with the runtime that was built.
Run(sample, runtime) == [sample |-> sample, runtime |-> runtime]

\* recording.json: the run in its requests and responses, the hashes and the revision.
Recording(c, runtime) ==
  [run |-> c.run, sample |-> c.sample, transcript |-> c.transcript,
   revision |-> c.revision, runtime |-> runtime, steady |-> c.steady]

Init ==
  /\ LET v == CHOOSE v \in Versions : TRUE
         run == Run(v, v)
         done == [NoCapture EXCEPT !.run = run, !.sample = v, !.transcript = run, !.revision = 1]
     IN files = [f \in Files |-> CASE f = "transcript" -> run
                                  [] f = "recording" -> Recording(done, v)
                                  [] OTHER -> v]
  /\ commits = <<files>>
  /\ records = [s \in DOMAIN Required |-> NoRecord]
  /\ tested = {}
  /\ capture = NoCapture
  /\ gen = Idle
  /\ snapshot = Idle
  /\ changes = 0

(* People *)

Change ==
  /\ changes < MaxChanges
  /\ changes' = changes + 1
  /\ UNCHANGED snapshot

\* A file gets new bytes, perhaps after a generation has staged the old ones.
Save(f, v) ==
  /\ files' = [files EXCEPT ![f] = v]
  /\ gen' = [gen EXCEPT !.edited = @ \cup ({f} \cap DOMAIN gen.bytes)]

\* Saving, or restoring, one file, perhaps one that is being recorded.
Edit(f) ==
  /\ Change
  /\ \E v \in Versions \ {files[f]} : Save(f, v)
  /\ capture' = [capture EXCEPT !.steady = @ /\ f \notin {"sample", "runtime"}]
  /\ UNCHANGED <<commits, records, tested>>

Commit ==
  /\ Change
  /\ files # commits[HEAD]
  /\ commits' = Append(commits, files)
  /\ UNCHANGED <<files, records, tested, capture, gen>>

\* What a verification may cover: a lesson's may leave out the sample.
Coverings(subject) == {{subject}, Required[subject]}

\* Somebody tests a subject at HEAD and records what was tested.  The record of
\* a guide names a commit alone.
Verify(subject, covered) ==
  /\ Change
  /\ subject = "guide" => files["guide"] = commits[HEAD]["guide"]
  /\ LET record == [base |-> HEAD, hashes |-> Restrict(files, covered)]
     IN /\ records' = [records EXCEPT ![subject] = record]
        /\ tested' = tested \cup {record}
  /\ UNCHANGED <<files, commits, capture, gen>>

(* record-showcase.py *)

\* dune build.
Build ==
  /\ Change
  /\ capture.step = "none"
  /\ capture' = [NoCapture EXCEPT !.step = "copy", !.run = Run(0, files["runtime"])]
  /\ UNCHANGED <<files, commits, records, tested, gen>>

\* The sample goes to a private directory.
CopySample ==
  /\ capture.step = "copy"
  /\ capture' = [capture EXCEPT !.step = "run", !.run = Run(files["sample"], @.runtime)]
  /\ UNCHANGED <<files, commits, records, tested, gen, snapshot, changes>>

\* The agent runs there and its transcript is written.
RunSample ==
  /\ capture.step = "run"
  /\ Save("transcript", capture.run)
  /\ capture' = [capture EXCEPT !.step = "hash"]
  /\ UNCHANGED <<commits, records, tested, snapshot, changes>>

\* The hashes are of the sources as they are now, not of the copies.
HashSources ==
  /\ capture.step = "hash"
  /\ capture' = [capture EXCEPT !.step = "revision", !.sample = files["sample"],
                                !.transcript = files["transcript"]]
  /\ UNCHANGED <<files, commits, records, tested, gen, snapshot, changes>>

PinRevision ==
  /\ capture.step = "revision"
  /\ capture' = [capture EXCEPT !.step = "write", !.revision = HEAD]
  /\ UNCHANGED <<files, commits, records, tested, gen, snapshot, changes>>

\* The sources of the runtime are hashed and recording.json is written.
WriteRecording ==
  /\ capture.step = "write"
  /\ Save("recording", Recording(capture, files["runtime"]))
  /\ capture' = NoCapture
  /\ UNCHANGED <<commits, records, tested, snapshot, changes>>

\* The run fails or times out, an assertion of the script does not hold, or it dies.
StopCapture ==
  /\ capture.step # "none"
  /\ capture' = NoCapture
  /\ UNCHANGED <<files, commits, records, tested, gen, snapshot, changes>>

Capture ==
  \/ Build \/ CopySample \/ RunSample \/ HashSources \/ PinRevision \/ WriteRecording
  \/ StopCapture

(* The generator *)

\* generate reads its configuration, then gitFacts pins HEAD.
Start ==
  /\ gen.step = "idle"
  /\ \E production \in BOOLEAN :
       gen' = [Idle EXCEPT !.step = "pin", !.production = production, !.records = records]
  /\ UNCHANGED <<sources, snapshot>>

Pin ==
  /\ gen.step = "pin"
  /\ gen' = [gen EXCEPT !.step = "guide", !.revision = HEAD]
  /\ UNCHANGED <<sources, snapshot>>

\* Mutant: the tree of HEAD as it is now.
ModifiedSinceHead(f) == files[f] # commits[HEAD][f]

\* facts.source: the bytes that were read against those of the pinned revision.
SourceModified(f) == files[f] # commits[gen.revision][f]

Abort == gen' = Idle /\ UNCHANGED <<sources, snapshot>>

\* Reads and stages a file; production refuses bytes that are not committed.
Stage(f, next) ==
  /\ gen.step = f
  /\ IF gen.production /\ SourceModified(f) THEN Abort
     ELSE /\ gen' = [gen EXCEPT !.step = next, !.bytes = With(gen.bytes, f, files[f])]
          /\ UNCHANGED <<sources, snapshot>>

\* Mutant: the label of a page says nothing of local edits.
CurrentAnyway(p) == gen.records[p].base = gen.revision

\* effectiveVerification of a page, from its verified commit.
PageIsCurrent(p) == ~SourceModified(p) /\ gen.records[p].base = gen.revision

StagePage(p, next) ==
  /\ gen.step = p
  /\ IF gen.production /\ SourceModified(p) THEN Abort
     ELSE /\ gen' = [gen EXCEPT !.step = next, !.bytes = With(gen.bytes, p, files[p]),
                                !.labels = With(gen.labels, p, PageIsCurrent(p))]
          /\ UNCHANGED <<sources, snapshot>>

\* Mutant: a record need not cover every source.
AnyCoverage(subject) == TRUE

CoverageComplete(subject) == Required[subject] \subseteq DOMAIN gen.records[subject].hashes

\* effectiveVerification reads one recorded source again.
Recheck(subject, f, step, next) ==
  /\ gen.step = step
  /\ LET hashes == gen.records[subject].hashes
         match == gen.match /\ (f \in DOMAIN hashes => hashes[f] = files[f])
     IN gen' = [gen EXCEPT !.step = next, !.match = match]
  /\ UNCHANGED <<sources, snapshot>>

\* effectiveVerification ends: its state, for a tutorial in place of the page's.
Label(subject, step, next) ==
  /\ gen.step = step
  /\ LET current == /\ gen.records[subject].base = gen.revision
                    /\ CoverageComplete(subject) /\ gen.match
     IN gen' = [gen EXCEPT !.step = next, !.match = TRUE,
                           !.labels = With(gen.labels, subject, current)]
  /\ UNCHANGED <<sources, snapshot>>

\* Mutant: the recording is compared with the sources on disk.
FreshOnDisk(recording) == \A f \in {"sample", "transcript"} : recording[f] = files[f]

\* The hashes of the recording are those of the bytes that were staged for download.
Fresh(recording) == \A f \in {"sample", "transcript"} : recording[f] = gen.bytes[f]

\* applicationReport: the recording's runtime is the one of its own revision.
CheckRecording ==
  /\ gen.step = "recorded"
  /\ LET recording == gen.bytes["recording"]
     IN IF /\ commits[recording.revision]["runtime"] = recording.runtime
           /\ Fresh(recording)
        THEN /\ gen' = [gen EXCEPT !.step = "recheck lesson",
                                   !.runtimeChanged = files["runtime"] # recording.runtime]
             /\ UNCHANGED <<sources, snapshot>>
        ELSE Abort

\* An approved asset is copied, whatever the environment.
CopyAsset ==
  /\ gen.step = "image"
  /\ gen' = [gen EXCEPT !.step = "readme", !.bytes = With(gen.bytes, "image", files["image"])]
  /\ UNCHANGED <<sources, snapshot>>

Publish ==
  /\ gen.step = "publish"
  /\ snapshot' = gen
  /\ gen' = Idle
  /\ UNCHANGED sources

Generate ==
  \/ Start \/ Pin
  \/ StagePage("guide", "lesson") \/ StagePage("lesson", "sample")
  \/ Stage("sample", "transcript") \/ Stage("transcript", "recheck")
  \/ Recheck("sample", "sample", "recheck", "label")
  \/ Label("sample", "label", "recording")
  \/ Stage("recording", "recorded") \/ CheckRecording
  \/ Recheck("lesson", "lesson", "recheck lesson", "recheck its sample")
  \/ Recheck("lesson", "sample", "recheck its sample", "label lesson")
  \/ Label("lesson", "label lesson", "image")
  \/ CopyAsset \/ Stage("readme", "publish") \/ Publish

People ==
  \/ \E f \in Files \ Recorded : Edit(f)
  \/ Commit \/ Capture
  \/ \E s \in DOMAIN Required : \E covered \in Coverings(s) : Verify(s, covered)

Next == Generate \/ People

Spec == Init /\ [][Next]_vars

(* Properties *)

\* What production publishes of the documents, samples, recording and homepage
\* is what the revision it names committed, whatever is edited or committed
\* while it is generated (website/README.md:107-108, production generation
\* rejects uncommitted published source bytes).
ProductionIsCommitted ==
  snapshot.production =>
    \A f \in Checked : snapshot.bytes[f] = commits[snapshot.revision][f]

\* What is shown as verified was tested with the bytes that are published, all of
\* them, at the revision that is named (website/README.md:110-111), unless a file
\* that the label reads again, as a guide's does not, was edited since it was staged.
LabelsAreEarned ==
  \A s \in DOMAIN snapshot.labels :
    snapshot.labels[s] /\ Required[s] \cap snapshot.edited \subseteq {"guide"} =>
      [base |-> snapshot.revision, hashes |-> Restrict(snapshot.bytes, Required[s])] \in tested

\* The transcript that is offered is the one of the recorded run, although the two
\* are written and read on their own (planning/application-ui-review.md:33); and that
\* run was of the sample that is offered beside it, with the runtime of the revision
\* it names, unless one of them was edited while it was recorded.
RecordingIsOfSample ==
  snapshot # Idle =>
    LET recording == snapshot.bytes["recording"]
    IN /\ snapshot.bytes["transcript"] = recording.run
       /\ recording.steady =>
            recording.run = Run(snapshot.bytes["sample"], commits[recording.revision]["runtime"])
=============================================================================
