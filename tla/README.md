# Verification of Ochat

Ochat (`src/`, OCaml and JavaScript) is a toolkit for agent workflows: the ChatMarkdown and
ChatML languages, a terminal client, an agent server whose daemon owns long-running sessions,
and a documentation website with the continuous integration that tests and publishes both.
Two parts have a concurrency and failure story of their own:

- the **server**: a session is a journal, a set of checkpoints, an actor that is the only
  writer of its state, and clients that come, lose their connection and come back;
- the **website and its release**: a generator that reads sources while people edit them, a
  directory swapped under a reader, a search worker that answers late or never, and workflow
  runs that overlap on their way to one public site.

This directory holds TLA+ models of these parts, TLC configurations that check them on small
instances, and theorems proved for every value of the constants.

## The system

| Component | State | Operations | Interacts with |
|---|---|---|---|
| Session journal (`agent_store/journal*.ml`, `frame.ml`) | segment files, `journal/CURRENT`, the current segment and its frame and byte counts | create, open, append, rotate, scan, repair a tail, prune, seal a checkpoint boundary | called by the commit writer, recovery and retention |
| Session checkpoints (`agent_store/snapshot.ml`) | checkpoint files, `snapshot/CURRENT` | install, load with fallback, check, prune with a floor | called by the actor through the persistence adapter |
| Recovery (`agent_store/recovery.ml`) | none | validate the chain and the anchors, rebuild a state, truncate the tail | reads both, at every open |
| Commit writer (`agent_store/commit_writer.ml`) | availability, queue, chain head | commit, close, the worker loop | actor in front, journal behind |
| Persistence adapter (`agent_session/session_persistence.ml`) | hash of the last transaction | encode and commit a transition, install a checkpoint | actor, writer, checkpoints |
| Session assembly (`agent_server/session_factory.ml`) | registry of loaded sessions, when a checkpoint is due | create, open, checkpoint, close | everything; it fixes the order of the store's operations |
| Session actor (`agent_session/session_actor.ml`) | the committed session state | about 150 commands; each is a transition, committed before it is installed | persistence adapter, runs, jobs, events |
| Runs (`agent_session/run_*.ml`) | run state, receipts, evidence | admit, wait, wake, finish | actor |
| Durable events and attachments (`durable_event_log.ml`, `agent_client/session_handle.ml`, `live_projection.ml`, `reconnect.ml`) | a bounded replay window; the client's projection and last sequence | append, replay, attach, detach, reconnect | actor, transports |
| Idempotency (`agent_store/idempotency_store.ml`) | one record per command, in memory and in an index file | record, accept, complete, reconcile, expire | command dispatch, the session's commits, every open |
| Jobs (`agent_server/job_scheduler.ml`, `job_capacity.ml`) | job records in the session, capacity | claim, run, complete, cancel, reconcile at restart | actor |
| Runtime owner and registry (`runtime_owner.ml`, `session_registry.ml`) | loaded runtimes | load, unload, close and wait | assembly |
| Locks and lifecycle (`agent_store/lock.ml`, `session_store.ml`) | owner records, archive and removal records | lock, open, archive, remove | daemon, assembly |
| Approvals (`shell_runtime/approval_*.ml`) | permissions, grants | ask, decide, expire | shell tools |
| Delegation, blobs, quotas | documents, files, counters | publish, reference, collect | actor, assembly |
| Transports (`agent_transport_http`, `agent_server/command_handler.ml`) | connections, their registered attachments, bounded outgoing queues | open, dispatch, push, close, reap | registry and actor behind, clients in front |
| Protocol, languages, terminal client, providers, tools, documentation | mostly none | conversion, rendering, I/O | the edges of the system |
| Content generator (`website/scripts/content.mjs`, `examples.mjs`, `applications.mjs`, `provenance.mjs`) | none between runs; one pinned revision and what was staged within one | read, validate, verify, stage, publish | git, the configuration, the snapshot |
| Publication policy (`content-lib.mjs`, `publication-policy.mjs`, `check-output.mjs`) | four configuration files | accept or refuse, resolve links, check the output | the generator |
| Content snapshot (`snapshot.mjs`) | `.generated`, its backup, stages, a lock | recover, stage, swap | the generator, Astro |
| Development server (`dev.mjs`, `watch-content.mjs`, `dev-server.mjs`) | a promise chain, a debounce timer, one reader process | watch, regenerate, restart, close | the generator, the reader |
| Search client (`search.ts`, `pagefind-client.ts`, `pagefind-worker.ts`) | the dialog, its suspended calls, a worker and its result list | type, search, page, time out, retry | Pagefind |
| Check selection and release (`select-checks.mjs`, `ci-policy.mjs`, `release-gate.mjs`, `publish-production.mjs`, `website.yml`) | deployment records, the live site, pinned qualifications | select, gate, publish, verify | GitHub, Cloudflare |
| Documentation-only proof (`docs-diff.mjs`) | none | prove a Markdown change is prose only | check selection |
| Framework tests (`framework-inventory.mjs`, `framework-shards.mjs`, `framework-tests.mjs`) | a plan and one report per shard | inventory, partition, run, qualify | Dune, the gate |
| Browser qualification (`browser-ci.mjs`, `browser-evidence.mjs`, `release-artifact.mjs`) | retained bytes, shard reports, evidence | build, run, merge, qualify | the publisher |

The hard behaviours: a crash between two file operations; a file operation that fails with
its effect done; an in-memory copy (chain head, frame count, current segment) that stops
matching the files; a bounded queue whose consumer ends; callers cancelled while their
request is queued; a client that resumes after its events have left the replay window, or
that is closed while it reconnects; sources edited while they are read; answers that arrive
for a query that is gone; workflow runs that read the state of production, overlap and fail
half way; reports that outlive the attempt that wrote them. `PROJECT.json` lists them as
hazards, each at its line.

What makes each modelled component correct:

- **Journal and recovery.** Whatever a crash interrupts, the files left behind are accepted
  by the next open, and the log rebuilt from them keeps every acknowledged transaction.
- **Checkpoints and retention.** `CURRENT` always names a whole file; retention removes a
  checkpoint before the journal it is anchored in and never leaves fewer usable ones than it
  is meant to keep.
- **Writer.** The journal is one chain; a caller told *ok* is in it, a caller told *refused*
  or *closed* is not and never will be; once unavailable, never available again; every call
  is answered.
- **Commands.** A repeated request changes its session once, whatever died or failed around
  its record; no answer denies what was committed; a session is not refused for its records.
- **Events.** An attached client sees each event once and in order, or is told that it
  missed some; it ends up with all of them; closing leaves nothing open.
- **Content.** Production publishes committed bytes; *verified* is said of what was tested;
  nothing is copied without an approval of its own; links lead somewhere; the swap of the
  generated directory is atomic for every later reader.
- **Development server, search.** The last edit is served by the only reader; the dialog
  shows the answer to what is in its input, and never stays busy.
- **Release.** What visitors are served passed the checks of its content, never goes back,
  and is main's content when main is green. Tests run once each, and reruns hide no failure.

## Modules

| Module | What it is |
|---|---|
| `StoreDisk` | The files of one session as values, and what reading them finds: `Journal.scan`, the acceptance test of `Recovery.prepare`, retention's arithmetic. No state, no RECURSIVE operator. |
| `SessionStore` | The state machine of one session's store, one action per file operation. |
| `DurableLog` | The abstract specification: a log, the acknowledged part of it, and a failure that can take back only what is not acknowledged. `SessionStore` is proved to implement it. |
| `CommitWriter` | The writer fiber, its bounded queue, and any number of calls of `commit` and `close`. |
| `Idempotency` | A session's commands, their records, and the journal the records are reconciled with. |
| `SessionAttachment` | One client and the connections it makes, one after the other: what the server holds for each, the replay window, and the reconnecting client. |
| `Content` | One generation among edits, commits, verifications and a recording, each one step at a time. |
| `Publication` | Configurations the generator may be given, what it accepts, and what the output's check demands. |
| `SnapshotPublish`, `Snapshot` | Processes that stage and swap the generated directory, one file operation at a time; and the abstract snapshot they implement. |
| `DevServer` | The supervisor, its watcher and chain, and the reader processes. |
| `SearchLimits`, `Search` | What the search is given; the dialog, the worker's client and the worker. |
| `Release` | Pushes, workflow runs, the publisher's concurrency group, the live site. |
| `DocsDiff` | The documentation-only proof beside the blocks a CommonMark reader extracts. |
| `FrameworkInventory`, `FrameworkShards` | Which aliases are tests; their partition, execution, reruns and qualification. |
| `BrowserShards` | The browser tests from retained bytes to what may be published. |
| `MCSessionStore`, `MCServices`, `MCPublish`, `MCPolicy` | The instances TLC checks. |
| `SessionStoreProofs`, `IdempotencyProofs`, `WebsiteProofs`, `ReleaseProofs` | Theorems about one state machine (in `WebsiteProofs` two), for every value of its constants. |
| `MCSessionStoreProofs`, `ServicesProofs`, `PublishProofs`, `PolicyProofs` | Theorems about the properties `MCSessionStore`, `MCServices`, `MCPublish` and `MCPolicy` check. |

The components of one `MC` module share no state. Such a module extends one of them,
instantiates the others with the bounds it checks them under, and has one more variable that
says which of them runs; the others rest in an initial state. Its states are therefore the
sum of the parts' states and not their product, its next-state relation is the disjunction
of theirs, and a property of one part is vacuous only while another part runs. Where
components do share state they are one module: the actor, the writer and the disk in
`SessionStore`, client and server in `SessionAttachment`, page and worker in `Search`.

### The store

A session's files are four variables: `segments` (segment number to frames),
`journalCurrent`, `snapshots` (transaction sequence to checkpoint) and `snapshotCurrent`.
A frame is its bytes: a transaction with sequence, hash and predecessor's hash, one of the
two terminal frames, or `torn`, with a flag for whether an fsync covers it. A checkpoint is
the hash of the transaction it is anchored at and whether the file is whole.

In memory there is the chain head (`head`), `Journal.t`'s `current` and `current_frames`
(`frames`), and the writer's `availability`. `pc` and `flow` say which file operation
comes next and for whom: the actor waits for its commit's reply, and a checkpoint runs
inside the actor, so a single program counter carries the actor and its writer.

The order of the actions is fixed by `session_factory.ml` and `session_actor.ml`, which the
map does not name for its size:

| Action | Call sites |
|---|---|
| `Init` | staged creation, `session_factory.ml:7096-7154` (journal, first transaction, first checkpoint, then publication by rename) |
| `Open` | `open_recovery` 6037-6067, `create_recovery_writer` 6313, `commit_recovery_boundary` 6327-6360: every open commits a boundary transaction before it is over |
| `Reply`, recovery | `persist_recovered_state` 6421-6437: an open always installs a checkpoint and then tries a retention pass |
| `Submit`, `Reply`, commit | `persist_transition` (`session_actor.ml:1131-1133`), `state_committed` 4574-4590, `snapshot_due` and the checkpoint 4529-4558; when a checkpoint is due is left open |
| `Close`, `Install` ... `PruneSegments` | `checkpoint_entry` 4759-4773, `close_entry` 4788-4822, `prune_snapshot` 4465-4495 |
| `EndCheckpoint` | a retention pass's result is ignored at 4552-4554 and 4801-4803 |

`Write`, `Flush`, `Create` and `Switch` are the four file operations of `Journal.append` and
`Journal.rotate`; `Install` and `Pointer` those of `Snapshot.install`; `PruneSnapshots` and
`PruneSegments` remove one file per step, in the code's order, and end with
`seal_checkpoint`, which goes through `Write` again. `Fault` makes any of them return an
error, with its effect done, half done or not done. A removal that fails does not end a pass
(`snapshot.ml:830-840`, `journal.ml:422`): the file is `spared`, the others are still tried,
and only then does the pass report its error (`RemovalFault`). `Crash` stops the process between two
operations, leaving a torn frame or file when it falls inside one. `HostCrash` also drops an
unsynced end of a segment.

### The writer

`requests` is the history of calls, each with its promise and what the caller was told; a
request's index stands for its transaction's hash. `queue` and `blocked` are the Eio stream
and the calls waiting to add to it, `taken` the worker's request, `worker` where the worker
stands (`appending`, `appended` and `torn` are inside `Journal.append`). Fibers are
cooperative: an action reaches from one suspension to the next, so `Continue`, the loop back
to `Eio.Stream.take`, is part of every action that ends a request. Cancellation of a caller
(`Abandon`) and of the owning switch (`CancelOwner`) may come at any suspension. Eio's
stream, promises and switch are outside `src/`; they are modelled from how
`commit_writer.ml` uses them and marked external in the map.

### Commands

`records` is `Idempotency_store.t`'s table and `index` the file it is saved to; `journal`
holds the audit of each transaction that a command committed, of which the session still has
those from `retained` on. One command runs at a time, under `idempotency_mutex`; `step` is
where it waits.

| Action | Code |
|---|---|
| `Replay`, `Prepare` | `lookup` and its three answers in `with_idempotency_owner` |
| `RecordPending` | `pending_record`, without which nothing is executed |
| `Execute`, `ExecuteFails`, `Reject` | the session commits the command with its audit, fails to, or does not take it |
| `Accept` | `mark_command_accepted`, called by the commit; its error is ignored |
| `Complete`, `Uncertain` | `store_outcome`; a run whose admission is uncertain keeps its pending record |
| `Prune` | `prune_expired` from maintenance, at any moment |
| `Open` | `reconcile_command_audits` at every open; an audit it refuses keeps the session closed |
| `PruneJournal`, `Unload`, `Restart` | retention, `unload_inactive`, a new process that loads the index |

`Saved` and `SaveFails` are the two ends of `save`: an error may come before or after the
rename, and leaves the memory as it was.

### Events and attachments

Events are their sequence numbers: the session has `latest` and the first retained one,
`oldest`. `conn` holds for each connection what both ends know of it: the server's state, the
attach request and its reply, whether the attachment is registered, the subscriber with its
bounded queue and overflow mark, and the `wire` (outgoing queue, event stream and client
queue together). The client is `Reconnect.t`: a monitor (`phase`), the current connection,
the cursor of its projection, `force_snapshot`, and whether an attach of unknown outcome is
retained.

| Action | Code |
|---|---|
| `Commit` | `publish_committed_transition`: publish to the subscribers, then retain |
| `Attach`, `Answer` | `attach_entry` on both sides of its wait for the actor; the replay is computed from the window of the second moment |
| `Forward` | one turn of `forward_subscriber`; a full outgoing queue closes the connection |
| `CloseConnection`, `Detach` | the client's DELETE or the reaper, and `close_connection` |
| `Restart` | recovery removes attachments and retains the events behind its checkpoint; how many those are is left open |
| `Receive`, `StreamEnds`, `Monitor`, `Backoff`, `Connect`, `Reply`, `AttachFails` | the monitor's loop, cut at each suspension |
| `Close`, `Lose` | at any moment |

### The content

`Content` keeps one file of each class the generator treats in its own way, so that a file
that is read twice (page and verification, sample and recording) may differ between the
reads. `Pin` reads HEAD once; each later step reads the working tree of its moment. `tested`
is history: every verification that took place.

A recording is made by `record-showcase.py`, whose reads are as far apart as a run of the
agent: `capture` says where the script stands.

| Action | Lines of `record-showcase.py` |
|---|---|
| `Build` | 14: the runtime is built, from its sources as they are |
| `CopySample` | 73-76: the sample goes to a private directory |
| `RunSample` | 77-94: the agent runs there; its transcript is written among the sources |
| `HashSources` | 97: the hashes are of the sources as they are by now |
| `PinRevision` | 99 |
| `WriteRecording` | 100-102: the runtime's sources are hashed, `recording.json` is written |
| `StopCapture` | a run that fails or times out (78-82), an assertion, or the script's death |

A run is the pair of the sample it was made from and the runtime it was made with; a
transcript is the run it shows. `capture.steady` and `gen.edited` are history as well: whether
somebody edited what is recorded since the script began, and which files were edited after
they had been staged. One recording is made at a time, nobody edits transcript or
`recording.json` by hand, and the sample is one file, where the code has two prompts and
`reference/project.txt` (of which `applications.mjs` compares the last with the recorded
requests as well).

`Publication` has no generator steps: its actions are edits of the configuration, and
`Accepted` is the conjunction of what the scripts refuse, in their terms. The properties
compare it with what the output must satisfy, which is stated on its own.

`SnapshotPublish` is `publishSnapshot`, one file operation per step. Each may fail, and the
process may die before any of them; `Partial` is a directory whose removal stopped half way.
The lock library is external: mutual exclusion that ends some time after its holder's death.

### The development server and the search dialog

Both are event loops; a step is a task with the microtasks it resolves. In `DevServer` the
chain runs one regeneration at a time (`job`), the watcher's event, debounce timer and chain
are separate, and a reader may crash at any time. In `Search` a suspended call of `search`
or `showPage` is an element of `tasks` with its generation; a worker answers in order,
loses fetches (the engine then throws, or goes on with what is left), hangs or dies.

### Continuous integration

In `Release` a tree is the version of each class of path that the selection tells apart.
A run goes through `Select`, the jobs, the gate, the group of at most one running and one
pending publisher, the check of main's head, two uploads, bounded probes and the record of
its deployment; each stage may fail. `FrameworkShards` and `BrowserShards` each follow one
run over its attempts: artifacts are overwritten by name and survive the attempts that
upload nothing. A plan takes the aliases one after the other, the lightest last. `DocsDiff`
grows two documents line by line and carries both scanners. `FrameworkInventory` grows a tree
of Dune stanzas; `Visit` has the names at which the code's depth-first visit ends, for each
set of names above them, and what Dune builds is external.

### What is abstracted

The store and the writer:

- Payloads, checksums, and the event, revision and other counters of a session: they move
  with the transaction sequence. A hash is the number of the proposal, so that two
  transactions of one sequence differ.
- The byte limit of a segment has the effect of its frame limit: the last append
  before a rotation is followed by the terminal frame.
- A torn frame with further bytes behind it is a corrupt middle. In the code a short frame
  behind it could also make the torn length run past the end of the file, which reads as an
  incomplete tail: both lose what was appended behind it.
- Directory operations take effect in the order they are issued: a power loss does not undo
  a rename or a creation whose directory was synced afterwards, and unsynced ones are not
  reordered with each other.
- `require_seed_success` in `prune_snapshot` is always satisfied: a session whose seed is
  pending never prunes.
- The reads of `prune_before_transaction` and `prune_older_with_floor` fault before the first
  removal, the fsync of the directory behind the last one.

Commands: those of one session. A key is principal, session, method and idempotency key; a
request is its digest; time is counted in lifetimes of a record (a day). Left out are the
receipts of lifecycle and seed commands, the artifacts of large outcomes, the capacity of
the table, and commands whose outcome the session commits in several transactions.
`MayReuse` is what clients do: with `FALSE` a key that expired does not come back for another
request while the journal knows it.

Events and attachments: one client of one session over HTTP. Left out are owner leases, an
explicit detach, recoverable events, the limits on attachments and connections, a connect
error that is not retried, `maximum_attempts` (off by default), and the embedded host, whose
publisher waits for its consumers (`agent_server/embedded.ml:410`). The detach request that
`Reconnect.close` sends on the connection it has just closed has no effect and no action.

Website and integration: wording, metadata and ranking; the merged HTML report; pull
requests; the parsers of Dune and Markdown below the level of stanzas, lines and blocks;
the clock of the lock library.

Bounds, all `Max...` constants, limit the runs and not the program. `MaxSequence` is
`Int64.max_value` made small; the writer stops at it. `MaxProbes` and `PageSize` are the
code's limits made small.

## Runs

| Run | Parts and bounds | States | What it shows |
|---|---|---|---|
| `SessionStore` | four fault models, two frames a segment, two checkpoints kept: *host crash* (6 transactions, 2 losses of process or host), *faults* (5 transactions, 1 crash, 2 failing appends or checkpoints), *buffered* (6 transactions, 2 process crashes, no fsync), *any fault* (5 transactions, 1 crash, 1 fault anywhere) | 81K | every crash and error leaves files that open again, with all that was acknowledged |
| `Services` | *writer*: queue of 1, largest sequence 2, 3 calls; *commands*: 2 requests of two digests, one key that expires and one that does not, a day, any restarts and failures; *attachment*: 3 events, window 2, queues of 1, 2 connections, 1 lost connection, 1 restart, a close; *search*: 3 changes of the input between queries with 0 and 3 hits, pages of 2; *dev*: 4 edits, crashes, a signal; *release*: 2 pushes and a manual run | 295K | answers are exact, every call is answered; a repeated command is made once; the client misses nothing silently and catches up; what the dialog shows; the last edit is served; everything that starts ends |
| `Publish` | *configuration*: 3 edits; *generation*: 3 edits, commits, verifications or recordings; *publication*: 2 processes, 2 versions, any step the last; *reruns*: 2 pushes of 3 kinds, 1 rerun, 2 probes, failures; *race*: 2 pushes, a manual run, failures; *reverts*: 3 pushes of 2 kinds, each new content or an earlier one, failures | 4.21M | what reaches the site is committed, approved, tested, whole and never older |
| `Policy` | *reruns*: 3 tests, 2 shards, 3 attempts; *plans*: 6 tests, 3 shards, four weights; *fences*, *syntax*: documents of 5 and 4 lines, one edit; *inventory*: 3 stanzas; *browser*: 3 tests, 2 builds, 2 attempts | 2.71M | what integration decides is true of what ran |
| `SessionStoreRestart`, `SessionStoreErrorReply`, `SessionStoreBoundary`, `SessionStoreBuffered`, `SessionStoreDirectorySync`, `SessionStoreRetention`, `DocsDiffIndented`, `SessionAttachmentTeardown` | the least that shows it | | where code and documents disagree, below |

Why the bounds are enough. With two frames a segment every second transaction rotates; six
transactions and two checkpoints kept give retention several checkpoints and segments to
remove, so a crash falls before, between and after removals; the second crash hits the
recovery of the first, and the second fault the checkpoint after a failed rotation. A queue
of one with three calls has one request taken, one queued and one blocked, and a sequence of
two is exhausted by them. Three events overrun a window of two and every queue of one; the
second connection is made while the first one's handler still runs. Two requests are a
command and its repetition, before and after a day. A third hit makes a
second page; three inputs make a stale answer for a query that comes back. Three edits of a
configuration are a file, a rule and the entry that uses it; three changes around a
generation are an edit, its commit and an edit after it. Two publishers are one that died and
one that recovers. Two pushes and a third run overtake each other in the publisher's group;
three pushes are a publication that fails, the revert of it, and a push that does not concern
the site. Three changes around a recording are its start, an edit beneath it and a commit.
Two attempts overwrite a report and three leave one of the first behind a failure of the
second. Five lines hold a fence, its content and what unbalances it.

Deadlock is not checked: every run stops when its bounds are used up, a session may stay
down after a crash, and a closed writer or an ended client has nothing left to do. What must
not get stuck is stated as liveness.

The properties, and what breaking each would take:

- `RecoveryAccepts`: in every state, with or without a process, `Recovery.prepare` would
  accept the files. Breaks if retention reclaims a segment too many, or a tail is left.
- `WriterFollowsJournal`: an available writer's head is the head a scan would find. Breaks
  if a failed append leaves the writer available.
- `PointerUsable`, `RetentionKeepsFallback`: `CURRENT` names a whole checkpoint; a
  step that removes a file leaves as many whole ones as are to be kept.
- `ImplementsDurableLog`: `RecoveredLog`, the log the next open would rebuild (retained
  transactions, and below them those a checkpoint covers), changes only as `DurableLog`
  allows: acknowledged transactions stay, in place and in order. `MCSessionStore` states it
  and the first two for the models that promise them (`...Promised`).
- `JournalChain`, `AnswersAreExact`, `UnavailabilityIsFinal`: see *The writer* and *Proofs*.
- `OnceAndTrue`: breaks if a pending record is answered like a failed one, if a record is
  forgotten before its day is over, or if an execution starts without it. `Reconciles`: also
  if the index and the memory part after a failed save.
- `StreamContinues`: an attach whose replay is taken from another moment than its
  subscription leaves a gap or a repetition. `ClosesWhatItOpened`: a close that arrives
  between a connect and the assignment of its result leaks the connection. `CatchesUp`: a
  client that is told its stream overflowed, or whose cursor left the window, comes back.
- `ScreenIsTheAnswer`, `NoLeakedWorker`, `NeverObsolete`: break if a suspended call goes on
  after its generation ended, if a failure destroys another worker than its own, or if a
  partly fetched page is kept.
- `ReaderIsAlone`: breaks if a restart does not wait for the exit of the reader before it.
- `ProductionIsCommitted`: breaks if a file is compared by another read than the one that is
  published, or with another revision than the one that was pinned.
- `LabelsAreEarned`: breaks if a record that covers too little, or is of other bytes, gives a
  label. The label reads its sources again after they were staged; the property says so and
  leaves out a file that was edited in between (a guide is read once, and needs no exception).
- `RecordingIsOfSample`: the transcript that is published is the one of the recorded run, in
  every case; and the run was of the published sample and of the runtime of its revision,
  unless somebody edited one of them while it was recorded. Breaks if the hashes are compared
  with other bytes than those that are published.
- `CopiesAreApproved`, `LinksAreServed`: relate the four configuration files to
  what is written; break if one of the scripts forgets what another relies on.
- `Recoverable`, `PublishesAtomically`: break if a backup is removed too early or a
  restart does not restore it.
- `LiveIsQualified`, `LiveNeverGoesBack`, `SuccessMeansLive`, `GreenMainIsLive`: break if the
  selection compares with the push before instead of with production, if a queued run is not
  refused, or if a failed upload is forgotten. `GreenMainIsLive` asks for more after main went
  back to a content it had before: no run since the live revision may have failed.
- `QualifiedIsTested`, `PublishableIsTested`: a report of an earlier attempt never hides what
  a later one did. `PlanIsComplete`, `PlanIsBalanced`: the partition.
- `InventoryIsExact`: each runnable test is in one alias of the inventory.
  `ExecutableStaysExact`: equal proofs, equal fenced blocks.
- `Settles`, `EveryCallAnswered`, `CatchesUp`, `LoadingEnds`, `EditsAreServed`,
  `ClosingEnds`, `EveryRunEnds`: liveness.

Every property of a passing run has a mutant in `PROJECT.json`: a plausible slip in one
mapped definition, written beside it, that makes TLC find the property violated.

### Fairness

| Module | Assumed | Because |
|---|---|---|
| `SessionStore` | `WF_vars(Work)` | actor and writer are fibers of a live process that only wait for file operations, and those return |
| `CommitWriter` | `WF_vars(Worker)`, `WF_vars(Answer)` | the same, and a fiber is resumed once its promise or `stopped` is resolved |
| `SessionAttachment` | `WF_vars(ClientStep)`, `WF_vars(ServerStep)`, `SF_vars(Connect)` | fibers that can run do; a client that keeps trying to connect succeeds at some time, which is what its retries are for |
| `DevServer` | `WF_vars(Progress)` | one event loop, its timer and its children |
| `Search` | weak fairness of the debounce and the request timers | timers fire; nothing is assumed of worker and network |
| `Release` | `WF_vars(Advance(i))` for each run | each job has a timeout |

Opening, submitting, closing, cancelling, typing, pushing, faults and crashes have no
fairness.

### Where the code and its documents disagree

Eight runs are expected to violate their property; each finding in `PROJECT.json` quotes the
document.

- `SessionStoreRestart`: a crash between creating the next segment and switching
  `journal/CURRENT` leaves a session that recovery accepts and that can never be opened
  again: each open commits a boundary, which rotates, which finds the segment.
- `SessionStoreErrorReply`: an append whose rotation fails reports an error for a
  transaction that is durable; the design resolves the commit before it rotates.
- `SessionStoreBoundary`: a torn checkpoint boundary frame does not stop the writer, since
  it is appended outside it and the error is ignored; the next commit lands behind it.
- `SessionStoreBuffered`: with `unsafe_buffered`, a power loss can take a
  transaction a synced checkpoint is anchored at; recovery then refuses the session, where
  the documentation allows loss of the tail.
- `SessionStoreDirectorySync`: when only the directory fsync after the rename of
  `journal/CURRENT` fails, the process goes on with the old segment, and a failed boundary
  frame then leaves an incomplete frame in a segment that is not current.
- `SessionStoreRetention`: the removal of one segment fails and the removals behind it
  succeed; the transactions that are left are not consecutive, and recovery refuses the
  session although both checkpoints and all they need are there.
- `SessionAttachmentTeardown`: a connection torn down between the session's commit of an
  attachment and its registration leaves the attachment in the session's state.
- `DocsDiffIndented`: a comment opener in an indented code block hides a fence from the proof.

The passing runs leave out exactly these causes: the *faults* model injects no faults of a
boundary, of a directory's fsync or of a segment's removal, *any fault* is checked for
`PointerUsable`, `RetentionKeepsFallback` and `Settles` only, `TeardownDetaches` is not among
the properties of `Services`, and no document of `Policy` has the indented opener.

Met while modelling, not among the runs:

- `Release` with `MayRevert`: one push is published up to the first of the two uploads and
  then fails; a revert of it fails before it publishes. Main now has the content of the last
  successful deployment again, so the next push of maintainer paths alone selects nothing and
  is green, while the failed upload stays live. `website/planning/release-runbook.md:25-27`
  says that failed publications are not stranded by unrelated pushes, and 278-280 recommends
  reverts. `GreenMainIsLive` states the condition under which it is so, and the *reverts*
  setting checks it; a manual `redeploy` ends the disagreement.
- A sample, or a source of the runtime, that is edited between its copy or the build and line
  97 or 101 of `record-showcase.py` gives a recording whose hashes are those of the edited
  files: `applications.mjs` accepts it as the recording of a sample it was not made from.
  `RecordingIsOfSample` has the condition that nobody did.
- A tutorial or a sample that is edited after it was staged, and matches a record in its new form,
  gets a label that the staged bytes have not earned (`examples.mjs:99-109` reads it
  again). Continuous integration builds from a checkout that nobody edits.
- `DevServer` without `Quiet`: an edit after the first generation and before the watcher is
  ready is served only with the next edit.
- Mapped assets are copied from the working tree, also in production, where
  `website/README.md:107-108` promises committed bytes. `ProductionIsCommitted` is about
  the other files.
- A record of verification names its base revision and is itself committed, so that the
  revision it is published from is a later one; in production its label is then not *current*.
- An owner that reconnects before the server has noticed the loss of its connection is
  answered *conflict* (`session_actor.ml:11479-11490`), where
  `docs-src/design/ochat-agent-server-spec.md:2654-2658` has the terminal client reclaim its
  lease; and the grace period after a disconnection never outlasts the lease (11349-11360).
- With `MayReuse`, a standard key that comes back after its day for another request gets a
  record that the audit of its first use contradicts; while the journal keeps that audit
  `reconcile_accepted` refuses the session (`idempotency_store.mli:131-133` promises to fail
  closed), and an unloaded session does not open again before the new record has expired.
- An attach whose reply was lost leaves the client *failed* and not reconnecting
  (`agent_client/connection.ml:269-330`); a test expects it, and so does `CatchesUp`.
- After a loss of buffered transactions a client's cursor may be ahead of its server's.
- `interval` flushing is documented (`docs-src/agent-server/operations.md:97-98`) as grouped,
  and `daemon.ml:452-455` maps it to a flush for every append, which is the stronger promise.

## Proofs

All theorems hold for every value of the constants allowed by `LimitsAssumption`,
`BoundsAssumption` (store), `CapacityAssumption`, `SequenceAssumption`, `BoundAssumption`
(writer), `ConnectionsAssumption`, `ClassesAssumption` (server), `PublishAssumption`
(snapshot), `SearchAssumption`, `ShardsAssumption` and `PlansAssumption` (integration); TLC
evaluates them on every run. `Idempotency`, `DevServer` and `BrowserShards` need none, except
for the two hypotheses that `SessionsReconcile` states and the one below that recovery needs.

**Writer** (`ServicesProofs`): `TypeCorrect`, `ChainCorrect`, `AnswersCorrect`,
`WakeupCorrect`, `UnavailabilityCorrect`, from one inductive invariant
`Inv == TypeOK /\ OrderInv /\ WriterInv /\ JournalChain /\ PromiseInv /\ CapacityInv`.

- `JournalChain` speaks of the journal, but what the next frame extends is decided by `head`:
  `WriterInv` says the head follows the journal exactly while the writer is available and no
  bytes of an append have been written.
- That an answer is exact needs that no request is ever handled twice. `OrderInv` says the
  taken request, the queue and the blocked calls are in call order; every handler only
  consumes from the front.
- `PromiseInv` says what is held has no reply yet, that a written transaction has one
  (or is about to), and that what a caller was told follows its promise.
- `CapacityInv` is `NoLostWakeup` and the bound of the queue.

The action property `UnavailabilityIsFinal` follows from the same invariant.

**Checkpoints** (`SessionStoreProofs`): `TypeCorrect`, `PointerCorrect`, `FallbackKept`.
`PointerUsable` is not inductive: that the pointer may move needs the new file to be whole
when its installation ended, and that a removal is safe needs the file `CURRENT` names to be
among the newest from the preflight to the last removal. `PointerInv` adds both;
`FilesInv` that the files are finitely many, so that *among the newest* can be counted
(`NewestKept`). `FallbackKept` is the action property `RetentionKeepsFallback`. These hold
under every fault.

**Recovery** (`SessionStoreProofs`): `RecoveryCorrect`, `WriterCorrect`, `LogImplemented`, under
`Tolerated`: of the operations of a live process, appends of transactions and checkpoints may
fail, the removal of older checkpoints included, but not a boundary frame, the fsync of a
directory or the removal of a segment, and where a host may lose its unsynced data every
append is flushed. Each part is needed: the runs `SessionStoreBoundary`,
`SessionStoreDirectorySync`, `SessionStoreRetention` and `SessionStoreBuffered` are the
counterexamples without it. `MCSessionStoreProofs` lifts the three to the properties of the
run (`RecoveryPromised`, `WriterPromised`, `LogPromised`), where the fault model is chosen in
the initial state.

- That recovery accepts the files is a fact about every file at once. `DiskInv` says that the
  retained segments are consecutive (with at most the next one created and not yet current),
  that their transactions are one chain, that only the last may end in an incomplete frame,
  and that each complete checkpoint is anchored at a transaction the journal `Holds`: one that
  no fault takes away.
- `SegmentInv`, `ProposalInv` and `HeadInv` say how memory stands to the files between any two
  operations: the open segment is the one `CURRENT` names, a proposal extends the journal's
  head until its bytes are written and is that head afterwards, and the actor's state, which
  the next checkpoint is made of, is one the journal holds.
- For the refinement `LogInv` adds what the log of `DurableLog` is made of: `Covers`, that
  checkpoints and journal leave no gap below the acknowledged transactions, and `Fresh`, that
  no hash is used twice. `Write` is mapped to `Persist`, `Reply` to `Acknowledge`, a crash, an
  opening and a removal to `Lose` or a stutter, and every other step is shown to be a stutter.

**Attachment** (`ServicesProofs`): `StreamCorrect`, `ClosesCorrect`, from
`AttachmentInv == StreamTyped /\ OpenInv /\ RequestInv /\ StreamInv`. `StreamContinues` speaks of
an attached client, and what its stream holds at that moment was put there while the reply was
under way: the subscription begins in `Attach`, events are published, forwarded and lost by an
overflow before and after `Answer`, and the client installs the handle only when its projection
ends at `through`. `StreamInv` says the same of both phases, counted from where the client is or
will be (`Base`): wire and queue go on from there without a gap and reach the last event, or the
subscriber is marked, or an error ends the wire (`Goes`). Its base case needs that a request
which was sent has no subscriber and nothing queued (`RequestInv`). `ClosesWhatItOpened` needs
`OpenInv`: the open connection is the current one, in the three phases that use it, and where
`closed` is set already, in the attach alone, whose handle is then not installed.

**Commands** (`IdempotencyProofs`): `IdempotencyInvariant`, `RequestsOnceAndTrue`,
`SessionsReconcile`; `ServicesProofs` takes them for the run (`CommandsCorrect`,
`ReconcilesCorrect`). That a request is executed once is a fact about the journal, but what
decides is a table that is saved, lost and pruned. The invariant says that memory and index
each *remember* every use of a key in the journal and in the answers: with a record as young
or younger, or, for an expiring key, with none once that use is a day old (`TableInv`,
`IndexFollows`). Then the absence of a record means that what came before is over
(`BeforeRecord`), a command is the first of its age until it commits (`BeforeCommit`), and
outcomes recorded or told agree with the journal (`IsTrue`). Saves that change only the
accepted transaction, or forget only what expired, keep all of it at once (`KeepingSave`).

**Swap of the snapshot** (`PublishProofs`): `SwapInvariant`, `AlwaysRecoverable` and the
refinement `ImplementsSnapshot`. `Recoverable` alone is not inductive: that a removed target
leaves a whole backup depends on where the process in the critical section stands. `SwapInv`
says for each of its steps what target, backup and stage hold, and that the lock excludes the
others. For the refinement each step, a failure or a death included, is shown to leave
`Shown` as it is or to replace it by a whole version at once.

**Content** (`PublishProofs`): `CommittedOnly`, `LabelsEarned`, `RecordingFits`. A generation
reads one file after the other while an author edits, commits, verifies and captures, and a
label is decided before the last file was read. `ContentInv` says what holds in between:
which files have been read by each step, and that in production each of them has the bytes of
the pinned commit (`ReadInv`); that the records, those of the generation included, are of
verifications that took place, that the bytes of a file nobody has edited since it was staged
are still the file's, and that a label that says *verified* is earned by what was staged if
the label's sources are such files (`LabelInv`). The label of the lesson is decided in two
comparisons, so it counts from the second one on. Meanwhile the recording script is between
two of its own reads: `CaptureInv` says what its run, its hashes and its revision have to do
with the files at each of its steps, and `Dated` what every recording that exists, in the
tree, in a commit or staged, then says of its run. Publication turns the parts into the
properties.

**Publication** (`PublishProofs`): `CopiesApproved`, `LinksServed`. Both are about one
configuration at a time: whatever the manifest, the rules, the assets and the examples have
become, if the generator accepts them, then each copy is of an approved file and each link
leads to an address that one owner serves. The proofs follow the acceptance check by check.
That an address has *one* owner also needs to know where entries may lead (`ConfigTyped`).

**Release** (`ReleaseProofs`, and `PublishProofs` for the three settings of the run):
`ReleaseQualifies`, `ReleaseSucceeds`, `ReleaseIsComplete`, `ReleaseGoesForward`. What is live
was decided by runs that have ended, were cancelled or run again, so `ReleaseInv` follows the
run behind it: that the group admits one publisher, whose record is the newest one, and that
the newest record, if it is of a success, is live (`Serial`, `Recorded`); what the publisher
has uploaded at each step (`Uploaded`); that a run which is done has a result and a stage to
resume from (`Ended`); and that whoever skipped the framework jobs builds on what passed them,
which includes what is live and what a successful record names (`Chosen`, `Qualified`).
`ReleaseIsComplete` holds with reverts, under the condition the property states. `Complete`
says of each green run that it published its revision, or that its push brought nothing to
publish (`NothingNew`): its content is that of the revision before it, and of one that was
live. Where main never went back, the revisions with the content of one that was live lie
together, so what is live has the head's content; where it did, every run since the live
revision is green, and the head's content is carried back to it one push at a time.

**Search** (`WebsiteProofs`): `ScreenCorrect`, `WorkersCorrect`, `ResultsCorrect`, which
`ServicesProofs` takes for the run (`ScreenShown`, `WorkersOwned`, `ResultsKept`). What the
dialog shows was asked several messages ago of a worker that may have been destroyed since,
so the invariant `SearchInv` follows a request through all four processes. `Calls` says that
one suspended call at most is of the current generation; `Engines` that the only worker that
runs is the one of the engine's promise; `Orderly` that its queue, its operation and its
answers hold requests in the order of their numbers. `Linked` is the heart: what the current
call waits for is found in its worker, as a request that asks for it or as an answer that
is it (`Searching`, `Paging`), and nothing behind it there makes the matches obsolete
(`Latest`). The parts are operators of the four values rather than of the variables, because
a handler composes several changes before it ends: `Reject` may lead to `Fail`, a delivery to
`Ask` or `ShowPage`. Each gets a lemma of its own, and an action composes them.

**Development server** (`WebsiteProofs`): `ReaderAlone`, from `DevInv`, and `ReaderServes` for
the run. That two readers
never run needs to know where the chain stands: until the old reader has exited it is the one
`server` names (`OnlyServer`), and from there to the next fork none is alive (`NoReader`).

**Qualification** (`PolicyProofs`): `ShardsQualify`, `BrowserQualifies`. A report outlives the
attempt that wrote it, so the invariants say what an upload still stands for after any
reruns: a job that has succeeded has tested what its shard holds, and no later execution said
otherwise (`ShardsInv`); the report of a successful browser job is what its latest execution
did, on the bytes that are retained now (`Tested`, `BrowserInv`). The gate of `ShardsInv`
passes on a plan that `ValidPlan` accepted, whoever made it.

**The plan** (`PolicyProofs`): `PlansAreValid`, for any inventory with at least as many tests
as shards and any weights, zeros included. `Groups` is a fold over the aliases in the order
of `createPlan`; `GroupsRun` unfolds it, and `GroupsAssigned` is an induction over the number
of aliases assigned so far: each is in one group, a group's weight is its load, and no group
with an alias outweighs another by more than any alias of its own. The last needs the order,
since the alias that is added is no heavier than those before it. That no shard stays
empty needs that a group without an alias goes before a group of weight zero that has one,
which is the second key of the comparison in `Lighter`.

**The documentation-only proof** (`PolicyProofs`): `ProofIsExact`, `DocumentsStayExact`. Two
documents of any length are never compared line by line. `Follows` is a simulation between the
scanner and a CommonMark reader of one document: until the scanner refuses, a reader of what
the scanner keeps stands where a reader of the document stands (`Together`). `FollowsStep`
keeps it for every line the scanner distinguishes, and `RunsFollow` carries it through the
document. Equal proofs are equal texts for that reader, hence equal executable blocks. The
theorems are about documents without comment openers in indented code, for which
`DocsDiffIndented` shows the contrary.

**The inventory** (`PolicyProofs`): `InventoryStaysExact`, for any Dune stanzas and cram
files. The names at which the visit of an accepted directory ends are closed under its
references and local (`NormalClosure`), so what Dune builds for a directory stays in it
(`BuiltStays`); what it builds for the tree is the union of that (`BuiltApart`). A test
therefore belongs to its own directory's alias and to no other.

**Only model-checked**: everything under fairness (`Settles`, `EveryCallAnswered`,
`CatchesUp`, `LoadingEnds`, `EditsAreServed`, `ClosingEnds`, `EveryRunEnds`). Liveness and
`ENABLED` are out of the provers' reach. Every invariant and action property of a passing run
is stated by a theorem.

The library's induction theorems take a predicate as an operator, which the installed provers
cannot instantiate. Inductions over lengths, sizes and rounds go instead through
`NatSetInduction`: the numbers for which the claim holds are a set, and a set of naturals that
is not all of them misses a least one (`WFMin` with `NatLessThanWellFounded`). That the
recursive functions of `Visit` and `Built` and the folds of `Groups` and of the document
scanner exist is proved in the same way before their equations are used.

No module uses a RECURSIVE operator.

## Not modelled

- **Session actor, runs, jobs, locks, approvals**: planned below.
- **Session assembly, runtime owner, registry**: their calls fix the order of the store's
  actions; loading and unloading concurrently belongs to the lifecycle module.
- **Delegation, blobs, quotas**: document stores with publication protocols of their own.
- **Protocol codecs, ChatMD, ChatML, the terminal client, providers, tools**: conversion,
  rendering and I/O without a shared protocol; sequential and better tested.
- **Local rehearsals, reviews and measurements of the website**: sequential, no state kept.
- **Generated documentation search and third-party scripts** (`docs/sherlodoc.js`,
  `docs/odoc.support/`): output of odoc and sherlodoc, and vendored code.

## Plan

Modules, in order of importance:

1. `OwnerLease`: claim, renewal, expiry and reclaim of a session's owner among attachments
   that come and go; joined to `SessionAttachment`. Promise: one owner, and none after expiry.
2. `JobScheduler`: claim, dispatch, completion retried after a sleep, cancellation, restart
   reconciliation, bounded capacity. Promise: one outcome per attempt; capacity never leaks.
3. `RunAdmission`: admission against revisions and receipts, waiting and wakes, finish.
   Promise: one unfinished run for each source; a wake is never lost.
4. `SessionLifecycle`: owner locks, load, unload, close and wait, archive and removal.
   Promise: one loaded owner of a session; removal never races an open.
5. `SessionCreation`: staged and in-place creation, the seed protocol and the repair of a
   first checkpoint, as a prefix of `SessionStore`.
6. Receipts of lifecycle and seed commands, and the artifacts of outcomes, beside `Idempotency`.
7. `Approvals`: one decision per permission, expiry, grants.

Proofs: every safety property of a passing run is a theorem.
What each module of this list promises is to be proved with it; next to that, that a removed
checkpoint or segment is never needed again by a reader that began before its removal.
