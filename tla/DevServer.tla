----------------------------- MODULE DevServer -----------------------------
(***************************************************************************)
(* `npm run dev` of the website: the supervisor (website/scripts/dev.mjs),  *)
(* its watcher (watch-content.mjs) and the reader it forks                 *)
(* (dev-server.mjs).                                                       *)
(*                                                                         *)
(* The supervisor is one event loop.  Its promise chain runs one            *)
(* regeneration at a time: stop the reader, generate, start a reader.  The  *)
(* generation at startup takes the same steps, before the watcher exists.  *)
(***************************************************************************)
EXTENDS Naturals, Sequences, FiniteSets

CONSTANTS
  MaxEdits,    \* bound: edits of the sources
  Quiet        \* TRUE: nothing happens before the watcher is ready

Readers == 1..(MaxEdits + 1)    \* a regeneration starts one reader

VARIABLES
  source,    \* the sources: their version, and whether they are valid
  snapshot,  \* the version in .generated
  readers,   \* the reader processes forked so far, with the version each serves
  server,    \* the reader the supervisor knows as `server`, or 0
  main,      \* "starting", "watching", "exited"
  job,       \* the step of the running regeneration
  queued,    \* regenerations in the chain that have not begun
  noticed,   \* a change whose event has not reached the watcher
  timer,     \* the debounce timer is set
  closed,    \* watchContent's flag
  leaving    \* the signal (bound: one): "no", "waiting" to stop the reader, "done"

vars == <<source, snapshot, readers, server, main, job, queued, noticed, timer,
          closed, leaving>>

chain == <<job, queued>>
watch == <<noticed, timer, closed>>

Alive(r) == readers[r].state \in {"starting", "ready", "stopping"}

Init ==
  /\ source = [version |-> 0, valid |-> TRUE]
  /\ snapshot = 0
  /\ readers = [r \in Readers |-> [state |-> "none", version |-> 0, expected |-> FALSE]]
  /\ server = 0
  /\ main = "starting" /\ job = "generate" /\ queued = 0
  /\ noticed = FALSE /\ timer = FALSE /\ closed = FALSE /\ leaving = "no"

\* Someone edits a source.  The watcher ignores what it finds when it starts.
Edit ==
  /\ source.version < MaxEdits
  /\ main = "watching" \/ (main = "starting" /\ ~Quiet)
  /\ \E valid \in BOOLEAN : source' = [version |-> source.version + 1, valid |-> valid]
  /\ noticed' = (noticed \/ main = "watching")
  /\ UNCHANGED <<snapshot, readers, server, main, chain, timer, closed, leaving>>

\* The first generation and reader are there, and the watcher is ready.
Watch ==
  /\ main = "starting" /\ job = "idle"
  /\ main' = "watching"
  /\ UNCHANGED <<source, snapshot, readers, server, chain, watch, leaving>>

\* An event of the watcher: (re)starts the timer.
Notice ==
  /\ noticed /\ main = "watching"
  /\ noticed' = FALSE
  /\ timer' = ~closed
  /\ UNCHANGED <<source, snapshot, readers, server, main, chain, closed, leaving>>

\* Mutant: a change that comes while a regeneration runs is dropped.
FireWhenIdle ==
  /\ timer
  /\ timer' = FALSE
  /\ queued' = IF job = "idle" THEN queued + 1 ELSE queued
  /\ UNCHANGED <<source, snapshot, readers, server, main, job, noticed, closed, leaving>>

\* 180 ms without an event: a regeneration joins the chain.
Fire ==
  /\ timer
  /\ timer' = FALSE /\ queued' = queued + 1
  /\ UNCHANGED <<source, snapshot, readers, server, main, job, noticed, closed, leaving>>

\* SIGTERM to a reader: it stops its server, unless it has not installed its
\* handlers yet, and dies.
Kill(rs, r) ==
  IF r = 0 \/ rs[r].state \notin {"starting", "ready"} THEN rs
  ELSE [rs EXCEPT ![r].state = "stopping"]

Expect(rs, r) == IF r = 0 THEN rs ELSE [Kill(rs, r) EXCEPT ![r].expected = TRUE]

\* The chain's next link; server.stop() is called before its first await.
Begin ==
  /\ main = "watching" /\ queued > 0 /\ job = "idle"
  /\ queued' = queued - 1
  /\ IF closed THEN UNCHANGED <<job, readers>>
               ELSE job' = "stop" /\ readers' = Expect(readers, server)
  /\ UNCHANGED <<source, snapshot, server, main, watch, leaving>>

\* Mutant: the reader is signalled and not awaited.
SignalledOnly(r) == TRUE

Gone(r) == r = 0 \/ ~Alive(r)

\* server.stop() ends with the exit of the reader.
Stopped ==
  /\ job = "stop" /\ Gone(server)
  /\ job' = "generate"
  /\ UNCHANGED <<source, snapshot, readers, server, main, queued, watch, leaving>>

\* content.mjs runs to its end, on the sources as it reads them, or fails.
Generate ==
  /\ job = "generate"
  /\ IF source.valid THEN snapshot' = source.version /\ job' = "start"
                     ELSE job' = "failed" /\ UNCHANGED snapshot
  /\ UNCHANGED <<source, readers, server, main, queued, watch, leaving>>

\* start: forks a reader, which loads the snapshot.
Start ==
  /\ job = "start"
  /\ \E r \in Readers :
       /\ \A q \in Readers : readers[q].state = "none" <=> q >= r
       /\ readers' = [readers EXCEPT ![r] = [@ EXCEPT !.state = "starting",
                                                      !.version = snapshot]]
  /\ job' = "starting"
  /\ UNCHANGED <<source, snapshot, server, main, queued, watch, leaving>>

\* The reader serves; `server` names it.
Ready(r) ==
  /\ job = "starting" /\ readers[r].state = "starting"
  /\ readers' = [readers EXCEPT ![r].state = "ready"]
  /\ server' = r /\ job' = "idle"
  /\ UNCHANGED <<source, snapshot, main, queued, watch, leaving>>

\* A reader that was told to stop, or lost its supervisor, exits.
Exit(r) ==
  /\ readers[r].state = "stopping" \/ (Alive(r) /\ main = "exited")
  /\ readers' = [readers EXCEPT ![r].state = "gone"]
  /\ job' = IF job = "starting" /\ r # server /\ main # "exited" THEN "failed" ELSE job
  /\ IF readers[r].expected \/ r # server \/ main # "watching" THEN UNCHANGED watch
     ELSE closed' = TRUE /\ timer' = FALSE /\ UNCHANGED noticed   \* watcher?.close()
  /\ UNCHANGED <<source, snapshot, server, main, queued, leaving>>

\* A reader dies on its own, or the terminal's SIGINT reaches it too.
Crash(r) ==
  /\ readers[r].state \in {"starting", "ready"}
  /\ main = "watching" \/ ~Quiet
  /\ readers' = [readers EXCEPT ![r].state = "stopping"]
  /\ UNCHANGED <<source, snapshot, server, main, chain, watch, leaving>>

\* The catch of a regeneration: the first failure closes the watcher and stops
\* the reader.  A failure at startup ends the supervisor.
Failed ==
  /\ job = "failed"
  /\ job' = "idle"
  /\ IF main = "starting"
     THEN main' = "exited" /\ UNCHANGED <<watch, readers>>
     ELSE IF closed THEN UNCHANGED <<main, watch, readers>>
     ELSE /\ closed' = TRUE /\ timer' = FALSE
          /\ readers' = Expect(readers, server)
          /\ UNCHANGED <<main, noticed>>
  /\ UNCHANGED <<source, snapshot, server, queued, leaving>>

\* SIGINT or SIGTERM; the handlers come with the watcher.
Signal ==
  /\ leaving = "no"
  /\ IF main = "watching"
     THEN leaving' = "waiting" /\ closed' = TRUE /\ timer' = FALSE /\ UNCHANGED main
     ELSE main = "starting" /\ main' = "exited" /\ UNCHANGED <<leaving, closed, timer>>
  /\ UNCHANGED <<source, snapshot, readers, server, chain, noticed>>

\* Mutant: the handler stops the reader it finds.
NotTheChain == TRUE

ChainEnded == job = "idle" /\ queued = 0

\* The handler has awaited watcher.close(), and so the chain: server.stop().
Leave ==
  /\ leaving = "waiting" /\ ChainEnded
  /\ leaving' = "done"
  /\ readers' = Expect(readers, server)
  /\ UNCHANGED <<source, snapshot, server, main, chain, watch>>

\* Nothing keeps the supervisor's event loop alive.
Exited ==
  /\ main = "watching" /\ closed /\ leaving # "waiting" /\ job = "idle" /\ queued = 0
  /\ \A r \in Readers : ~Alive(r)
  /\ main' = "exited"
  /\ UNCHANGED <<source, snapshot, readers, server, chain, watch, leaving>>

Progress ==
  \/ Watch \/ Notice \/ Fire \/ Leave \/ Exited
  \/ main # "exited" /\ (Begin \/ Stopped \/ Generate \/ Start \/ Failed)
  \/ \E r \in Readers : main # "exited" /\ Ready(r)
  \/ \E r \in Readers : Exit(r)

Next == Progress \/ Edit \/ Signal \/ \E r \in Readers : Crash(r)

Spec == Init /\ [][Next]_vars

\* The supervisor's event loop, its timer and its children go on.
FairSpec == Spec /\ WF_vars(Progress)

(* Properties *)

\* A reader never runs beside another, nor while the snapshot is replaced
\* (website/README.md:31, "directory swaps appear reliably").
ReaderIsAlone ==
  \A r \in Readers : Alive(r) =>
    /\ job # "generate" \/ main = "exited"
    /\ \A q \in Readers : Alive(q) => q = r

\* While the supervisor watches, what was edited last is served again and again,
\* unless the watcher closed on a failure or a signal: no event is lost between
\* the debounce, the chain and the restarts (planning/implementation-spec.md:856).
EditsAreServed ==
  []<>(\/ \E r \in Readers : readers[r].state = "ready" /\ readers[r].version = source.version
       \/ closed \/ main = "exited")

\* A failure or a signal ends the supervisor and leaves no reader behind, even
\* one that a regeneration in progress starts after the signal.
ClosingEnds ==
  closed \/ main = "exited" ~>
    main = "exited" /\ \A r \in Readers : ~Alive(r)
=============================================================================
