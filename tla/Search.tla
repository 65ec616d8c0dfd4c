------------------------------- MODULE Search -------------------------------
(***************************************************************************)
(* The documentation search of the website: the dialog's controller        *)
(* (website/src/scripts/search.ts), the client of the search worker        *)
(* (pagefind-client.ts) and the worker's queue (pagefind-worker.ts).       *)
(*                                                                         *)
(* A step of the page is a task of its event loop (an input event, a       *)
(* timer, a message of the worker) with the microtasks it resolves.  The   *)
(* engine's ranking is external: a query has a fixed number of hits, and   *)
(* an operation whose fetch fails may return less, or nothing.             *)
(***************************************************************************)
EXTENDS SearchLimits, Sequences, FiniteSets, FiniteSetsExt, SequencesExt, TLC

Workers == 1..MaxGen     \* a generation creates one worker at most

VARIABLES
  page,      \* the dialog: input, generation, timer, state, matches, screen, more
  api,       \* the engine's promise: its worker and its state
  tasks,     \* the suspended calls of search and showPage
  workers    \* the clients with their workers

vars == <<page, api, tasks, workers>>

NoTimer == 0
NoApi == [worker |-> 0, state |-> "none"]
NoMatches == [worker |-> 0, sequence |-> 0, count |-> 0]
Unused == [made |-> FALSE, live |-> FALSE, pending |-> {}, posted |-> 0,
           inbox |-> << >>, busy |-> {}, outbox |-> << >>,
           fetchFailed |-> FALSE, engine |-> FALSE, sequence |-> 0, active |-> Blank]

Init ==
  /\ page = [text |-> Blank, gen |-> 0, timer |-> NoTimer, state |-> "initial",
             matches |-> NoMatches, screen |-> << >>, more |-> FALSE]
  /\ api = NoApi
  /\ tasks = {}
  /\ workers = [w \in Workers |-> Unused]

(* The client *)

\* A message to the worker: its number, method and value; whether its fetch failed.
Request(method, query, sequence, index) ==
  [n |-> 0, method |-> method, query |-> query, sequence |-> sequence, index |-> index,
   lost |-> FALSE]

\* call: an entry of pending for each request, and a message to the worker,
\* which vanishes when the worker was terminated.
Call(ws, w, requests) ==
  LET numbered == [i \in DOMAIN requests |-> [requests[i] EXCEPT !.n = ws[w].posted + i]]
  IN [ws EXCEPT ![w].posted = @ + Len(requests),
                ![w].pending = @ \cup {numbered[i].n : i \in DOMAIN numbered},
                ![w].inbox = IF ws[w].live THEN @ \o numbered ELSE @]

\* The numbers Call gives to requests.
Numbers(ws, w, count) == {ws[w].posted + i : i \in 1..count}

\* destroy terminates the worker and rejects what is pending.
Destroy(ws, w) ==
  IF w = 0 THEN ws
  ELSE [ws EXCEPT ![w].live = FALSE, ![w].pending = {}, ![w].inbox = << >>,
                  ![w].busy = {}, ![w].outbox = << >>]

(* The controller *)

Cleared(p) == [p EXCEPT !.matches = NoMatches, !.screen = << >>, !.more = FALSE]

\* Mutant: a change of the input keeps the generation.
ChangedSilently(p, text) ==
  [Cleared(p) EXCEPT !.text = text,
                     !.gen = IF p.gen = 0 THEN 1 ELSE @,
                     !.timer = IF text = Blank THEN NoTimer ELSE 1,
                     !.state = IF text = Blank THEN "initial" ELSE "loading"]

\* changed: a new generation, and a search in 180 ms.
Changed(p, text) ==
  [Cleared(p) EXCEPT !.text = text,
                     !.gen = @ + 1,
                     !.timer = IF text = Blank THEN NoTimer ELSE p.gen + 1,
                     !.state = IF text = Blank THEN "initial" ELSE "loading"]

\* Mutant: every call is taken for the current one.
AnyGeneration(p, id) == TRUE

IsCurrent(p, id) == id = p.gen

\* Mutant: the client of a failed search is forgotten, not destroyed.
FailLeaking(p, a, ts, ws) ==
  /\ page' = [Cleared(p) EXCEPT !.state = "error"]
  /\ api' = NoApi
  /\ tasks' = ts
  /\ workers' = ws

\* fail, for the current generation: the client is destroyed and forgotten,
\* which rejects every other call, of an earlier generation and so without effect.
Fail(p, a, ts, ws) ==
  /\ page' = [Cleared(p) EXCEPT !.state = "error"]
  /\ api' = NoApi
  /\ tasks' = {t \in ts : t.worker # a.worker}
  /\ workers' = Destroy(ws, a.worker)

\* The rejected calls leave; the current one among them fails.
Reject(rejected, p, a, ts, ws) ==
  IF \E t \in rejected : IsCurrent(p, t.id)
  THEN Fail(p, a, ts \ rejected, ws)
  ELSE /\ page' = p /\ api' = a /\ tasks' = ts \ rejected /\ workers' = ws

LoadTask(call, w) ==
  [id |-> call.id, query |-> call.query, worker |-> w, step |-> "load",
   need |-> {}, got |-> {}]

\* The rest of search once the engine is there: these calls ask for their matches.
Ask(calls, p, a, ts, ws) ==
  LET w == a.worker
      order == SetToSeq(calls)     \* one call is current
  IN /\ page' = p /\ api' = a
     /\ workers' = Call(ws, w, [i \in DOMAIN order |-> Request("search", order[i].query, 0, 0)])
     /\ tasks' = ts \cup {[id |-> order[i].id, query |-> order[i].query, worker |-> w,
                           step |-> "search", need |-> {ws[w].posted + i}, got |-> {}] :
                             i \in DOMAIN order}

\* search(id): load the engine, or wait for it, or use it, or meet its failure.
StartSearch(id, p) ==
  LET q == [p EXCEPT !.state = "loading"]
      call == [id |-> id, query |-> p.text]
  IN IF p.text = Blank \/ ~IsCurrent(p, id)
     THEN page' = p /\ UNCHANGED <<api, tasks, workers>>
     ELSE \/ /\ api.state = "none"
             /\ LET w == Cardinality({v \in Workers : workers[v].made}) + 1
                IN /\ api' = [worker |-> w, state |-> "pending"]
                   /\ tasks' = tasks \cup {LoadTask(call, w)}
                   /\ workers' = Call([workers EXCEPT ![w].made = TRUE, ![w].live = TRUE],
                                      w, <<Request("options", Blank, 0, 0)>>)
             /\ page' = q
          \/ /\ api.state = "pending"
             /\ tasks' = tasks \cup {LoadTask(call, api.worker)}
             /\ page' = q /\ UNCHANGED <<api, workers>>
          \/ api.state = "ready" /\ Ask({call}, q, api, tasks, workers)
          \/ api.state = "failed" /\ Fail(q, api, tasks, workers)

\* The results of a page: slice(shown, shown + 5).
Slice(p) == Min({PageSize, p.matches.count - Len(p.screen)})

\* showPage: ask for the next results.
ShowPage(id, p, a, ts, ws) ==
  LET m == p.matches
      count == Slice(p)
  IN IF count = 0
     THEN /\ page' = [p EXCEPT !.state = "empty"]
          /\ api' = a /\ tasks' = ts /\ workers' = ws
     ELSE /\ page' = p /\ api' = a
          /\ workers' = Call(ws, m.worker, [i \in 1..count |->
                          Request("data", p.text, m.sequence, Len(p.screen) + i)])
          /\ tasks' = ts \cup {[id |-> id, query |-> p.text, worker |-> m.worker,
                                step |-> "page", need |-> Numbers(ws, m.worker, count), got |-> {}]}

\* The rest of showPage: append what came, in the order of the matches.
Render(p, got) ==
  LET shown == Len(p.screen)
      screen == p.screen \o [i \in 1..Slice(p) |-> CHOOSE g \in got : g.index = shown + i]
  IN [p EXCEPT !.screen = screen,
               !.more = Len(screen) < p.matches.count,
               !.state = "results"]

(* The page's tasks *)

Input(text) ==
  /\ page.gen < MaxGen
  /\ page' = Changed(page, text)
  /\ UNCHANGED <<api, tasks, workers>>

\* The form, when there is no result to follow: searches without the delay.
Submit ==
  /\ page.gen < MaxGen
  /\ page.state \notin {"results", "loading"}
  /\ StartSearch(page.gen + 1, [Changed(page, page.text) EXCEPT !.timer = NoTimer])

Retry ==
  /\ page.gen < MaxGen
  /\ page.state = "error"
  /\ page' = Changed(page, page.text)
  /\ api' = NoApi
  /\ workers' = Destroy(workers, api.worker)
  /\ tasks' = {t \in tasks : t.worker # api.worker}

More ==
  /\ page.more
  /\ ShowPage(page.gen, [page EXCEPT !.more = FALSE, !.state = "loading"],
              api, tasks, workers)

Fire ==
  /\ page.timer # NoTimer
  /\ StartSearch(page.timer, [page EXCEPT !.timer = NoTimer])

\* Mutant: bounded waits for as long as its promise does.
NeverTimesOut(t) == FALSE

\* bounded: 12 seconds after a call that is not settled.
TimesOut(t) == t \in tasks

\* The load of the engine is one promise, whose timer rejects all who wait.
Timeout(t) ==
  /\ TimesOut(t)
  /\ IF t.step = "load"
     THEN Reject({u \in tasks : u.step = "load" /\ u.worker = t.worker}, page,
                 IF api.worker = t.worker THEN [api EXCEPT !.state = "failed"] ELSE api,
                 tasks, workers)
     ELSE Reject({t}, page, api, tasks, workers)

\* The engine is there: the current call asks, the others end.
Loaded(w, ws) ==
  LET waiting == {t \in tasks : t.step = "load" /\ t.worker = w}
  IN Ask({t \in waiting : IsCurrent(page, t.id)}, page,
         [api EXCEPT !.state = "ready"], tasks \ waiting, ws)

\* The matches came.
Matched(t, reply, ws) ==
  IF ~IsCurrent(page, t.id)
  THEN tasks' = tasks \ {t} /\ workers' = ws /\ UNCHANGED <<page, api>>
  ELSE ShowPage(t.id, [page EXCEPT !.matches = [worker |-> t.worker,
                                                sequence |-> reply.sequence,
                                                count |-> reply.count]],
                api, tasks \ {t}, ws)

\* One of a page's results came; with the last, the page is rendered, which
\* throws on an unsafe result.
Fetched(t, reply, ws) ==
  LET got == t.got \cup {reply.item}
      rest == tasks \ {t}
  IN IF t.need # {reply.n}
     THEN /\ tasks' = rest \cup {[t EXCEPT !.need = @ \ {reply.n}, !.got = got]}
          /\ workers' = ws /\ UNCHANGED <<page, api>>
     ELSE IF ~IsCurrent(page, t.id)
     THEN tasks' = rest /\ workers' = ws /\ UNCHANGED <<page, api>>
     ELSE \/ /\ page' = Render(page, got)
             /\ tasks' = rest /\ workers' = ws /\ UNCHANGED api
          \/ Fail(page, api, rest, ws)

\* onmessage: settles the pending call of the oldest message.
Deliver(w) ==
  /\ workers[w].outbox # << >>
  /\ LET reply == Head(workers[w].outbox)
         ws == [workers EXCEPT ![w].outbox = Tail(@), ![w].pending = @ \ {reply.n}]
         waiting == {t \in tasks : t.worker = w /\ reply.n \in t.need}
     IN \/ /\ reply.method = "options" /\ api.state = "pending"
           /\ IF reply.ok THEN Loaded(w, ws)
              ELSE Reject({t \in tasks : t.step = "load" /\ t.worker = w}, page,
                          [api EXCEPT !.state = "failed"], tasks, ws)
        \/ /\ IF reply.method = "options" THEN api.state # "pending" ELSE waiting = {}
           /\ workers' = ws /\ UNCHANGED <<page, api, tasks>>
        \/ /\ reply.method # "options" /\ waiting # {}
           /\ IF ~reply.ok THEN Reject(waiting, page, api, tasks, ws)
              ELSE \E t \in waiting : IF reply.method = "search" THEN Matched(t, reply, ws)
                                                                ELSE Fetched(t, reply, ws)

\* onerror: the client destroys itself; the controller's promise stays.
Crash(w) ==
  /\ workers[w].live
  /\ LET loading == 1 \in workers[w].pending
     IN Reject({t \in tasks : t.worker = w /\ (t.step # "load" \/ loading)}, page,
               IF loading /\ api.worker = w THEN [api EXCEPT !.state = "failed"] ELSE api,
               tasks, Destroy(workers, w))

(* The worker *)

\* Mutant: operations overlap.
Overlaps(w) == TRUE

\* The queue: an operation starts when the one before has ended.
Serial(w) == workers[w].busy = {}

Begin(w) ==
  /\ workers[w].live /\ workers[w].inbox # << >>
  /\ Serial(w)
  /\ workers' = [workers EXCEPT ![w].inbox = Tail(@),
                                ![w].busy = @ \cup {Head(workers[w].inbox)},
                                ![w].fetchFailed = FALSE]
  /\ UNCHANGED <<page, api, tasks>>

\* A fetch of a running operation fails, which the engine may swallow.
LoseFetch(w, r) ==
  /\ r \in workers[w].busy /\ ~r.lost
  /\ workers' = [workers EXCEPT ![w].busy = (@ \ {r}) \cup {[r EXCEPT !.lost = TRUE]},
                                ![w].fetchFailed = TRUE]
  /\ UNCHANGED <<page, api, tasks>>

\* Mutant: what the engine swallowed passes for an answer.
Swallowed(w) == FALSE

FetchFailed(w) == workers[w].fetchFailed

\* An operation ends: its answer, or an error.  The engine throws when it loses a
\* fetch, or goes on without what it lost.
Finish(w, r) ==
  /\ r \in workers[w].busy
  /\ \E completes \in {~r.lost, TRUE} :
       LET me == workers[w]
           searched == r.method = "search" /\ me.engine /\ completes
           right == CASE r.method = "options" -> completes
                      [] r.method = "search" -> searched
                      [] r.method = "data" -> completes /\ r.sequence = me.sequence
           answer == [n |-> r.n, method |-> r.method, ok |-> right /\ ~FetchFailed(w),
                      count |-> IF searched /\ ~r.lost THEN Hits[r.query] ELSE 0,
                      sequence |-> me.sequence + 1,
                      item |-> [query |-> me.active, index |-> r.index, whole |-> ~r.lost]]
       IN workers' = [workers EXCEPT ![w] =
            [me EXCEPT !.busy = @ \ {r},
                       !.outbox = Append(@, answer),
                       !.engine = @ \/ (r.method = "options" /\ completes),
                       !.sequence = IF searched THEN @ + 1 ELSE @,
                       !.active = IF searched THEN r.query ELSE @]]
  /\ UNCHANGED <<page, api, tasks>>

Next ==
  \/ \E text \in Queries \cup {Blank} : Input(text)
  \/ Submit \/ Retry \/ More \/ Fire
  \/ \E t \in tasks : Timeout(t)
  \/ \E w \in Workers : \/ Deliver(w) \/ Crash(w) \/ Begin(w)
                        \/ \E r \in workers[w].busy : LoseFetch(w, r) \/ Finish(w, r)

Spec == Init /\ [][Next]_vars

\* Timers fire.  Nothing is assumed of the worker or of the network.
FairSpec ==
  /\ Spec
  /\ WF_vars(Fire)
  /\ WF_vars(\E t \in tasks : IsCurrent(page, t.id) /\ Timeout(t))

(* Properties *)

\* What the dialog shows is the answer to the text in its input: the first hits
\* of that query, whole, in order, each once, whatever was typed, retried or
\* asked for while searches, pages and failures were on their way; a list that
\* has ended holds every hit, and "No results" is said of a query that has none,
\* never of a search whose fetches failed (search.ts:116-170,
\* pagefind-worker.ts:33-56).
ScreenIsTheAnswer ==
  /\ page.screen = [i \in 1..Len(page.screen) |->
                     [query |-> page.text, index |-> i, whole |-> TRUE]]
  /\ page.state = "results" =>
       /\ page.text # Blank
       /\ Len(page.screen) <= Hits[page.text]
       /\ page.more = (Len(page.screen) < Hits[page.text])
  /\ page.state = "empty" => page.text # Blank /\ Hits[page.text] = 0

\* Every worker that runs is the one that the next failure or retry destroys:
\* none is leaked (search.ts:133-143, 301-307).
NoLeakedWorker == \A w \in Workers : workers[w].live => w = api.worker

\* The current page's results are never obsolete in the worker: no stale call
\* asks for matches after the current one (pagefind-worker.ts:47-50).
NeverObsolete ==
  \A t \in tasks : t.step = "page" /\ IsCurrent(page, t.id) /\ workers[t.worker].live =>
    /\ workers[t.worker].sequence = page.matches.sequence
    /\ \A i \in DOMAIN workers[t.worker].inbox : workers[t.worker].inbox[i].method = "data"

\* The dialog never stays busy: a worker that hangs, dies or was terminated ends
\* in an error, for an input that rests.
LoadingEnds == page.state = "loading" ~> page.state # "loading"
=============================================================================
