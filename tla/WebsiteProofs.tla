---------------------------- MODULE WebsiteProofs ----------------------------
(***************************************************************************)
(* Proofs about the website's parts of MCServices, each for itself.        *)
(*                                                                         *)
(* Search, for any queries, hits, page size and changes of the input:      *)
(*   ScreenCorrect    what the dialog shows answers the text in its input  *)
(*   WorkersCorrect   no search worker is leaked                           *)
(*   ResultsCorrect   the current page's results are never obsolete        *)
(* DevServer, for any number of edits, whether or not something happens    *)
(* before the watcher is ready:                                            *)
(*   ReaderAlone      one reader at a time, and none beside a generation   *)
(***************************************************************************)
EXTENDS Search, TLAPS, FiniteSetTheorems, SequenceTheorems

CONSTANTS
  MaxEdits,     \* bound: edits of the sources
  QuietStart    \* nothing happens before the watcher is ready

VARIABLES
  source, snapshot, readers, server, main, job, queued, noticed, timer, closed, leaving

Dev == INSTANCE DevServer WITH Quiet <- QuietStart

DevSpec == Dev!Init /\ [][Dev!Next]_(Dev!vars)

\* DevServer's property: one reader at a time, never beside a generation.
ReaderIsAlone == Dev!ReaderIsAlone

(***************************************************************************)
(* Search.  Its three theorems follow from one inductive invariant,        *)
(* SearchInv, whose parts relate the four processes:                       *)
(*   Orderly   a worker's queue, its operation and its answers hold        *)
(*             requests in the order of their numbers;                     *)
(*   Engines   workers are created in order, one a generation at most, and *)
(*             only the one of the engine's promise runs;                  *)
(*   Dialog    what is shown is a prefix of the hits of the input's text;  *)
(*   Calls     one suspended call at most is of the current generation;    *)
(*   Linked    the current call finds in its worker what it waits for      *)
(*             (Searching, Paging), and nothing there will make the        *)
(*             current matches obsolete (Latest).                          *)
(* The parts are operators of a dialog p, a promise a, suspended calls ts  *)
(* and clients ws, because a handler composes several changes of them.     *)
(***************************************************************************)

\* The values of the state.
Texts == Queries \cup {Blank}
Methods == {"options", "search", "data"}
Items == [query : Texts, index : Nat, whole : BOOLEAN]
Requests == {r \in [n : Nat, method : Methods, query : Texts, sequence : Nat, index : Nat,
                    lost : BOOLEAN] : r.method = "search" => r.query \in Queries}
Replies == [n : Nat, method : Methods, ok : BOOLEAN, count : Nat, sequence : Nat, item : Items]
Pages == [text : Texts, gen : Nat, timer : Nat,
          state : {"initial", "loading", "results", "empty", "error"},
          matches : [worker : Nat, sequence : Nat, count : Nat],
          screen : Seq(Items), more : BOOLEAN]
Apis == [worker : Nat, state : {"none", "pending", "ready", "failed"}]
Tasks == [id : Nat, query : Texts, worker : Workers, step : {"load", "search", "page"},
          need : SUBSET Nat, got : SUBSET Items]
Clients == [made : BOOLEAN, live : BOOLEAN, pending : SUBSET Nat, posted : Nat,
            inbox : Seq(Requests), busy : SUBSET Requests, outbox : Seq(Replies),
            fetchFailed : BOOLEAN, engine : BOOLEAN, sequence : Nat, active : Texts]

\* The four processes have their types.
Typed(p, a, ts, ws) ==
  /\ p \in Pages /\ a \in Apis /\ ts \in SUBSET Tasks /\ ws \in [Workers -> Clients]

\* The requests of the queue, those not answered, and the answers.
InBox(me) == {me.inbox[i] : i \in DOMAIN me.inbox}
Waiting(me) == me.busy \cup InBox(me)
Answers(me) == {me.outbox[i] : i \in DOMAIN me.outbox}

\* The queue, the operation and the answers, in the order of the requests' numbers.
Orderly(me) ==
  /\ me.live \/ (me.inbox = << >> /\ me.busy = {} /\ me.outbox = << >>)
  /\ \A r, s \in me.busy : r = s
  /\ \A r \in me.busy : r.lost => me.fetchFailed
  /\ \A r \in InBox(me) : ~r.lost
  /\ \A i, j \in DOMAIN me.inbox : i < j => me.inbox[i].n < me.inbox[j].n
  /\ \A r \in me.busy : \A s \in InBox(me) : r.n < s.n
  /\ \A x \in Answers(me) : \A r \in Waiting(me) : x.n < r.n
  /\ \A r \in Waiting(me) : r.n <= me.posted
  /\ \A x \in Answers(me) : x.n <= me.posted

\* Workers are made in order, one for each generation at most; the promise's runs.
Made(ws) == {w \in Workers : ws[w].made}
Engines(p, a, ws) ==
  /\ \E k \in 0..MaxGen : /\ Made(ws) = 1..k /\ k <= p.gen /\ (p.timer # 0 => k < p.gen)
  /\ p.gen <= MaxGen
  /\ (a.state = "none") <=> (a.worker = 0)
  /\ a.worker \in 0..MaxGen
  /\ \A w \in Workers : ws[w].live => w = a.worker /\ ws[w].made

\* A hit as the dialog shows it.
Shown(text, i) == [query |-> text, index |-> i, whole |-> TRUE]

\* What the dialog shows answers its text.
Dialog(p) ==
  /\ p.timer # 0 => /\ p.timer = p.gen /\ p.state = "loading"
                    /\ p.matches = NoMatches /\ p.text # Blank
  /\ p.matches.worker = 0 => p.matches = NoMatches /\ p.screen = << >> /\ ~p.more
  /\ p.screen = [i \in 1..Len(p.screen) |-> Shown(p.text, i)]
  /\ p.matches.worker # 0 => /\ p.text # Blank /\ p.matches.worker \in Workers
                             /\ p.matches.count = Hits[p.text]
                             /\ Len(p.screen) <= p.matches.count
  /\ p.state = "results" => /\ p.matches.worker # 0
                            /\ p.more = (Len(p.screen) < p.matches.count)
  /\ p.more => p.state = "results"
  /\ p.state = "empty" => p.text # Blank /\ Hits[p.text] = 0

\* The calls of the current generation: one at most.
Calls(p, ts) ==
  /\ \A t \in ts : t.id <= p.gen
  /\ \A t \in ts : t.id = p.gen =>
       /\ p.timer = 0 /\ p.state = "loading" /\ t.query = p.text /\ p.text # Blank
       /\ t.step = "load" => t.need = {}
       /\ t.step # "page" => p.matches = NoMatches
       /\ t.step = "page" => t.worker = p.matches.worker
  /\ \A t, u \in ts : t.id = p.gen /\ u.id = p.gen => t = u

\* The matches are the newest of their worker, and will be.
Latest(p, me) ==
  me.live => /\ me.sequence = p.matches.sequence /\ me.active = p.text
             /\ \A r \in Waiting(me) : r.method = "data"

\* A call that waits for its matches.
Searching(t, me) ==
  \E n \in 1 .. me.posted :
    /\ t.need = {n} /\ n <= me.posted
    /\ \A r \in Waiting(me) : /\ r.n = n => r.method = "search" /\ r.query = t.query
                              /\ r.method # "data" => r.n <= n
    /\ \A x \in Answers(me) : x.n = n =>
         /\ x.method = "search"
         /\ x.ok => /\ x.count = Hits[t.query] /\ x.sequence = me.sequence
                    /\ me.active = t.query

\* A call that waits for the rest of a page.
Paging(p, t, me) ==
  LET shown == Len(p.screen)
  IN /\ Slice(p) > 0
     /\ \E base \in 0 .. me.posted :
          /\ t.need # {} /\ t.need \subseteq base + 1 .. base + Slice(p)
          /\ base + Slice(p) <= me.posted
          /\ t.got = {Shown(p.text, shown + (n - base)) :
                       n \in (base + 1 .. base + Slice(p)) \ t.need}
          /\ \A r \in Waiting(me) : r.n \in t.need =>
               /\ r.method = "data" /\ r.sequence = p.matches.sequence
               /\ r.index = shown + (r.n - base)
          /\ \A x \in Answers(me) : x.n \in t.need =>
               /\ x.method = "data"
               /\ x.ok => x.item = Shown(p.text, shown + (x.n - base))

\* The current matches and the current call, with their worker.
Linked(p, ts, ws) ==
  /\ p.matches.worker # 0 => Latest(p, ws[p.matches.worker])
  /\ \A t \in ts : t.id = p.gen =>
       /\ t.step = "search" => Searching(t, ws[t.worker])
       /\ t.step = "page" => Paging(p, t, ws[t.worker])

\* The invariant of a dialog, a promise, calls and clients.
Sound(p, a, ts, ws) ==
  /\ Typed(p, a, ts, ws)
  /\ \A w \in Workers : Orderly(ws[w])
  /\ Engines(p, a, ws)
  /\ Dialog(p)
  /\ Calls(p, ts)
  /\ Linked(p, ts, ws)

\* Two requests that differ by their fetch at most.
Same(r, s) == /\ r.n = s.n /\ r.method = s.method /\ r.query = s.query
              /\ r.sequence = s.sequence /\ r.index = s.index

\* A change of a client that answers nothing, and asks for results at most.
Kept(me, new) ==
  /\ new.sequence = me.sequence /\ new.active = me.active
  /\ me.posted <= new.posted
  /\ new.live => me.live
  /\ Answers(new) \subseteq Answers(me)
  /\ \A s \in Waiting(new) : \/ s.n > me.posted /\ s.method = "data"
                             \/ \E r \in Waiting(me) : Same(r, s)

\* The messages of a client are requests and replies.
LEMMA MessagesTyped ==
  ASSUME NEW me \in Clients
  PROVE  /\ Waiting(me) \subseteq Requests /\ InBox(me) \subseteq Requests
         /\ Answers(me) \subseteq Replies
         /\ me.busy \subseteq Waiting(me) /\ InBox(me) \subseteq Waiting(me)
         /\ DOMAIN me.inbox = 1 .. Len(me.inbox) /\ DOMAIN me.outbox = 1 .. Len(me.outbox)
         /\ Len(me.inbox) \in Nat /\ Len(me.outbox) \in Nat
<1>1. me.inbox \in Seq(Requests) /\ me.outbox \in Seq(Replies) /\ me.busy \subseteq Requests
  BY DEF Clients
<1>2. /\ DOMAIN me.inbox = 1 .. Len(me.inbox) /\ DOMAIN me.outbox = 1 .. Len(me.outbox)
      /\ Len(me.inbox) \in Nat /\ Len(me.outbox) \in Nat
  BY <1>1, LenProperties
<1> QED BY <1>1, <1>2, ElementOfSeq DEF Waiting, InBox, Answers

\* Slice is the least of the page's size and of what is left (search.ts:106).
LEMMA SliceValue ==
  ASSUME NEW p \in Pages
  PROVE  /\ Slice(p) = IF PageSize <= p.matches.count - Len(p.screen) THEN PageSize
                       ELSE p.matches.count - Len(p.screen)
         /\ Slice(p) \in Int /\ p.matches.count \in Nat /\ Len(p.screen) \in Nat
<1> DEFINE left == p.matches.count - Len(p.screen)
<1>1. p.matches.count \in Nat /\ p.screen \in Seq(Items)
  BY DEF Pages
<1>2. Len(p.screen) \in Nat
  BY <1>1, LenProperties
<1>3. left \in Int /\ PageSize \in Int
  BY <1>1, <1>2, SearchAssumption
<1> HIDE DEF left
<1>4. PICK m \in {PageSize, left} : \A y \in {PageSize, left} : m <= y
  BY <1>3
<1>5. /\ Min({PageSize, left}) \in {PageSize, left}
      /\ \A y \in {PageSize, left} : Min({PageSize, left}) <= y
  BY <1>4 DEF Min
<1>6. Min({PageSize, left}) = IF PageSize <= left THEN PageSize ELSE left
  BY <1>5, <1>3
<1>7. Slice(p) = Min({PageSize, left})
  BY DEF Slice, left
<1>8. /\ Slice(p) = IF PageSize <= left THEN PageSize ELSE left
      /\ Slice(p) \in Int
  BY <1>7, <1>6, <1>3
<1> QED BY <1>8, <1>1, <1>2 DEF left

\* A client that changes as Kept says leaves the matches the newest.
LEMMA LatestKept ==
  ASSUME NEW p, NEW me \in Clients, NEW new \in Clients, Kept(me, new), Latest(p, me)
  PROVE  Latest(p, new)
<1>1. SUFFICES ASSUME new.live
      PROVE /\ new.sequence = p.matches.sequence /\ new.active = p.text
            /\ \A s \in Waiting(new) : s.method = "data"
  BY DEF Latest
<1>2. me.live
  BY <1>1 DEF Kept
<1>3. /\ me.sequence = p.matches.sequence /\ me.active = p.text
      /\ \A r \in Waiting(me) : r.method = "data"
  BY <1>2 DEF Latest
<1>4. ASSUME NEW s \in Waiting(new) PROVE s.method = "data"
  BY <1>3 DEF Kept, Same
<1> QED BY <1>3, <1>4 DEF Kept

\* It leaves a search on its way.
LEMMA SearchingKept ==
  ASSUME NEW t, NEW me \in Clients, NEW new \in Clients, Kept(me, new), Searching(t, me)
  PROVE  Searching(t, new)
<1>1. PICK n \in 1 .. me.posted :
    /\ t.need = {n} /\ n <= me.posted
    /\ \A r \in Waiting(me) : /\ r.n = n => r.method = "search" /\ r.query = t.query
                              /\ r.method # "data" => r.n <= n
    /\ \A x \in Answers(me) : x.n = n =>
         /\ x.method = "search"
         /\ x.ok => /\ x.count = Hits[t.query] /\ x.sequence = me.sequence
                    /\ me.active = t.query
  BY DEF Searching
<1>2. me.posted \in Nat /\ new.posted \in Nat
  BY DEF Clients
<1>21. me.posted <= new.posted
  BY DEF Kept
<1>3. n \in 1 .. new.posted /\ n <= new.posted
  BY <1>2, <1>21
<1>4. ASSUME NEW s \in Waiting(new)
      PROVE /\ s.n = n => s.method = "search" /\ s.query = t.query
            /\ s.method # "data" => s.n <= n
  <2>1. s.n \in Nat
    BY MessagesTyped DEF Requests
  <2>2. CASE s.n > me.posted /\ s.method = "data"
    BY <2>1, <2>2, <1>1, <1>2
  <2>3. CASE \E r \in Waiting(me) : Same(r, s)
    BY <2>3, <1>1 DEF Same
  <2> QED BY <2>2, <2>3 DEF Kept
<1>5. ASSUME NEW x \in Answers(new), x.n = n
      PROVE /\ x.method = "search"
            /\ x.ok => /\ x.count = Hits[t.query] /\ x.sequence = new.sequence
                       /\ new.active = t.query
  BY <1>5, <1>1 DEF Kept
<1> QED BY <1>1, <1>3, <1>4, <1>5 DEF Searching

\* It leaves a page on its way.
LEMMA PagingKept ==
  ASSUME NEW p \in Pages, NEW t \in Tasks, NEW me \in Clients, NEW new \in Clients, Kept(me, new),
         Paging(p, t, me)
  PROVE  Paging(p, t, new)
<1> DEFINE shown == Len(p.screen)
<1> DEFINE count == Slice(p)
<1>0. count > 0
  BY DEF Paging
<1>1. PICK base \in 0 .. me.posted :
          /\ t.need # {} /\ t.need \subseteq base + 1 .. base + count
          /\ base + count <= me.posted
          /\ t.got = {Shown(p.text, shown + (n - base)) :
                       n \in (base + 1 .. base + count) \ t.need}
          /\ \A r \in Waiting(me) : r.n \in t.need =>
               /\ r.method = "data" /\ r.sequence = p.matches.sequence
               /\ r.index = shown + (r.n - base)
          /\ \A x \in Answers(me) : x.n \in t.need =>
               /\ x.method = "data"
               /\ x.ok => x.item = Shown(p.text, shown + (x.n - base))
  BY DEF Paging
<1>2. me.posted \in Nat /\ new.posted \in Nat
  BY DEF Clients
<1>21. me.posted <= new.posted
  BY DEF Kept
<1>3. base \in 0 .. new.posted
  BY <1>2, <1>21
<1>4. \A n \in t.need : n <= base + count
  BY <1>1
<1> HIDE DEF shown, count
<1>5. base + count <= new.posted /\ \A n \in t.need : ~(n > me.posted)
  <2>1. count \in Int
    BY SliceValue DEF count
  <2> QED BY <2>1, <1>1, <1>2, <1>21, <1>4
<1>6. ASSUME NEW s \in Waiting(new), s.n \in t.need
      PROVE /\ s.method = "data" /\ s.sequence = p.matches.sequence
            /\ s.index = shown + (s.n - base)
  BY <1>6, <1>1, <1>5 DEF Kept, Same
<1>7. \A x \in Answers(new) : x.n \in t.need =>
               /\ x.method = "data"
               /\ x.ok => x.item = Shown(p.text, shown + (x.n - base))
  BY <1>1 DEF Kept
<1> QED BY <1>0, <1>1, <1>3, <1>5, <1>6, <1>7 DEF Paging, shown, count

(* What each step of a client does to it *)

\* A client that does not change keeps everything.
LEMMA KeptSelf == ASSUME NEW me \in Clients PROVE Kept(me, me)
<1>1. me.posted <= me.posted
  BY DEF Clients
<1> QED BY <1>1 DEF Kept, Same

\* A client after destroy.
Stopped(me) == [me EXCEPT !.live = FALSE, !.pending = {}, !.inbox = << >>,
                          !.busy = {}, !.outbox = << >>]

\* A destroyed client holds no message (pagefind-client.ts:37-42).
LEMMA StoppedClient ==
  ASSUME NEW me \in Clients
  PROVE  /\ Stopped(me) \in Clients /\ Orderly(Stopped(me)) /\ Kept(me, Stopped(me))
         /\ ~Stopped(me).live /\ Stopped(me).made = me.made
<1> DEFINE new == Stopped(me)
<1>0. me.posted \in Nat
  BY DEF Clients
<1>1. /\ new.live = FALSE /\ new.inbox = << >> /\ new.busy = {} /\ new.outbox = << >>
      /\ new.posted = me.posted /\ new.sequence = me.sequence /\ new.active = me.active
      /\ new.made = me.made
  BY DEF Stopped, Clients
<1>2. new \in Clients
  <2>1. << >> \in Seq(Requests) /\ << >> \in Seq(Replies)
    OBVIOUS
  <2> QED BY <2>1 DEF Stopped, Clients
<1> HIDE DEF new
<1>3. InBox(new) = {} /\ Waiting(new) = {} /\ Answers(new) = {}
  BY <1>1 DEF InBox, Waiting, Answers
<1>4. Orderly(new)
  BY <1>1, <1>3 DEF Orderly
<1>5. Kept(me, new)
  BY <1>0, <1>1, <1>3 DEF Kept
<1> QED BY <1>1, <1>2, <1>4, <1>5 DEF new

\* A change of the clients that keeps what is on its way.
Steady(ws, new) ==
  /\ new \in [Workers -> Clients]
  /\ \A v \in Workers : Orderly(new[v]) /\ Kept(ws[v], new[v]) /\ new[v].made = ws[v].made

\* The clients are steady when one of them is.
LEMMA OneChanged ==
  ASSUME NEW ws \in [Workers -> Clients], \A v \in Workers : Orderly(ws[v]),
         NEW w \in Workers, NEW me \in Clients, Orderly(me), Kept(ws[w], me), me.made = ws[w].made
  PROVE  Steady(ws, [ws EXCEPT ![w] = me])
<1>1. \A v \in Workers : [ws EXCEPT ![w] = me][v] = IF v = w THEN me ELSE ws[v]
  OBVIOUS
<1>2. [ws EXCEPT ![w] = me] \in [Workers -> Clients]
  OBVIOUS
<1>3. \A v \in Workers : Kept(ws[v], ws[v])
  BY KeptSelf
<1> QED BY <1>1, <1>2, <1>3 DEF Steady

\* Destroy stops one client.
LEMMA DestroyIs ==
  ASSUME NEW ws \in [Workers -> Clients], NEW w \in Workers
  PROVE  Destroy(ws, w) = [ws EXCEPT ![w] = Stopped(ws[w])]
<1>1. w # 0
  BY SearchAssumption DEF Workers
<1> QED BY <1>1 DEF Destroy, Stopped

\* Destroy leaves the clients steady, and its client dead.
LEMMA DestroySteady ==
  ASSUME NEW ws \in [Workers -> Clients], \A v \in Workers : Orderly(ws[v]),
         NEW w \in 0..MaxGen
  PROVE  /\ Steady(ws, Destroy(ws, w))
         /\ \A v \in Workers : Destroy(ws, w)[v].live => ws[v].live /\ v # w
<1>1. CASE w = 0
  <2>1. Destroy(ws, w) = ws
    BY <1>1 DEF Destroy
  <2>2. \A v \in Workers : Kept(ws[v], ws[v]) /\ v # w
    BY KeptSelf, <1>1, SearchAssumption DEF Workers
  <2> QED BY <2>1, <2>2 DEF Steady
<1>2. CASE w # 0
  <2>1. w \in Workers
    BY <1>2, SearchAssumption DEF Workers
  <2>2. Destroy(ws, w) = [ws EXCEPT ![w] = Stopped(ws[w])]
    BY <2>1, DestroyIs
  <2>3. ws[w] \in Clients
    BY <2>1
  <2>4. /\ Stopped(ws[w]) \in Clients /\ Orderly(Stopped(ws[w])) /\ Kept(ws[w], Stopped(ws[w]))
        /\ ~Stopped(ws[w]).live /\ Stopped(ws[w]).made = ws[w].made
    BY <2>3, StoppedClient
  <2>5. Steady(ws, Destroy(ws, w))
    BY <2>1, <2>2, <2>4, OneChanged
  <2>6. \A v \in Workers : Destroy(ws, w)[v] = IF v = w THEN Stopped(ws[w]) ELSE ws[v]
    BY <2>1, <2>2
  <2> QED BY <2>4, <2>5, <2>6
<1> QED BY <1>1, <1>2

(* The oldest message *)

\* A client whose oldest answer was taken.
Answered(me) == [me EXCEPT !.outbox = Tail(@), !.pending = @ \ {Head(me.outbox).n}]

\* Taking the oldest answer leaves the order and what waits.
LEMMA AnsweredClient ==
  ASSUME NEW me \in Clients, Orderly(me), me.outbox # << >>
  PROVE  /\ Answered(me) \in Clients /\ Orderly(Answered(me)) /\ Kept(me, Answered(me))
         /\ Answered(me).made = me.made /\ Answered(me).live = me.live /\ me.live
         /\ Head(me.outbox) \in Answers(me) /\ Head(me.outbox) \in Replies
         /\ Answered(me).sequence = me.sequence /\ Answered(me).active = me.active
         /\ Waiting(Answered(me)) = Waiting(me)
         /\ Answered(me).posted = me.posted
<1> DEFINE new == Answered(me)
<1>0. me.posted \in Nat /\ me.outbox \in Seq(Replies) /\ me.outbox # << >>
  BY DEF Clients
<1>1. /\ new.live = me.live /\ new.inbox = me.inbox /\ new.busy = me.busy
      /\ new.outbox = Tail(me.outbox)
      /\ new.posted = me.posted /\ new.sequence = me.sequence /\ new.active = me.active
      /\ new.made = me.made /\ new.fetchFailed = me.fetchFailed
  BY DEF Answered, Clients
<1>2. /\ Head(me.outbox) \in Replies /\ Tail(me.outbox) \in Seq(Replies)
      /\ Len(Tail(me.outbox)) = Len(me.outbox) - 1 /\ Len(me.outbox) \in Nat \ {0}
      /\ \A i \in 1 .. Len(Tail(me.outbox)) : Tail(me.outbox)[i] = me.outbox[i+1]
  BY <1>0, HeadTailProperties, EmptySeq
<1>3. new \in Clients
  BY <1>2 DEF Answered, Clients
<1> HIDE DEF new
<1>4. DOMAIN me.outbox = 1 .. Len(me.outbox) /\ DOMAIN new.outbox = 1 .. Len(new.outbox)
  BY <1>3, MessagesTyped
<1>5. Answers(new) \subseteq Answers(me)
  <2>1. ASSUME NEW i \in DOMAIN new.outbox PROVE new.outbox[i] \in Answers(me)
    <3>1. i \in 1 .. Len(Tail(me.outbox)) /\ i + 1 \in DOMAIN me.outbox
      BY <1>1, <1>2, <1>4
    <3>2. new.outbox[i] = me.outbox[i + 1]
      BY <1>1, <1>2, <3>1
    <3> QED BY <3>1, <3>2 DEF Answers
  <2> QED BY <2>1 DEF Answers
<1>6. Head(me.outbox) \in Answers(me)
  <2>1. 1 \in DOMAIN me.outbox
    BY <1>2, <1>4
  <2> QED BY <2>1, <1>0 DEF Answers
<1>7. InBox(new) = InBox(me) /\ Waiting(new) = Waiting(me)
  BY <1>1 DEF InBox, Waiting
<1>8. me.live
  BY <1>0 DEF Orderly
<1>9. Orderly(new)
  BY <1>1, <1>5, <1>7, <1>8 DEF Orderly
<1>10. Kept(me, new)
  <2>1. me.posted <= new.posted
    BY <1>0, <1>1
  <2> QED BY <2>1, <1>1, <1>5, <1>7 DEF Kept, Same
<1> QED BY <1>1, <1>2, <1>3, <1>6, <1>7, <1>8, <1>9, <1>10 DEF new

(* The queue *)

\* A client whose oldest request began.
Begun(me) == [me EXCEPT !.inbox = Tail(@), !.busy = @ \cup {Head(me.inbox)},
                        !.fetchFailed = FALSE]

\* The next operation is the oldest request of the queue.
LEMMA BegunClient ==
  ASSUME NEW me \in Clients, Orderly(me), me.live, me.inbox # << >>, me.busy = {}
  PROVE  /\ Begun(me) \in Clients /\ Orderly(Begun(me)) /\ Kept(me, Begun(me))
         /\ Begun(me).made = me.made /\ Begun(me).live = me.live
<1> DEFINE new == Begun(me)
<1> DEFINE head == Head(me.inbox)
<1>0. me.posted \in Nat /\ me.inbox \in Seq(Requests) /\ me.inbox # << >>
  BY DEF Clients
<1>1. /\ new.live = me.live /\ new.inbox = Tail(me.inbox) /\ new.busy = {head}
      /\ new.outbox = me.outbox
      /\ new.posted = me.posted /\ new.sequence = me.sequence /\ new.active = me.active
      /\ new.made = me.made /\ new.fetchFailed = FALSE
  BY DEF Begun, Clients
<1>2. /\ head \in Requests /\ Tail(me.inbox) \in Seq(Requests)
      /\ Len(Tail(me.inbox)) = Len(me.inbox) - 1 /\ Len(me.inbox) \in Nat \ {0}
      /\ \A i \in 1 .. Len(Tail(me.inbox)) : Tail(me.inbox)[i] = me.inbox[i+1]
  BY <1>0, HeadTailProperties, EmptySeq
<1>3. new \in Clients
  BY <1>2 DEF Begun, Clients
<1>31. head = me.inbox[1]
  BY <1>0
<1> HIDE DEF new, head
<1>4. DOMAIN me.inbox = 1 .. Len(me.inbox) /\ DOMAIN new.inbox = 1 .. Len(new.inbox)
  BY <1>3, MessagesTyped
<1>5. \A i \in DOMAIN new.inbox : /\ i \in Nat /\ i + 1 \in DOMAIN me.inbox
                                  /\ new.inbox[i] = me.inbox[i + 1]
  BY <1>1, <1>2, <1>4
<1>6. 1 \in DOMAIN me.inbox
  BY <1>2, <1>4
<1>7. InBox(new) \subseteq InBox(me) /\ head \in InBox(me)
  BY <1>5, <1>6, <1>31 DEF InBox
<1>8. Answers(new) = Answers(me) /\ Waiting(new) \subseteq Waiting(me)
  BY <1>1, <1>7 DEF Answers, Waiting
<1>9. /\ \A i, j \in DOMAIN me.inbox : i < j => me.inbox[i].n < me.inbox[j].n
      /\ \A r \in InBox(me) : ~r.lost
  BY DEF Orderly
<1>10. \A i, j \in DOMAIN new.inbox : i < j => new.inbox[i].n < new.inbox[j].n
  <2>1. ASSUME NEW i \in DOMAIN new.inbox, NEW j \in DOMAIN new.inbox, i < j
        PROVE  new.inbox[i].n < new.inbox[j].n
    <3>1. i + 1 < j + 1
      BY <1>5, <2>1
    <3> QED BY <1>5, <1>9, <3>1
  <2> QED BY <2>1
<1>11. \A s \in InBox(new) : head.n < s.n
  <2>1. ASSUME NEW i \in DOMAIN new.inbox PROVE head.n < new.inbox[i].n
    <3>1. 1 < i + 1
      BY <1>5, <1>4
    <3> QED BY <1>5, <1>6, <1>9, <1>31, <3>1
  <2> QED BY <2>1 DEF InBox
<1>12. /\ \A r \in InBox(new) : ~r.lost
       /\ \A x \in Answers(new) : \A r \in Waiting(new) : x.n < r.n
       /\ \A r \in Waiting(new) : r.n <= new.posted
       /\ \A x \in Answers(new) : x.n <= new.posted
  BY <1>1, <1>7, <1>8 DEF Orderly
<1>13. ~head.lost
  BY <1>7, <1>9
<1>14. Orderly(new)
  BY <1>1, <1>10, <1>11, <1>12, <1>13 DEF Orderly
<1>15. Kept(me, new)
  <2>1. me.posted <= new.posted
    BY <1>0, <1>1
  <2> QED BY <2>1, <1>1, <1>8 DEF Kept, Same
<1> QED BY <1>1, <1>3, <1>14, <1>15 DEF new

\* A client whose operation loses a fetch.
Loses(me, r) == [me EXCEPT !.busy = (@ \ {r}) \cup {[r EXCEPT !.lost = TRUE]},
                           !.fetchFailed = TRUE]

\* A lost fetch is remembered until the operation ends.
LEMMA LosesClient ==
  ASSUME NEW me \in Clients, Orderly(me), NEW r \in me.busy
  PROVE  /\ Loses(me, r) \in Clients /\ Orderly(Loses(me, r)) /\ Kept(me, Loses(me, r))
         /\ Loses(me, r).made = me.made /\ Loses(me, r).live = me.live
<1> DEFINE new == Loses(me, r)
<1> DEFINE lost == [r EXCEPT !.lost = TRUE]
<1>0. me.posted \in Nat /\ me.busy \subseteq Requests /\ r \in Requests
  BY DEF Clients
<1>1. lost \in Requests /\ Same(r, lost) /\ lost.lost
  BY <1>0 DEF Requests, Same
<1>2. me.busy = {r}
  BY DEF Orderly
<1> HIDE DEF lost
<1>3. /\ new.live = me.live /\ new.inbox = me.inbox /\ new.busy = {lost}
      /\ new.outbox = me.outbox
      /\ new.posted = me.posted /\ new.sequence = me.sequence /\ new.active = me.active
      /\ new.made = me.made /\ new.fetchFailed = TRUE
  BY <1>2 DEF Loses, Clients, lost
<1>4. new \in Clients
  BY <1>1, <1>3, <1>2 DEF Loses, Clients, lost
<1> HIDE DEF new
<1>5. InBox(new) = InBox(me) /\ Answers(new) = Answers(me) /\ lost.n = r.n
  BY <1>1, <1>3 DEF InBox, Answers, Same
<1>6. /\ Waiting(new) = {lost} \cup InBox(me)
      /\ r \in Waiting(me) /\ InBox(me) \subseteq Waiting(me)
  BY <1>3, <1>5 DEF Waiting
<1>7. Orderly(new)
  <2>1. new.live
    BY <1>3 DEF Orderly
  <2>2. \A s \in InBox(new) : lost.n < s.n
    BY <1>5 DEF Orderly
  <2>3. \A x \in Answers(new) : \A s \in Waiting(new) : x.n < s.n
    BY <1>5, <1>6 DEF Orderly
  <2>4. \A s \in Waiting(new) : s.n <= new.posted
    BY <1>3, <1>5, <1>6 DEF Orderly
  <2> QED BY <2>1, <2>2, <2>3, <2>4, <1>3, <1>5 DEF Orderly
<1>8. Kept(me, new)
  <2>1. me.posted <= new.posted
    BY <1>0, <1>3
  <2>2. \A s \in Waiting(new) : \E q \in Waiting(me) : Same(q, s)
    BY <1>1, <1>6 DEF Same
  <2> QED BY <2>1, <2>2, <1>3, <1>5 DEF Kept
<1> QED BY <1>3, <1>4, <1>7, <1>8 DEF new

(* The end of an operation *)

\* A client whose operation r ended with the answer x.
Ended(me, r, x, new) ==
  /\ new \in Clients /\ x \in Replies /\ x.n = r.n
  /\ new.live = me.live /\ new.inbox = me.inbox /\ new.busy = me.busy \ {r}
  /\ new.outbox = Append(me.outbox, x) /\ new.posted = me.posted /\ new.made = me.made

\* An operation's answer comes after every earlier answer and before what waits.
LEMMA EndedClient ==
  ASSUME NEW me \in Clients, Orderly(me), NEW r \in me.busy, NEW x, NEW new,
         Ended(me, r, x, new)
  PROVE  /\ Orderly(new) /\ Waiting(new) = InBox(me) /\ Answers(new) = Answers(me) \cup {x}
         /\ me.live /\ new.live /\ r \in Waiting(me) /\ Waiting(new) \subseteq Waiting(me)
         /\ \A s \in Waiting(new) : r.n < s.n
<1>1. me.busy = {r} /\ me.live
  BY DEF Orderly
<1>2. new.busy = {} /\ new.inbox = me.inbox /\ new.live /\ new.posted = me.posted
  BY <1>1 DEF Ended
<1>3. InBox(new) = InBox(me)
  BY <1>2 DEF InBox
<1>4. Waiting(new) = InBox(me) /\ Waiting(new) \subseteq Waiting(me) /\ r \in Waiting(me)
  BY <1>2, <1>3 DEF Waiting
<1>5. Answers(new) = Answers(me) \cup {x}
  <2>1. me.outbox \in Seq(Replies) /\ x \in Replies /\ new.outbox = Append(me.outbox, x)
    BY DEF Clients, Ended
  <2>2. /\ Len(new.outbox) = Len(me.outbox) + 1 /\ Len(me.outbox) \in Nat
        /\ \A i \in 1 .. Len(me.outbox) : new.outbox[i] = me.outbox[i]
        /\ new.outbox[Len(me.outbox) + 1] = x
    BY <2>1
  <2>3. DOMAIN me.outbox = 1 .. Len(me.outbox) /\ DOMAIN new.outbox = 1 .. Len(me.outbox) + 1
    BY <2>2, MessagesTyped DEF Ended
  <2>4. /\ \A i \in DOMAIN me.outbox : i \in DOMAIN new.outbox
        /\ Len(me.outbox) + 1 \in DOMAIN new.outbox
        /\ \A i \in DOMAIN new.outbox : i \in DOMAIN me.outbox \/ i = Len(me.outbox) + 1
    BY <2>2, <2>3
  <2> QED BY <2>2, <2>3, <2>4 DEF Answers
<1>6. \A s \in Waiting(new) : r.n < s.n
  BY <1>4 DEF Orderly
<1>7. Orderly(new)
  <2>1. \A y \in Answers(new) : \A s \in Waiting(new) : y.n < s.n
    BY <1>4, <1>5, <1>6 DEF Orderly, Ended
  <2>2. \A s \in Waiting(new) : s.n <= new.posted
    BY <1>2, <1>4 DEF Orderly
  <2>3. \A y \in Answers(new) : y.n <= new.posted
    BY <1>2, <1>4, <1>5 DEF Orderly, Ended
  <2>4. \A s \in InBox(new) : ~s.lost
    BY <1>3 DEF Orderly
  <2>5. \A i, j \in DOMAIN new.inbox : i < j => new.inbox[i].n < new.inbox[j].n
    BY <1>2 DEF Orderly
  <2> QED BY <2>1, <2>2, <2>3, <2>4, <2>5, <1>2 DEF Orderly
<1> QED BY <1>1, <1>2, <1>4, <1>5, <1>6, <1>7

\* What the worker has answered to r
Truthful(me, r, x, new) ==
  /\ r.method # "search" => new.sequence = me.sequence /\ new.active = me.active
  /\ x.method = r.method
  /\ x.ok /\ r.method = "search" => /\ x.count = Hits[r.query] /\ x.sequence = new.sequence
                                    /\ new.active = r.query
  /\ x.ok /\ r.method = "data" => r.sequence = me.sequence /\ x.item = Shown(me.active, r.index)

\* The end of an operation for results leaves the matches the newest.
LEMMA LatestEnded ==
  ASSUME NEW p, NEW me \in Clients, Orderly(me), NEW r \in me.busy, NEW x, NEW new,
         Ended(me, r, x, new), Truthful(me, r, x, new), Latest(p, me)
  PROVE  Latest(p, new)
<1>1. /\ me.live /\ r \in Waiting(me) /\ Waiting(new) \subseteq Waiting(me)
  BY EndedClient
<1>2. /\ me.sequence = p.matches.sequence /\ me.active = p.text
      /\ \A s \in Waiting(me) : s.method = "data"
  BY <1>1 DEF Latest
<1>3. new.sequence = me.sequence /\ new.active = me.active
  BY <1>1, <1>2 DEF Truthful
<1> QED BY <1>1, <1>2, <1>3 DEF Latest

\* The end of the operation of a search answers it: with every hit, or an error.
LEMMA SearchingEnded ==
  ASSUME NEW t, NEW me \in Clients, Orderly(me), NEW r \in me.busy, NEW x, NEW new,
         Ended(me, r, x, new), Truthful(me, r, x, new), Searching(t, me)
  PROVE  Searching(t, new)
<1>1. /\ r \in Waiting(me) /\ Waiting(new) \subseteq Waiting(me)
      /\ Answers(new) = Answers(me) \cup {x} /\ new.posted = me.posted /\ x.n = r.n
  BY EndedClient DEF Ended
<1>2. PICK n \in 1 .. me.posted :
    /\ t.need = {n} /\ n <= me.posted
    /\ \A s \in Waiting(me) : /\ s.n = n => s.method = "search" /\ s.query = t.query
                              /\ s.method # "data" => s.n <= n
    /\ \A y \in Answers(me) : y.n = n =>
         /\ y.method = "search"
         /\ y.ok => /\ y.count = Hits[t.query] /\ y.sequence = me.sequence
                    /\ me.active = t.query
  BY DEF Searching
<1>3. r.n \in Nat /\ \A y \in Answers(me) : y.n < r.n
  <2>1. r \in Requests
    BY <1>1, MessagesTyped
  <2> QED BY <1>1, <2>1 DEF Orderly, Requests
<1>4. ASSUME NEW y \in Answers(new), y.n = n
      PROVE /\ y.method = "search"
            /\ y.ok => /\ y.count = Hits[t.query] /\ y.sequence = new.sequence
                       /\ new.active = t.query
  <2>1. CASE y = x
    <3>1. r.n = n
      BY <2>1, <1>1, <1>4
    <3>2. r.method = "search" /\ r.query = t.query
      BY <3>1, <1>1, <1>2
    <3> QED BY <2>1, <3>2 DEF Truthful
  <2>2. CASE y \in Answers(me)
    <3>1. n < r.n /\ n \in Nat
      BY <2>2, <1>2, <1>3, <1>4
    <3>2. ~(r.n <= n)
      BY <3>1, <1>3
    <3>3. r.method = "data"
      BY <3>2, <1>1, <1>2
    <3>4. new.sequence = me.sequence /\ new.active = me.active
      BY <3>3 DEF Truthful
    <3> QED BY <2>2, <3>4, <1>2, <1>4
  <2> QED BY <2>1, <2>2, <1>1
<1>5. \A s \in Waiting(new) : /\ s.n = n => s.method = "search" /\ s.query = t.query
                              /\ s.method # "data" => s.n <= n
  BY <1>1, <1>2
<1> QED BY <1>1, <1>2, <1>4, <1>5 DEF Searching

\* The end of an operation for a result of the current page answers with it, whole.
LEMMA PagingEnded ==
  ASSUME NEW p \in Pages, NEW t \in Tasks, NEW me \in Clients, Orderly(me), NEW r \in me.busy,
         NEW x, NEW new,
         Ended(me, r, x, new), Truthful(me, r, x, new), Paging(p, t, me), Latest(p, me)
  PROVE  Paging(p, t, new)
<1> DEFINE shown == Len(p.screen)
<1> DEFINE count == Slice(p)
<1>0. count > 0
  BY DEF Paging
<1>1. PICK base \in 0 .. me.posted :
          /\ t.need # {} /\ t.need \subseteq base + 1 .. base + count
          /\ base + count <= me.posted
          /\ t.got = {Shown(p.text, shown + (n - base)) :
                       n \in (base + 1 .. base + count) \ t.need}
          /\ \A s \in Waiting(me) : s.n \in t.need =>
               /\ s.method = "data" /\ s.sequence = p.matches.sequence
               /\ s.index = shown + (s.n - base)
          /\ \A y \in Answers(me) : y.n \in t.need =>
               /\ y.method = "data"
               /\ y.ok => y.item = Shown(p.text, shown + (y.n - base))
  BY DEF Paging
<1> HIDE DEF shown, count
<1>2. /\ me.live /\ r \in Waiting(me) /\ Waiting(new) \subseteq Waiting(me)
      /\ Answers(new) = Answers(me) \cup {x} /\ new.posted = me.posted /\ x.n = r.n
  BY EndedClient DEF Ended
<1>3. me.active = p.text
  BY <1>2 DEF Latest
<1>4. ASSUME x.n \in t.need
      PROVE  /\ x.method = "data"
             /\ x.ok => x.item = Shown(p.text, shown + (x.n - base))
  <2>1. r.method = "data" /\ r.index = shown + (x.n - base)
    BY <1>1, <1>2, <1>4
  <2>2. x.method = "data" /\ (x.ok => x.item = Shown(me.active, r.index))
    BY <2>1 DEF Truthful
  <2> QED BY <2>1, <2>2, <1>3
<1>5. \A y \in Answers(new) : y.n \in t.need =>
               /\ y.method = "data"
               /\ y.ok => y.item = Shown(p.text, shown + (y.n - base))
  BY <1>1, <1>2, <1>4
<1>6. \A s \in Waiting(new) : s.n \in t.need =>
               /\ s.method = "data" /\ s.sequence = p.matches.sequence
               /\ s.index = shown + (s.n - base)
  BY <1>1, <1>2
<1> QED BY <1>0, <1>1, <1>2, <1>5, <1>6 DEF Paging, shown, count

(* The end of Finish *)

\* Finish ends an operation, and tells the truth (pagefind-worker.ts:33-61).
LEMMA FinishEnds ==
  ASSUME workers \in [Workers -> Clients], \A v \in Workers : Orderly(workers[v]),
         NEW w \in Workers, NEW r \in workers[w].busy, Finish(w, r)
  PROVE  \E x, new : /\ Ended(workers[w], r, x, new) /\ Truthful(workers[w], r, x, new)
                     /\ workers' = [workers EXCEPT ![w] = new]
<1> DEFINE me == workers[w]
<1>0. /\ me \in Clients /\ r \in Requests /\ me.outbox \in Seq(Replies)
      /\ me.sequence \in Nat /\ me.active \in Texts /\ me.engine \in BOOLEAN
      /\ me.fetchFailed \in BOOLEAN
  <2>1. me \in Clients
    OBVIOUS
  <2> HIDE DEF me
  <2>2. r \in me.busy
    BY DEF me
  <2> QED BY <2>1, <2>2 DEF Clients
<1>1. r.lost => me.fetchFailed
  BY DEF Orderly
<1>2. PICK completes \in {~r.lost, TRUE} :
       LET searched == r.method = "search" /\ me.engine /\ completes
           right == CASE r.method = "options" -> completes
                      [] r.method = "search" -> searched
                      [] r.method = "data" -> completes /\ r.sequence = me.sequence
           answer == [n |-> r.n, method |-> r.method, ok |-> right /\ ~FetchFailed(w),
                      count |-> IF searched /\ ~r.lost THEN Hits[r.query] ELSE 0,
                      sequence |-> me.sequence + 1,
                      item |-> [query |-> me.active, index |-> r.index, whole |-> ~r.lost]]
       IN workers' = [workers EXCEPT ![w] =
            [me EXCEPT !.busy = @ \ {r},
                       !.outbox = Append(@, answer),
                       !.engine = @ \/ (r.method = "options" /\ completes),
                       !.sequence = IF searched THEN @ + 1 ELSE @,
                       !.active = IF searched THEN r.query ELSE @]]
  BY DEF Finish
<1> DEFINE searched == r.method = "search" /\ me.engine /\ completes
<1> DEFINE right == CASE r.method = "options" -> completes
                      [] r.method = "search" -> searched
                      [] r.method = "data" -> completes /\ r.sequence = me.sequence
<1> DEFINE x == [n |-> r.n, method |-> r.method, ok |-> right /\ ~FetchFailed(w),
                 count |-> IF searched /\ ~r.lost THEN Hits[r.query] ELSE 0,
                 sequence |-> me.sequence + 1,
                 item |-> [query |-> me.active, index |-> r.index, whole |-> ~r.lost]]
<1> DEFINE new == [me EXCEPT !.busy = @ \ {r}, !.outbox = Append(@, x),
                             !.engine = @ \/ (r.method = "options" /\ completes),
                             !.sequence = IF searched THEN @ + 1 ELSE @,
                             !.active = IF searched THEN r.query ELSE @]
<1>3. workers' = [workers EXCEPT ![w] = new]
  BY <1>2, Zenon
<1>4. /\ r.n \in Nat /\ r.method \in Methods /\ r.query \in Texts /\ r.index \in Nat
      /\ r.lost \in BOOLEAN
  BY <1>0 DEF Requests
<1>41. completes \in BOOLEAN
  <2>1. completes = ~r.lost \/ completes = TRUE
    OBVIOUS
  <2> QED BY <2>1, Zenon
<1>5. x.ok = (right /\ ~me.fetchFailed)
  BY DEF FetchFailed
<1>51. right \in BOOLEAN /\ searched \in BOOLEAN
  BY <1>0, <1>4, <1>41 DEF Methods
<1>6. x.ok \in BOOLEAN /\ (x.ok => right /\ ~r.lost)
  BY <1>0, <1>1, <1>5, <1>51
<1>7. searched => Hits[r.query] \in Nat
  BY <1>0, SearchAssumption DEF Requests
<1>8. x \in Replies
  <2>1. x.count \in Nat
    BY <1>7
  <2>2. x.sequence \in Nat
    BY <1>0
  <2>3. x.item \in Items
    BY <1>0, <1>4 DEF Items
  <2>4. x = [n |-> x.n, method |-> x.method, ok |-> x.ok, count |-> x.count,
             sequence |-> x.sequence, item |-> x.item]
    OBVIOUS
  <2>5. x.n \in Nat /\ x.method \in Methods
    BY <1>4
  <2> HIDE DEF x
  <2> QED BY <1>6, <2>1, <2>2, <2>3, <2>4, <2>5 DEF Replies
<1>9. x.n = r.n /\ x.method = r.method
  OBVIOUS
<1>10. /\ x.ok /\ r.method = "search" => searched /\ x.count = Hits[r.query]
                                         /\ x.sequence = me.sequence + 1
       /\ x.ok /\ r.method = "data" => r.sequence = me.sequence
                                       /\ x.item = Shown(me.active, r.index)
  BY <1>6 DEF Shown
<1> HIDE DEF x, right
<1>11. /\ new.live = me.live /\ new.inbox = me.inbox /\ new.busy = me.busy \ {r}
       /\ new.outbox = Append(me.outbox, x) /\ new.posted = me.posted /\ new.made = me.made
       /\ new.sequence = (IF searched THEN me.sequence + 1 ELSE me.sequence)
       /\ new.active = (IF searched THEN r.query ELSE me.active)
  BY <1>0 DEF Clients
<1>12. new \in Clients
  <2>1. Append(me.outbox, x) \in Seq(Replies)
    BY <1>0, <1>8
  <2>2. (IF searched THEN me.sequence + 1 ELSE me.sequence) \in Nat
    BY <1>0
  <2>3. (IF searched THEN r.query ELSE me.active) \in Texts
    BY <1>0, <1>4
  <2>4. (me.engine \/ (r.method = "options" /\ completes)) \in BOOLEAN
    BY <1>0, <1>41
  <2> HIDE DEF searched
  <2> QED BY ZenonT(60), <1>0, <2>1, <2>2, <2>3, <2>4 DEF Clients
<1> HIDE DEF new
<1>13. Ended(me, r, x, new)
  BY <1>8, <1>9, <1>11, <1>12 DEF Ended
<1>14. Truthful(me, r, x, new)
  <2>1. r.method # "search" => ~searched
    OBVIOUS
  <2> QED BY <2>1, <1>9, <1>10, <1>11 DEF Truthful
<1> QED BY <1>3, <1>13, <1>14

(* New requests *)

\* What Call posts to a client.
Numbered(me, requests) ==
  [i \in DOMAIN requests |-> [requests[i] EXCEPT !.n = me.posted + i]]
Posted(me, requests) ==
  [me EXCEPT !.posted = @ + Len(requests),
             !.pending = @ \cup {Numbered(me, requests)[i].n : i \in DOMAIN Numbered(me, requests)},
             !.inbox = IF me.live THEN @ \o Numbered(me, requests) ELSE @]

\* Call posts to one client.
LEMMA CallIs ==
  ASSUME NEW ws \in [Workers -> Clients], NEW w \in Workers, NEW requests
  PROVE  Call(ws, w, requests) = [ws EXCEPT ![w] = Posted(ws[w], requests)]
BY DEF Call, Posted, Numbered

\* s is the request q with the number n.
NumberedAs(q, n, s) == /\ s.n = n /\ s.method = q.method /\ s.query = q.query
                     /\ s.sequence = q.sequence /\ s.index = q.index /\ s.lost = q.lost

\* The numbers follow those given before.
LEMMA NumberedTyped ==
  ASSUME NEW me \in Clients, NEW requests \in Seq(Requests)
  PROVE  /\ Numbered(me, requests) \in Seq(Requests)
         /\ Len(Numbered(me, requests)) = Len(requests) /\ Len(requests) \in Nat
         /\ \A i \in 1 .. Len(requests) :
              NumberedAs(requests[i], me.posted + i, Numbered(me, requests)[i])
<1>1. me.posted \in Nat
  BY DEF Clients
<1>2. /\ DOMAIN requests = 1 .. Len(requests) /\ Len(requests) \in Nat
      /\ \A i \in 1 .. Len(requests) : requests[i] \in Requests
  BY LenProperties, ElementOfSeq
<1>3. ASSUME NEW i \in 1 .. Len(requests)
      PROVE  /\ [requests[i] EXCEPT !.n = me.posted + i] \in Requests
             /\ NumberedAs(requests[i], me.posted + i, [requests[i] EXCEPT !.n = me.posted + i])
  <2>1. me.posted + i \in Nat /\ requests[i] \in Requests
    BY <1>1, <1>2
  <2> QED BY <2>1 DEF Requests, NumberedAs
<1>4. Numbered(me, requests)
      = [i \in 1 .. Len(requests) |-> [requests[i] EXCEPT !.n = me.posted + i]]
  BY <1>2 DEF Numbered
<1>5. Numbered(me, requests) \in [1 .. Len(requests) -> Requests]
  BY <1>3, <1>4
<1>6. Numbered(me, requests) \in Seq(Requests) /\ Len(Numbered(me, requests)) = Len(requests)
  <2> DEFINE f == Numbered(me, requests)
  <2> DEFINE k == Len(requests)
  <2>1. f \in [1 .. k -> Requests] /\ k \in Nat
    BY <1>2, <1>5
  <2> HIDE DEF f, k
  <2>2. f \in Seq(Requests) /\ Len(f) = k
    BY <2>1
  <2> QED BY <2>2 DEF f, k
<1> QED BY <1>2, <1>3, <1>4, <1>6

\* What is posted comes after all that waits.
LEMMA PostedClient ==
  ASSUME NEW me \in Clients, Orderly(me), NEW requests \in Seq(Requests),
         \A i \in 1 .. Len(requests) : ~requests[i].lost
  PROVE  /\ Posted(me, requests) \in Clients /\ Orderly(Posted(me, requests))
         /\ Posted(me, requests).made = me.made /\ Posted(me, requests).live = me.live
         /\ Posted(me, requests).sequence = me.sequence
         /\ Posted(me, requests).active = me.active
         /\ Posted(me, requests).posted = me.posted + Len(requests)
         /\ Answers(Posted(me, requests)) = Answers(me)
         /\ \A s \in Waiting(Posted(me, requests)) :
              \/ s \in Waiting(me)
              \/ \E i \in 1 .. Len(requests) : NumberedAs(requests[i], me.posted + i, s)
<1> DEFINE new == Posted(me, requests)
<1> DEFINE posts == Numbered(me, requests)
<1> DEFINE k == Len(requests)
<1>1. /\ posts \in Seq(Requests) /\ Len(posts) = k /\ k \in Nat
      /\ \A i \in 1 .. k : NumberedAs(requests[i], me.posted + i, posts[i])
  BY NumberedTyped
<1>2. /\ me.posted \in Nat /\ me.inbox \in Seq(Requests) /\ me.pending \in SUBSET Nat
      /\ me.live \in BOOLEAN
  BY DEF Clients
<1>3. DOMAIN posts = 1 .. k /\ \A i \in 1 .. k : posts[i] \in Requests
  BY <1>1, LenProperties, ElementOfSeq
<1> DEFINE box == IF me.live THEN me.inbox \o posts ELSE me.inbox
<1>4. box \in Seq(Requests)
  BY <1>1, <1>2
<1>5. me.posted + k \in Nat
  BY <1>1, <1>2
<1> DEFINE nums == {posts[i].n : i \in DOMAIN posts}
<1>51. nums \in SUBSET Nat
  <2> HIDE DEF posts, k
  <2>1. \A i \in DOMAIN posts : posts[i].n \in Nat
    BY <1>3 DEF Requests
  <2> QED BY <2>1
<1>6. new = [me EXCEPT !.posted = @ + k, !.pending = @ \cup nums, !.inbox = box]
  BY DEF Posted
<1> HIDE DEF new, posts, k, box, nums
<1>7. new \in Clients
  <2>1. (me.pending \cup nums) \in SUBSET Nat
    BY <1>2, <1>51
  <2> QED BY <1>4, <1>5, <1>6, <2>1 DEF Clients
<1>8. /\ new.live = me.live /\ new.inbox = box /\ new.busy = me.busy /\ new.outbox = me.outbox
      /\ new.posted = me.posted + k /\ new.sequence = me.sequence /\ new.active = me.active
      /\ new.made = me.made /\ new.fetchFailed = me.fetchFailed
  BY <1>6 DEF Clients
<1>9. Answers(new) = Answers(me)
  BY <1>8 DEF Answers
<1>10. CASE ~me.live
  <2>1. box = me.inbox /\ InBox(new) = {} /\ Waiting(new) = {} /\ Answers(new) = {} /\ new.busy = {}
        /\ new.inbox = << >> /\ new.outbox = << >>
    BY <1>8, <1>10 DEF box, Orderly, InBox, Waiting, Answers
  <2>2. Orderly(new)
    BY <1>8, <2>1 DEF Orderly
  <2> QED BY <1>7, <1>8, <1>9, <2>1, <2>2 DEF new, k
<1>11. CASE me.live
  <2> DEFINE l == Len(me.inbox)
  <2>1. /\ l \in Nat /\ DOMAIN me.inbox = 1 .. l /\ \A i \in 1 .. l : me.inbox[i] \in Requests
    BY <1>2, LenProperties, ElementOfSeq
  <2>2. box = me.inbox \o posts
    BY <1>11 DEF box
  <2>3. /\ Len(box) = l + k
        /\ \A i \in 1 .. l + k : box[i] = IF i <= l THEN me.inbox[i] ELSE posts[i - l]
    BY <2>2, <1>1, <1>2, ConcatProperties
  <2>4. DOMAIN box = 1 .. l + k
    BY <2>3, <1>4, LenProperties
  <2> HIDE DEF l
  <2>5. ASSUME NEW i \in 1 .. l + k
        PROVE  \/ i \in 1 .. l /\ box[i] = me.inbox[i] /\ box[i] \in InBox(me)
               \/ /\ i - l \in 1 .. k /\ ~(i \in 1 .. l) /\ box[i] = posts[i - l]
                  /\ box[i].n = me.posted + (i - l) /\ ~box[i].lost
                  /\ NumberedAs(requests[i - l], me.posted + (i - l), box[i])
    <3>1. CASE i <= l
      <4>1. i \in 1 .. l
        BY <2>1, <3>1
      <4> QED BY <4>1, <3>1, <2>1, <2>3 DEF InBox
    <3>2. CASE ~(i <= l)
      <4>1. i - l \in 1 .. k /\ ~(i \in 1 .. l)
        BY <2>1, <1>1, <3>2
      <4>2. box[i] = posts[i - l]
        BY <3>2, <2>3
      <4>3. NumberedAs(requests[i - l], me.posted + (i - l), box[i])
        BY <4>1, <4>2, <1>1
      <4>4. ~requests[i - l].lost
        BY <4>1 DEF k
      <4> QED BY <4>1, <4>2, <4>3, <4>4 DEF NumberedAs
    <3> QED BY <3>1, <3>2
  <2>6. \A s \in InBox(new) : \/ s \in InBox(me)
                              \/ /\ \E i \in 1 .. k : /\ s.n = me.posted + i
                                                      /\ NumberedAs(requests[i], me.posted + i, s)
                                 /\ ~s.lost
    BY <2>4, <2>5, <1>8 DEF InBox
  <2>7. \A s \in Waiting(new) : \/ s \in Waiting(me)
                                \/ \E i \in 1 .. k : NumberedAs(requests[i], me.posted + i, s)
    BY <2>6, <1>8 DEF Waiting
  <2>8. \A s \in Waiting(new) : \/ s \in Waiting(me) /\ s.n <= me.posted
                                \/ s.n > me.posted /\ s.n <= new.posted
    <3>1. \A i \in 1 .. k : me.posted + i > me.posted /\ me.posted + i <= new.posted
      BY <1>1, <1>2, <1>8
    <3>2. \A s \in Waiting(new) : \/ s \in Waiting(me)
                                  \/ \E i \in 1 .. k : s.n = me.posted + i
      BY <2>7 DEF NumberedAs
    <3> QED BY <3>1, <3>2 DEF Orderly
  <2>9. \A s \in InBox(new) : \/ s \in InBox(me) /\ s.n <= me.posted
                              \/ s.n > me.posted /\ s.n <= new.posted
    <3>1. \A i \in 1 .. k : me.posted + i > me.posted /\ me.posted + i <= new.posted
      BY <1>1, <1>2, <1>8
    <3> QED BY <3>1, <2>6 DEF Orderly, Waiting
  <2>10. \A i, j \in DOMAIN new.inbox : i < j => new.inbox[i].n < new.inbox[j].n
    <3>1. ASSUME NEW i \in 1 .. l + k, NEW j \in 1 .. l + k, i < j PROVE box[i].n < box[j].n
      <4>1. CASE j \in 1 .. l
        <5>1. i \in 1 .. l
          BY <4>1, <3>1, <2>1
        <5>2. me.inbox[i].n < me.inbox[j].n
          BY <4>1, <5>1, <3>1, <2>1 DEF Orderly
        <5> QED BY <5>1, <5>2, <4>1, <2>5
      <4>2. CASE ~(j \in 1 .. l)
        <5>1. j - l \in 1 .. k /\ box[j].n = me.posted + (j - l)
          BY <4>2, <2>5
        <5>2. CASE i \in 1 .. l
          <6>1. box[i] \in Waiting(me)
            BY <5>2, <2>5 DEF Waiting
          <6>2. box[i].n <= me.posted /\ box[i].n \in Nat
            BY <6>1, MessagesTyped DEF Orderly, Requests
          <6> QED BY <6>2, <5>1, <1>2
        <5>3. CASE ~(i \in 1 .. l)
          <6>1. box[i].n = me.posted + (i - l)
            BY <5>3, <2>5
          <6> QED BY <6>1, <5>1, <3>1, <1>2, <2>1
        <5> QED BY <5>2, <5>3
      <4> QED BY <4>1, <4>2
    <3> QED BY <3>1, <2>4, <1>8
  <2>11. \A r \in me.busy : r.n <= me.posted /\ r.n \in Nat
    BY MessagesTyped DEF Orderly, Waiting, Requests
  <2>12. \A r \in new.busy : \A s \in InBox(new) : r.n < s.n
    <3>1. ASSUME NEW r \in new.busy, NEW s \in InBox(new) PROVE r.n < s.n
      <4>1. CASE s \in InBox(me)
        BY <4>1, <1>8 DEF Orderly
      <4>2. CASE s.n > me.posted
        <5>1. r.n \in Nat /\ r.n <= me.posted /\ s.n \in Nat
          BY <2>11, <1>8, <1>7, MessagesTyped DEF Requests
        <5> QED BY <5>1, <4>2, <1>2
      <4> QED BY <4>1, <4>2, <2>9
    <3> QED BY <3>1
  <2>13. \A x \in Answers(new) : \A s \in Waiting(new) : x.n < s.n
    <3>1. ASSUME NEW x \in Answers(new), NEW s \in Waiting(new) PROVE x.n < s.n
      <4>1. CASE s \in Waiting(me)
        BY <4>1, <1>9 DEF Orderly
      <4>2. CASE s.n > me.posted
        <5>1. x.n \in Nat /\ x.n <= me.posted /\ s.n \in Nat
          BY <1>9, <1>7, MessagesTyped DEF Requests, Replies, Orderly
        <5> QED BY <5>1, <4>2, <1>2
      <4> QED BY <4>1, <4>2, <2>8
    <3> QED BY <3>1
  <2>14. /\ \A s \in Waiting(new) : s.n <= new.posted
         /\ \A x \in Answers(new) : x.n <= new.posted
    <3>1. me.posted <= new.posted /\ new.posted \in Nat
      BY <1>1, <1>2, <1>8
    <3>2. ASSUME NEW s \in Waiting(new) PROVE s.n <= new.posted
      <4>1. s.n \in Nat
        BY <1>7, MessagesTyped DEF Requests
      <4> QED BY <4>1, <3>1, <2>8, <1>2
    <3>3. ASSUME NEW x \in Answers(new) PROVE x.n <= new.posted
      <4>1. x.n \in Nat /\ x.n <= me.posted
        BY <1>9, MessagesTyped DEF Replies, Orderly
      <4> QED BY <4>1, <3>1, <1>2
    <3> QED BY <3>2, <3>3
  <2>15. /\ \A r \in InBox(new) : ~r.lost
         /\ \A r, s \in new.busy : r = s
         /\ \A r \in new.busy : r.lost => new.fetchFailed
    BY <2>6, <1>8 DEF Orderly
  <2>16. Orderly(new)
    BY <1>8, <1>11, <2>10, <2>12, <2>13, <2>14, <2>15 DEF Orderly
  <2> QED BY <1>7, <1>8, <1>9, <2>7, <2>16 DEF new, k
<1> QED BY <1>2, <1>10, <1>11

\* Requests of results leave what is on its way as it is.
LEMMA PostedKept ==
  ASSUME NEW me \in Clients, Orderly(me), NEW requests \in Seq(Requests),
         \A i \in 1 .. Len(requests) : ~requests[i].lost /\ requests[i].method = "data"
  PROVE  Kept(me, Posted(me, requests))
<1> DEFINE new == Posted(me, requests)
<1>1. /\ new.live = me.live /\ new.sequence = me.sequence /\ new.active = me.active
      /\ new.posted = me.posted + Len(requests) /\ Answers(new) = Answers(me)
      /\ \A s \in Waiting(new) :
              \/ s \in Waiting(me)
              \/ \E i \in 1 .. Len(requests) : NumberedAs(requests[i], me.posted + i, s)
  BY PostedClient
<1>2. me.posted \in Nat /\ Len(requests) \in Nat
  BY LenProperties DEF Clients
<1> HIDE DEF new
<1>3. me.posted <= new.posted
  BY <1>1, <1>2
<1>4. \A i \in 1 .. Len(requests) : me.posted + i > me.posted
  BY <1>2
<1>5. \A s \in Waiting(new) : \/ s.n > me.posted /\ s.method = "data"
                              \/ \E r \in Waiting(me) : Same(r, s)
  <2>1. ASSUME NEW s \in Waiting(new), NEW i \in 1 .. Len(requests),
               NumberedAs(requests[i], me.posted + i, s)
        PROVE  s.n > me.posted /\ s.method = "data"
    BY <2>1, <1>4 DEF NumberedAs
  <2>2. \A s \in Waiting(me) : Same(s, s)
    BY DEF Same
  <2> QED BY <1>1, <2>1, <2>2
<1> QED BY <1>1, <1>3, <1>5 DEF Kept, new

(* What each change does to the invariant *)

\* No call is current.
Idle(p, ts) == \A t \in ts : t.id # p.gen

\* The invariant's parts, for a citation.
LEMMA SoundParts ==
  ASSUME NEW p, NEW a, NEW ts, NEW ws
  PROVE  Sound(p, a, ts, ws) <=>
           /\ p \in Pages /\ a \in Apis /\ ts \in SUBSET Tasks /\ ws \in [Workers -> Clients]
           /\ \A w \in Workers : Orderly(ws[w])
           /\ Engines(p, a, ws) /\ Dialog(p) /\ Calls(p, ts) /\ Linked(p, ts, ws)
BY DEF Sound, Typed

\* Steady clients, none of which starts, keep the invariant.
LEMMA SoundSteady ==
  ASSUME NEW p, NEW a, NEW ts, NEW ws, NEW new, Sound(p, a, ts, ws), Steady(ws, new),
         \A w \in Workers : new[w].live => ws[w].live
  PROVE  Sound(p, a, ts, new)
<1>1. /\ p \in Pages /\ a \in Apis /\ ts \in SUBSET Tasks /\ ws \in [Workers -> Clients]
      /\ \A w \in Workers : Orderly(ws[w])
      /\ Engines(p, a, ws) /\ Dialog(p) /\ Calls(p, ts) /\ Linked(p, ts, ws)
  BY SoundParts
<1>2. /\ new \in [Workers -> Clients]
      /\ \A v \in Workers : Orderly(new[v]) /\ Kept(ws[v], new[v]) /\ new[v].made = ws[v].made
  BY DEF Steady
<1>3. Made(new) = Made(ws)
  BY <1>2 DEF Made
<1>4. Engines(p, a, new)
  BY <1>1, <1>2, <1>3 DEF Engines
<1>5. \A w \in Workers : ws[w] \in Clients /\ new[w] \in Clients
  BY <1>1, <1>2
<1>6. p.matches.worker # 0 => Latest(p, new[p.matches.worker])
  <2>1. SUFFICES ASSUME p.matches.worker # 0 PROVE Latest(p, new[p.matches.worker])
    OBVIOUS
  <2>2. p.matches.worker \in Workers
    BY <1>1, <2>1 DEF Dialog
  <2>3. Latest(p, ws[p.matches.worker])
    BY <1>1, <2>1 DEF Linked
  <2> DEFINE w == p.matches.worker
  <2>4. ws[w] \in Clients /\ new[w] \in Clients /\ Kept(ws[w], new[w])
    BY <1>2, <1>5, <2>2
  <2> QED BY <2>3, <2>4, LatestKept
<1>7. ASSUME NEW t \in ts, t.id = p.gen
      PROVE  /\ t.step = "search" => Searching(t, new[t.worker])
             /\ t.step = "page" => Paging(p, t, new[t.worker])
  <2>1. t \in Tasks /\ t.worker \in Workers
    BY <1>1 DEF Tasks
  <2>2. /\ t.step = "search" => Searching(t, ws[t.worker])
        /\ t.step = "page" => Paging(p, t, ws[t.worker])
    BY <1>1, <1>7 DEF Linked
  <2> DEFINE w == t.worker
  <2>3. ws[w] \in Clients /\ new[w] \in Clients /\ Kept(ws[w], new[w])
    BY <1>2, <1>5, <2>1
  <2> HIDE DEF w
  <2>4. Searching(t, ws[w]) => Searching(t, new[w])
    BY <2>3, SearchingKept
  <2>5. Paging(p, t, ws[w]) => Paging(p, t, new[w])
    BY <1>1, <2>1, <2>3, PagingKept
  <2> QED BY <2>2, <2>4, <2>5 DEF w
<1>8. Linked(p, ts, new)
  BY <1>6, <1>7 DEF Linked
<1> QED BY <1>1, <1>2, <1>4, <1>8, SoundParts

\* Calls that leave, and calls of earlier generations
LEMMA SoundTasks ==
  ASSUME NEW p, NEW a, NEW ts, NEW ws, NEW new \in SUBSET Tasks, Sound(p, a, ts, ws),
         \A t \in new : t.id <= p.gen /\ (t.id = p.gen => t \in ts)
  PROVE  Sound(p, a, new, ws)
<1>1. Calls(p, ts) /\ Linked(p, ts, ws)
  BY SoundParts
<1>2. Calls(p, new)
  BY <1>1 DEF Calls
<1>3. Linked(p, new, ws)
  BY <1>1 DEF Linked
<1> QED BY <1>2, <1>3, SoundParts

\* A call may leave at any time.
LEMMA SoundDrop ==
  ASSUME NEW p, NEW a, NEW ts, NEW ws, NEW new, new \subseteq ts, Sound(p, a, ts, ws)
  PROVE  Sound(p, a, new, ws)
<1>1. ts \in SUBSET Tasks /\ \A t \in ts : t.id <= p.gen
  BY SoundParts DEF Calls
<1> QED BY <1>1, SoundTasks

\* The promise may settle while its worker stays.
LEMMA SoundApi ==
  ASSUME NEW p, NEW a, NEW ts, NEW ws, NEW new \in Apis, Sound(p, a, ts, ws),
         new.worker = a.worker, a.worker # 0, new.state # "none"
  PROVE  Sound(p, new, ts, ws)
<1>1. Engines(p, a, ws)
  BY SoundParts
<1>2. Engines(p, new, ws)
  BY <1>1 DEF Engines
<1> QED BY <1>2, SoundParts

\* The promise may be forgotten once no worker runs.
LEMMA SoundForgotten ==
  ASSUME NEW p, NEW a, NEW ts, NEW ws, Sound(p, a, ts, ws), \A w \in Workers : ~ws[w].live
  PROVE  Sound(p, NoApi, ts, ws)
<1>1. Engines(p, a, ws)
  BY SoundParts
<1>2. NoApi \in Apis /\ NoApi.worker = 0 /\ NoApi.state = "none"
  BY DEF NoApi, Apis
<1>3. 0 \in 0 .. MaxGen
  BY SearchAssumption
<1>4. Engines(p, NoApi, ws)
  BY <1>1, <1>2, <1>3 DEF Engines
<1> QED BY <1>2, <1>4, SoundParts

\* A change of the dialog while no call is current
LEMMA SoundIdle ==
  ASSUME NEW p, NEW a, NEW ts, NEW ws, NEW new \in Pages, Sound(p, a, ts, ws),
         p.gen <= new.gen, new.gen <= MaxGen, Idle(new, ts), Dialog(new),
         new.timer # 0 => p.timer # 0 \/ p.gen < new.gen,
         new.matches.worker # 0 => Latest(new, ws[new.matches.worker])
  PROVE  Sound(new, a, ts, ws)
<1>1. Engines(p, a, ws) /\ Calls(p, ts) /\ p \in Pages /\ ts \in SUBSET Tasks
  BY SoundParts
<1>2. p.gen \in Nat /\ new.gen \in Nat
  BY <1>1 DEF Pages
<1>3. PICK k \in 0 .. MaxGen : /\ Made(ws) = 1 .. k /\ k <= p.gen
                               /\ p.timer # 0 => k < p.gen
  BY <1>1 DEF Engines
<1>4. k <= new.gen /\ (new.timer # 0 => k < new.gen)
  BY <1>2, <1>3, SearchAssumption
<1>5. Engines(new, a, ws)
  BY <1>1, <1>3, <1>4 DEF Engines
<1>6. Calls(new, ts)
  <2>1. ASSUME NEW t \in ts PROVE t.id <= new.gen
    <3>1. t.id \in Nat /\ t.id <= p.gen
      BY <1>1 DEF Tasks, Calls
    <3> QED BY <3>1, <1>2
  <2> QED BY <2>1 DEF Calls, Idle
<1>7. Linked(new, ts, ws)
  BY DEF Linked, Idle
<1> QED BY <1>5, <1>6, <1>7, SoundParts

\* A change of the workers while nothing depends on them
LEMMA SoundClients ==
  ASSUME NEW p, NEW a, NEW ts, NEW ws, NEW b \in Apis, NEW new \in [Workers -> Clients],
         Sound(p, a, ts, ws), Idle(p, ts), p.matches.worker = 0,
         \A w \in Workers : Orderly(new[w]), Engines(p, b, new)
  PROVE  Sound(p, b, ts, new)
<1>1. Linked(p, ts, new)
  BY DEF Linked, Idle
<1> QED BY <1>1, SoundParts

\* A new current call
LEMMA SoundCall ==
  ASSUME NEW p, NEW a, NEW ts, NEW ws, NEW t \in Tasks, Sound(p, a, ts, ws), Idle(p, ts),
         t.id = p.gen, p.timer = 0, p.state = "loading", t.query = p.text, p.text # Blank,
         t.step = "load" => t.need = {},
         t.step # "page" => p.matches = NoMatches,
         t.step = "page" => t.worker = p.matches.worker,
         t.step = "search" => Searching(t, ws[t.worker]),
         t.step = "page" => Paging(p, t, ws[t.worker])
  PROVE  Sound(p, a, ts \cup {t}, ws)
<1>1. /\ Calls(p, ts) /\ Linked(p, ts, ws) /\ p \in Pages /\ ts \in SUBSET Tasks
  BY SoundParts
<1>2. p.gen \in Nat
  BY <1>1 DEF Pages
<1>3. Calls(p, ts \cup {t})
  BY <1>1, <1>2 DEF Calls, Idle
<1>4. Linked(p, ts \cup {t}, ws)
  BY <1>1 DEF Linked, Idle
<1>5. ts \cup {t} \in SUBSET Tasks
  BY <1>1
<1> QED BY <1>3, <1>4, <1>5, SoundParts

\* A worker ends an operation.
LEMMA SoundEnded ==
  ASSUME NEW p, NEW a, NEW ts, NEW ws, NEW w \in Workers, NEW r \in ws[w].busy, NEW x, NEW me,
         Sound(p, a, ts, ws), Ended(ws[w], r, x, me), Truthful(ws[w], r, x, me)
  PROVE  Sound(p, a, ts, [ws EXCEPT ![w] = me])
<1> DEFINE new == [ws EXCEPT ![w] = me]
<1>1. /\ p \in Pages /\ a \in Apis /\ ts \in SUBSET Tasks /\ ws \in [Workers -> Clients]
      /\ \A v \in Workers : Orderly(ws[v])
      /\ Engines(p, a, ws) /\ Dialog(p) /\ Calls(p, ts) /\ Linked(p, ts, ws)
  BY SoundParts
<1>2. \A v \in Workers : new[v] = IF v = w THEN me ELSE ws[v]
  BY <1>1
<1>3. me \in Clients /\ me.made = ws[w].made /\ me.live = ws[w].live /\ ws[w] \in Clients
  BY <1>1 DEF Ended
<1>4. new \in [Workers -> Clients]
  BY <1>1, <1>3
<1> HIDE DEF new
<1>5. Orderly(me)
  BY <1>1, <1>3, EndedClient
<1>6. Made(new) = Made(ws)
  BY <1>2, <1>3 DEF Made
<1>7. Engines(p, a, new)
  BY <1>1, <1>2, <1>3, <1>6 DEF Engines
<1>8. p.matches.worker # 0 => Latest(p, new[p.matches.worker])
  <2>1. SUFFICES ASSUME p.matches.worker # 0 PROVE Latest(p, new[p.matches.worker])
    OBVIOUS
  <2>2. Latest(p, ws[p.matches.worker]) /\ p.matches.worker \in Workers
    BY <1>1, <2>1 DEF Linked, Dialog
  <2>3. CASE p.matches.worker = w
    <3>1. Latest(p, ws[w])
      BY <2>2, <2>3
    <3>2. Latest(p, me)
      BY <3>1, <1>1, <1>3, LatestEnded
    <3> QED BY <3>2, <2>2, <2>3, <1>2
  <2>4. CASE p.matches.worker # w
    BY <2>2, <2>4, <1>2
  <2> QED BY <2>3, <2>4
<1>9. ASSUME NEW t \in ts, t.id = p.gen
      PROVE  /\ t.step = "search" => Searching(t, new[t.worker])
             /\ t.step = "page" => Paging(p, t, new[t.worker])
  <2>1. t \in Tasks /\ t.worker \in Workers
    BY <1>1 DEF Tasks
  <2>2. /\ t.step = "search" => Searching(t, ws[t.worker])
        /\ t.step = "page" => /\ Paging(p, t, ws[t.worker])
                              /\ t.worker = p.matches.worker /\ p.matches.worker # 0
    <3>1. 0 \notin Workers
      BY SearchAssumption DEF Workers
    <3> QED BY <1>1, <1>9, <2>1, <3>1 DEF Linked, Calls
  <2>3. CASE t.worker # w
    BY <2>1, <2>2, <2>3, <1>2
  <2>4. CASE t.worker = w
    <3>1. new[t.worker] = me
      BY <2>1, <2>4, <1>2
    <3>2. t.step = "search" => Searching(t, me)
      <4>1. SUFFICES ASSUME t.step = "search" PROVE Searching(t, me)
        OBVIOUS
      <4>2. Searching(t, ws[w])
        BY <4>1, <2>2, <2>4
      <4> QED BY <4>2, <1>1, <1>3, SearchingEnded
    <3>3. t.step = "page" => Paging(p, t, me)
      <4>1. SUFFICES ASSUME t.step = "page" PROVE Paging(p, t, me)
        OBVIOUS
      <4>2. Paging(p, t, ws[w])
        BY <4>1, <2>2, <2>4
      <4>3. Latest(p, ws[w])
        BY <4>1, <2>2, <2>4, <1>1 DEF Linked
      <4> QED BY <4>2, <4>3, <2>1, <1>1, <1>3, PagingEnded
    <3> QED BY <3>1, <3>2, <3>3
  <2> QED BY <2>3, <2>4
<1>10. Linked(p, ts, new)
  BY <1>8, <1>9 DEF Linked
<1>11. \A v \in Workers : Orderly(new[v])
  BY <1>1, <1>2, <1>5
<1>12. Sound(p, a, ts, new)
  BY <1>1, <1>4, <1>7, <1>10, <1>11, SoundParts
<1> QED BY <1>12 DEF new

(* Changes and failures *)

\* The inductive invariant.
SearchInv == Sound(page, api, tasks, workers)

\* The invariant of the next state, for a citation.
LEMMA SearchInvPrime == Sound(page', api', tasks', workers') <=> SearchInv'
BY DEF SearchInv, Sound, Typed, Engines, Linked, Calls, Dialog, Orderly, Made, Latest, Searching,
       Paging, Waiting, InBox, Answers, Slice

\* What Cleared resets, and what it leaves.
LEMMA ClearedDialog ==
  ASSUME NEW p \in Pages
  PROVE  /\ Cleared(p) \in Pages
         /\ Cleared(p).matches = NoMatches /\ Cleared(p).screen = << >> /\ Cleared(p).more = FALSE
         /\ Cleared(p).text = p.text /\ Cleared(p).gen = p.gen /\ Cleared(p).timer = p.timer
         /\ Cleared(p).state = p.state
<1>1. << >> \in Seq(Items)
  OBVIOUS
<1>2. NoMatches \in [worker : Nat, sequence : Nat, count : Nat]
  BY DEF NoMatches
<1> QED BY <1>1, <1>2 DEF Cleared, Pages

\* A dialog that shows nothing.
LEMMA BareDialog ==
  ASSUME NEW p \in Pages, p.matches = NoMatches, p.screen = << >>, p.more = FALSE,
         p.state \in {"initial", "loading", "error"},
         p.timer # 0 => p.timer = p.gen /\ p.state = "loading" /\ p.text # Blank
  PROVE  Dialog(p)
<1>1. p.matches.worker = 0
  BY DEF NoMatches
<1>2. p.screen = [i \in 1 .. Len(p.screen) |-> Shown(p.text, i)]
  OBVIOUS
<1> QED BY <1>1, <1>2 DEF Dialog

\* A change of the input leaves no call current.
LEMMA ChangedSound ==
  ASSUME NEW p, NEW a, NEW ts, NEW ws, NEW text \in Texts, Sound(p, a, ts, ws), p.gen < MaxGen
  PROVE  /\ Sound(Changed(p, text), a, ts, ws) /\ Idle(Changed(p, text), ts)
         /\ Changed(p, text).matches = NoMatches /\ Changed(p, text).gen = p.gen + 1
         /\ Changed(p, text).text = text
<1> DEFINE new == Changed(p, text)
<1>1. p \in Pages /\ Calls(p, ts) /\ ts \in SUBSET Tasks
  BY SoundParts
<1>2. p.gen \in Nat /\ MaxGen \in Nat
  BY <1>1, SearchAssumption DEF Pages
<1>3. /\ new \in Pages
      /\ new.matches = NoMatches /\ new.screen = << >> /\ new.more = FALSE
      /\ new.text = text /\ new.gen = p.gen + 1
      /\ new.timer = (IF text = Blank THEN 0 ELSE p.gen + 1)
      /\ new.state = (IF text = Blank THEN "initial" ELSE "loading")
  <2> DEFINE c == Cleared(p)
  <2>1. /\ c \in Pages /\ c.matches = NoMatches /\ c.screen = << >> /\ c.more = FALSE
        /\ c.gen = p.gen
    BY <1>1, ClearedDialog
  <2>2. new = [c EXCEPT !.text = text, !.gen = @ + 1,
                        !.timer = IF text = Blank THEN 0 ELSE p.gen + 1,
                        !.state = IF text = Blank THEN "initial" ELSE "loading"]
    BY DEF Changed, NoTimer
  <2> HIDE DEF c, new
  <2>3. (IF text = Blank THEN 0 ELSE p.gen + 1) \in Nat /\ p.gen + 1 \in Nat
    BY <1>2
  <2> QED BY <2>1, <2>2, <2>3 DEF Pages
<1> HIDE DEF new
<1>4. Dialog(new)
  BY <1>3, BareDialog
<1>5. new.gen <= MaxGen /\ p.gen < new.gen /\ p.gen <= new.gen
  BY <1>2, <1>3
<1>6. Idle(new, ts)
  <2>1. ASSUME NEW t \in ts PROVE t.id # new.gen
    <3>1. t.id <= p.gen /\ t.id \in Nat
      BY <1>1 DEF Calls, Tasks
    <3> QED BY <3>1, <1>2, <1>3
  <2> QED BY <2>1 DEF Idle
<1>7. new.matches.worker = 0
  BY <1>3 DEF NoMatches
<1>8. Sound(new, a, ts, ws)
  BY <1>3, <1>4, <1>5, <1>6, <1>7, SoundIdle
<1> QED BY <1>3, <1>6, <1>8 DEF new

\* Destroying the client of the promise forgets it and every call it serves.
LEMMA ForgetSound ==
  ASSUME NEW p, NEW a, NEW ts, NEW ws, Sound(p, a, ts, ws)
  PROVE  Sound(p, NoApi, {t \in ts : t.worker # a.worker}, Destroy(ws, a.worker))
<1> DEFINE some == {t \in ts : t.worker # a.worker}
<1> DEFINE new == Destroy(ws, a.worker)
<1>1. /\ Engines(p, a, ws) /\ ws \in [Workers -> Clients] /\ \A v \in Workers : Orderly(ws[v])
  BY SoundParts
<1>2. a.worker \in 0 .. MaxGen /\ \A v \in Workers : ws[v].live => v = a.worker
  BY <1>1 DEF Engines
<1>3. Steady(ws, new) /\ \A v \in Workers : new[v].live => ws[v].live /\ v # a.worker
  BY <1>1, <1>2, DestroySteady
<1>4. \A v \in Workers : ~new[v].live
  BY <1>2, <1>3
<1> HIDE DEF new, some
<1>5. Sound(p, a, ts, new)
  BY <1>3, SoundSteady
<1>6. Sound(p, a, some, new)
  BY <1>5, SoundDrop DEF some
<1>7. Sound(p, NoApi, some, new)
  BY <1>4, <1>6, SoundForgotten
<1> QED BY <1>7 DEF new, some

\* The dialog after a failure.
Failed(p) == [Cleared(p) EXCEPT !.state = "error"]

\* A failure of the current generation.
LEMMA FailedSound ==
  ASSUME NEW p, NEW a, NEW ts, NEW ws, Sound(p, a, ts, ws), Idle(p, ts), p.timer = 0
  PROVE  Sound(Failed(p), NoApi, {t \in ts : t.worker # a.worker}, Destroy(ws, a.worker))
<1> DEFINE new == Failed(p)
<1>1. p \in Pages /\ Engines(p, a, ws)
  BY SoundParts
<1>2. /\ new \in Pages /\ new.matches = NoMatches /\ new.screen = << >> /\ new.more = FALSE
      /\ new.gen = p.gen /\ new.timer = 0 /\ new.state = "error"
  <2> DEFINE c == Cleared(p)
  <2>1. /\ c \in Pages /\ c.matches = NoMatches /\ c.screen = << >> /\ c.more = FALSE
        /\ c.gen = p.gen /\ c.timer = 0
    BY <1>1, ClearedDialog
  <2> HIDE DEF c
  <2> QED BY <2>1 DEF Failed, Pages, c
<1> HIDE DEF new
<1>3. Dialog(new)
  BY <1>2, BareDialog
<1>4. new.matches.worker = 0 /\ p.gen <= new.gen /\ new.gen <= MaxGen
  BY <1>1, <1>2 DEF NoMatches, Engines, Pages
<1>5. Idle(new, ts)
  BY <1>2 DEF Idle
<1>6. Sound(new, a, ts, ws)
  BY <1>2, <1>3, <1>4, <1>5, SoundIdle
<1> QED BY <1>6, ForgetSound DEF new

\* Fail keeps the invariant once no call is current.
LEMMA FailSound ==
  ASSUME NEW p, NEW a, NEW ts, NEW ws, Sound(p, a, ts, ws), Idle(p, ts), p.timer = 0,
         Fail(p, a, ts, ws)
  PROVE  Sound(page', api', tasks', workers')
<1>1. Sound(Failed(p), NoApi, {t \in ts : t.worker # a.worker}, Destroy(ws, a.worker))
  BY FailedSound
<1>2. /\ page' = Failed(p) /\ api' = NoApi /\ tasks' = {t \in ts : t.worker # a.worker}
      /\ workers' = Destroy(ws, a.worker)
  BY DEF Fail, Failed
<1> QED BY <1>1, <1>2

\* Reject keeps the invariant.
LEMMA RejectSound ==
  ASSUME NEW rejected, NEW p, NEW a, NEW ts, NEW ws, Sound(p, a, ts, ws), rejected \subseteq ts,
         Reject(rejected, p, a, ts, ws)
  PROVE  Sound(page', api', tasks', workers')
<1>1. Sound(p, a, ts \ rejected, ws)
  BY SoundDrop
<1>2. CASE \E t \in rejected : IsCurrent(p, t.id)
  <2>1. PICK t \in rejected : t.id = p.gen
    BY <1>2 DEF IsCurrent
  <2>2. Calls(p, ts)
    BY SoundParts
  <2>3. p.timer = 0 /\ Idle(p, ts \ rejected)
    BY <2>1, <2>2 DEF Calls, Idle
  <2>4. Fail(p, a, ts \ rejected, ws)
    BY <1>2 DEF Reject
  <2> QED BY <1>1, <2>3, <2>4, FailSound
<1>3. CASE ~(\E t \in rejected : IsCurrent(p, t.id))
  <2>1. page' = p /\ api' = a /\ tasks' = ts \ rejected /\ workers' = ws
    BY <1>3 DEF Reject
  <2> QED BY <1>1, <2>1
<1> QED BY <1>2, <1>3

(* Requests *)

\* The only order of one element.
LEMMA OneInOrder == ASSUME NEW x PROVE SetToSeq({x}) = <<x>>
<1>1. Cardinality({x}) = 1
  BY FS_Singleton
<1>2. SetToSeq({x}) = CHOOSE f \in [1 .. 1 -> {x}] : IsInjective(f)
  BY <1>1 DEF SetToSeq
<1>3. <<x>> \in [1 .. 1 -> {x}] /\ IsInjective(<<x>>)
  BY DEF IsInjective
<1>4. SetToSeq({x}) \in [1 .. 1 -> {x}]
  BY <1>2, <1>3
<1> QED BY <1>4

\* The only order of none.
LEMMA NoneInOrder == SetToSeq({}) = << >>
<1>1. Cardinality({}) = 0
  BY FS_EmptySet
<1>2. SetToSeq({}) = CHOOSE f \in [1 .. 0 -> {}] : IsInjective(f)
  BY <1>1 DEF SetToSeq
<1>3. << >> \in [1 .. 0 -> {}] /\ IsInjective(<< >>)
  BY DEF IsInjective
<1>4. SetToSeq({}) \in [1 .. 0 -> {}]
  BY <1>2, <1>3
<1> QED BY <1>4

\* A sequence of one request.
LEMMA OneRequest ==
  ASSUME NEW q \in Requests
  PROVE  <<q>> \in Seq(Requests) /\ Len(<<q>>) = 1 /\ <<q>>[1] = q /\ DOMAIN <<q>> = 1 .. 1
OBVIOUS

\* What Request holds.
LEMMA RequestTyped ==
  ASSUME NEW method \in Methods, NEW query \in Texts, NEW sequence \in Nat, NEW index \in Nat,
         method = "search" => query \in Queries
  PROVE  /\ Request(method, query, sequence, index) \in Requests
         /\ ~Request(method, query, sequence, index).lost
         /\ Request(method, query, sequence, index).method = method
         /\ Request(method, query, sequence, index).query = query
         /\ Request(method, query, sequence, index).sequence = sequence
         /\ Request(method, query, sequence, index).index = index
BY DEF Request, Requests

\* The clients once one of them has posted
LEMMA CallClients ==
  ASSUME NEW ws \in [Workers -> Clients], \A v \in Workers : Orderly(ws[v]), NEW w \in Workers,
         NEW requests \in Seq(Requests), \A i \in 1 .. Len(requests) : ~requests[i].lost
  PROVE  /\ Call(ws, w, requests) \in [Workers -> Clients]
         /\ \A v \in Workers : /\ Orderly(Call(ws, w, requests)[v])
                               /\ Call(ws, w, requests)[v].made = ws[v].made
                               /\ Call(ws, w, requests)[v].live = ws[v].live
         /\ Call(ws, w, requests)[w] = Posted(ws[w], requests)
         /\ (\A i \in 1 .. Len(requests) : requests[i].method = "data")
              => Steady(ws, Call(ws, w, requests))
<1> DEFINE me == Posted(ws[w], requests)
<1> DEFINE new == Call(ws, w, requests)
<1>1. new = [ws EXCEPT ![w] = me]
  BY CallIs
<1>2. ws[w] \in Clients /\ Orderly(ws[w])
  OBVIOUS
<1>3. me \in Clients /\ Orderly(me) /\ me.made = ws[w].made /\ me.live = ws[w].live
  BY <1>2, PostedClient
<1>4. (\A i \in 1 .. Len(requests) : requests[i].method = "data") => Kept(ws[w], me)
  BY <1>2, PostedKept
<1> HIDE DEF me, new
<1>5. \A v \in Workers : new[v] = IF v = w THEN me ELSE ws[v]
  BY <1>1
<1>6. new \in [Workers -> Clients]
  BY <1>1, <1>3
<1>7. (\A i \in 1 .. Len(requests) : requests[i].method = "data") => Steady(ws, new)
  <2>1. SUFFICES ASSUME \A i \in 1 .. Len(requests) : requests[i].method = "data"
                 PROVE  Steady(ws, new)
    OBVIOUS
  <2>2. Kept(ws[w], me)
    BY <2>1, <1>4
  <2> QED BY <2>2, <1>1, <1>3, OneChanged
<1>8. /\ \A v \in Workers : Orderly(new[v]) /\ new[v].made = ws[v].made /\ new[v].live = ws[v].live
      /\ new[w] = me
  BY <1>3, <1>5
<1> QED BY <1>6, <1>7, <1>8 DEF me, new

\* A call that has asked for its matches.
SearchTask(call, w, n) ==
  [id |-> call.id, query |-> call.query, worker |-> w, step |-> "search", need |-> {n}, got |-> {}]

\* What Ask does for the current call.
LEMMA AskOne ==
  ASSUME NEW call, NEW p, NEW a, NEW ts, NEW ws, Ask({call}, p, a, ts, ws)
  PROVE  /\ page' = p /\ api' = a
         /\ workers' = Call(ws, a.worker, <<Request("search", call.query, 0, 0)>>)
         /\ tasks' = ts \cup {SearchTask(call, a.worker, ws[a.worker].posted + 1)}
<1> DEFINE order == SetToSeq({call})
<1> DEFINE f == [i \in DOMAIN order |-> Request("search", order[i].query, 0, 0)]
<1> DEFINE some == {[id |-> order[i].id, query |-> order[i].query, worker |-> a.worker,
                     step |-> "search", need |-> {ws[a.worker].posted + i}, got |-> {}] :
                             i \in DOMAIN order}
<1>1. /\ page' = p /\ api' = a /\ workers' = Call(ws, a.worker, f)
      /\ tasks' = ts \cup some
  BY DEF Ask
<1>2. order = <<call>>
  BY OneInOrder
<1> HIDE DEF order
<1>3. DOMAIN order = {1} /\ order[1] = call
  BY <1>2
<1>4. f = <<Request("search", call.query, 0, 0)>>
  <2> DEFINE q == Request("search", call.query, 0, 0)
  <2>1. f = [i \in {1} |-> q]
    BY <1>3
  <2> HIDE DEF q, f
  <2>2. f = <<q>>
    BY <2>1
  <2> QED BY <2>2 DEF q
<1>5. some = {SearchTask(call, a.worker, ws[a.worker].posted + 1)}
  BY <1>3 DEF SearchTask
<1> QED BY <1>1, <1>4, <1>5

\* What Ask does when the current call has left.
LEMMA AskNone ==
  ASSUME NEW p, NEW a, NEW ts, NEW ws, Ask({}, p, a, ts, ws)
  PROVE  /\ page' = p /\ api' = a
         /\ workers' = Call(ws, a.worker, << >>)
         /\ tasks' = ts
<1> DEFINE order == SetToSeq({})
<1> DEFINE f == [i \in DOMAIN order |-> Request("search", order[i].query, 0, 0)]
<1> DEFINE some == {[id |-> order[i].id, query |-> order[i].query, worker |-> a.worker,
                     step |-> "search", need |-> {ws[a.worker].posted + i}, got |-> {}] :
                             i \in DOMAIN order}
<1>1. /\ page' = p /\ api' = a /\ workers' = Call(ws, a.worker, f)
      /\ tasks' = ts \cup some
  BY DEF Ask
<1>2. order = << >>
  BY NoneInOrder
<1> HIDE DEF order
<1>3. DOMAIN order = {}
  BY <1>2
<1>4. f = << >> /\ some = {}
  BY <1>3
<1> QED BY <1>1, <1>4

\* The current call asks for its matches.
LEMMA AskSound ==
  ASSUME NEW call, NEW p, NEW a, NEW ts, NEW ws, Sound(p, a, ts, ws), Idle(p, ts),
         p.timer = 0, p.state = "loading", p.matches = NoMatches, p.text # Blank,
         call.id = p.gen, call.query = p.text, a.worker \in Workers,
         Ask({call}, p, a, ts, ws)
  PROVE  Sound(page', api', tasks', workers')
<1>1. /\ p \in Pages /\ a \in Apis /\ ts \in SUBSET Tasks /\ ws \in [Workers -> Clients]
      /\ \A w \in Workers : Orderly(ws[w])
      /\ Engines(p, a, ws)
  BY SoundParts
<1> DEFINE w == a.worker
<1> DEFINE q == Request("search", call.query, 0, 0)
<1> DEFINE new == Call(ws, w, <<q>>)
<1> DEFINE n == ws[w].posted + 1
<1> DEFINE t == SearchTask(call, w, n)
<1>2. page' = p /\ api' = a /\ workers' = new /\ tasks' = ts \cup {t}
  BY AskOne
<1>3. /\ q \in Requests /\ ~q.lost /\ q.method = "search" /\ q.query = p.text
  <2>1. p.text \in Queries /\ p.text \in Texts /\ "search" \in Methods /\ 0 \in Nat
    BY <1>1 DEF Pages, Texts, Methods
  <2> QED BY <2>1, RequestTyped
<1>4. ws[w] \in Clients /\ Orderly(ws[w]) /\ ws[w].posted \in Nat
  BY <1>1 DEF Clients
<1>5. t \in Tasks /\ t.id = p.gen /\ t.query = p.text /\ t.step = "search" /\ t.worker = w
      /\ t.need = {n}
  BY <1>1, <1>4 DEF Tasks, SearchTask, Pages
<1>6. /\ <<q>> \in Seq(Requests) /\ Len(<<q>>) = 1 /\ <<q>>[1] = q
  BY <1>3
<1>7. \A i \in 1 .. Len(<<q>>) : ~<<q>>[i].lost
  BY <1>3, <1>6
<1> DEFINE asked == <<q>>
<1> HIDE DEF q, t, new, n, asked
<1>8. /\ new \in [Workers -> Clients]
      /\ \A v \in Workers : /\ Orderly(new[v]) /\ new[v].made = ws[v].made
                            /\ new[v].live = ws[v].live
      /\ new[w] = Posted(ws[w], asked)
  BY <1>1, <1>6, <1>7, CallClients DEF new, asked
<1>9. Engines(p, a, new)
  <2>1. Made(new) = Made(ws)
    BY <1>8 DEF Made
  <2> QED BY <2>1, <1>1, <1>8 DEF Engines
<1>10. Sound(p, a, ts, new)
  BY <1>1, <1>8, <1>9, SoundClients DEF NoMatches
<1>11. /\ new[w].posted = n
       /\ Answers(new[w]) = Answers(ws[w])
       /\ \A s \in Waiting(new[w]) : s \in Waiting(ws[w]) \/ NumberedAs(q, n, s)
  <2>1. /\ Posted(ws[w], asked).posted = ws[w].posted + Len(asked)
        /\ Answers(Posted(ws[w], asked)) = Answers(ws[w])
        /\ \A s \in Waiting(Posted(ws[w], asked)) :
              \/ s \in Waiting(ws[w])
              \/ \E i \in 1 .. Len(asked) : NumberedAs(asked[i], ws[w].posted + i, s)
    BY <1>4, <1>6, <1>7, PostedClient DEF asked
  <2>2. Len(asked) = 1 /\ asked[1] = q
    BY <1>6 DEF asked
  <2> QED BY <2>1, <2>2, <1>8 DEF n
<1>12. Searching(t, new[w])
  <2>1. n \in 1 .. new[w].posted /\ n <= new[w].posted
    BY <1>4, <1>11 DEF n
  <2>2. ASSUME NEW s \in Waiting(new[w])
        PROVE  /\ s.n = n => s.method = "search" /\ s.query = t.query
               /\ s.method # "data" => s.n <= n
    <3>1. CASE s \in Waiting(ws[w])
      <4>1. s.n \in Nat /\ s.n <= ws[w].posted
        BY <3>1, <1>4, MessagesTyped DEF Orderly, Requests
      <4>2. s.n # n /\ s.n <= n
        BY <4>1, <1>4 DEF n
      <4> QED BY <4>2
    <3>2. CASE NumberedAs(q, n, s)
      <4>1. n <= n
        BY <1>4 DEF n
      <4> QED BY <3>2, <4>1, <1>3, <1>5 DEF NumberedAs
    <3> QED BY <3>1, <3>2, <1>11
  <2>3. ASSUME NEW x \in Answers(new[w]) PROVE x.n # n
    <3>1. x.n \in Nat /\ x.n <= ws[w].posted
      BY <1>4, <1>11, MessagesTyped DEF Orderly, Replies
    <3> QED BY <3>1, <1>4 DEF n
  <2> QED BY <1>5, <2>1, <2>2, <2>3 DEF Searching
<1>13. Sound(p, a, ts \cup {t}, new)
  BY <1>5, <1>10, <1>12, SoundCall
<1> QED BY <1>2, <1>13

(* Pages *)

\* A page's numbers are consecutive.
LEMMA Shifted ==
  ASSUME NEW b \in Nat, NEW c \in Nat
  PROVE  {b + i : i \in 1 .. c} = b + 1 .. b + c
<1>1. ASSUME NEW n \in b + 1 .. b + c PROVE n \in {b + i : i \in 1 .. c}
  <2>1. n - b \in 1 .. c /\ b + (n - b) = n
    OBVIOUS
  <2> QED BY <2>1
<1>2. \A i \in 1 .. c : b + i \in b + 1 .. b + c
  OBVIOUS
<1> QED BY <1>1, <1>2

\* A page is asked for, or the query has no hit.
LEMMA ShowSound ==
  ASSUME NEW p, NEW a, NEW ts, NEW ws, Sound(p, a, ts, ws), Idle(p, ts),
         p.timer = 0, p.state = "loading", ~p.more, p.matches.worker # 0,
         p.screen = << >> \/ Len(p.screen) < p.matches.count,
         ShowPage(p.gen, p, a, ts, ws)
  PROVE  Sound(page', api', tasks', workers')
<1>1. /\ p \in Pages /\ a \in Apis /\ ts \in SUBSET Tasks /\ ws \in [Workers -> Clients]
      /\ \A w \in Workers : Orderly(ws[w])
      /\ Engines(p, a, ws) /\ Dialog(p) /\ Linked(p, ts, ws)
  BY SoundParts
<1> DEFINE count == Slice(p)
<1> DEFINE shown == Len(p.screen)
<1> DEFINE w == p.matches.worker
<1>2. /\ count = (IF PageSize <= p.matches.count - shown THEN PageSize ELSE p.matches.count - shown)
      /\ count \in Int /\ p.matches.count \in Nat /\ shown \in Nat
  BY <1>1, SliceValue
<1>3. /\ p.text # Blank /\ w \in Workers /\ p.matches.count = Hits[p.text]
      /\ shown <= p.matches.count
  BY <1>1 DEF Dialog
<1>4. PageSize \in Nat \ {0}
  BY SearchAssumption
<1>5. CASE count = 0
  <2>1. page' = [p EXCEPT !.state = "empty"] /\ api' = a /\ tasks' = ts /\ workers' = ws
    BY <1>5 DEF ShowPage
  <2> DEFINE new == [p EXCEPT !.state = "empty"]
  <2>2. /\ new \in Pages /\ new.state = "empty" /\ new.gen = p.gen /\ new.timer = p.timer
        /\ new.matches = p.matches /\ new.screen = p.screen /\ new.more = p.more
        /\ new.text = p.text
    BY <1>1 DEF Pages
  <2>3. p.matches.count = 0
    <3>1. shown = p.matches.count
      BY <1>2, <1>4, <1>5
    <3>2. p.screen = << >> => shown = 0
      OBVIOUS
    <3>3. ~(shown < p.matches.count)
      BY <1>2, <3>1
    <3> QED BY <3>1, <3>2, <3>3
  <2> HIDE DEF new
  <2>4. Dialog(new)
    BY <1>1, <1>3, <2>2, <2>3 DEF Dialog
  <2>5. p.gen <= new.gen /\ new.gen <= MaxGen
    BY <1>1, <2>2 DEF Engines, Pages
  <2>6. Idle(new, ts) /\ Latest(new, ws[new.matches.worker])
    BY <1>1, <2>2 DEF Idle, Linked, Latest
  <2>7. Sound(new, a, ts, ws)
    BY <2>2, <2>4, <2>5, <2>6, SoundIdle
  <2> QED BY <2>1, <2>7 DEF new
<1>6. CASE count # 0
  <2> DEFINE requests == [i \in 1 .. count |->
                            Request("data", p.text, p.matches.sequence, Len(p.screen) + i)]
  <2> DEFINE new == Call(ws, w, requests)
  <2> DEFINE t == [id |-> p.gen, query |-> p.text, worker |-> w, step |-> "page",
                   need |-> Numbers(ws, w, count), got |-> {}]
  <2>1. page' = p /\ api' = a /\ workers' = new /\ tasks' = ts \cup {t}
    BY <1>6 DEF ShowPage
  <2>2. count \in Nat /\ count > 0
    BY <1>2, <1>3, <1>4, <1>6
  <2>3. ASSUME NEW i \in 1 .. count
        PROVE  /\ requests[i] \in Requests /\ ~requests[i].lost /\ requests[i].method = "data"
               /\ requests[i].sequence = p.matches.sequence /\ requests[i].index = shown + i
    <3>1. requests[i] = Request("data", p.text, p.matches.sequence, shown + i)
      OBVIOUS
    <3>2. p.text \in Texts /\ p.matches.sequence \in Nat /\ shown + i \in Nat /\ "data" \in Methods
      BY <1>1, <1>2, <2>2 DEF Pages, Methods
    <3> HIDE DEF requests, count, shown
    <3> QED BY <3>1, <3>2, RequestTyped
  <2> HIDE DEF count, shown
  <2>4. requests \in Seq(Requests) /\ Len(requests) = count
    <3>1. requests \in [1 .. count -> Requests]
      BY <2>3
    <3> HIDE DEF requests
    <3> QED BY <3>1, <2>2
  <2> DEFINE base == ws[w].posted
  <2>5. ws[w] \in Clients /\ Orderly(ws[w]) /\ base \in Nat
    BY <1>1, <1>3 DEF Clients
  <2>6. Numbers(ws, w, count) = base + 1 .. base + count
    <3>1. Numbers(ws, w, count) = {base + i : i \in 1 .. count}
      BY DEF Numbers
    <3> HIDE DEF base
    <3> QED BY <2>2, <2>5, <3>1, Shifted
  <2>7. /\ t \in Tasks /\ t.id = p.gen /\ t.query = p.text /\ t.step = "page" /\ t.worker = w
        /\ t.need = base + 1 .. base + count /\ t.got = {}
    <3>1. base + 1 .. base + count \in SUBSET Nat
      BY <2>2, <2>5
    <3>2. {} \in SUBSET Items /\ "page" \in {"load", "search", "page"}
      OBVIOUS
    <3>3. p.gen \in Nat /\ p.text \in Texts
      BY <1>1 DEF Pages
    <3> HIDE DEF base, w
    <3>4. t = [id |-> p.gen, query |-> p.text, worker |-> w, step |-> "page",
                   need |-> base + 1 .. base + count, got |-> {}]
      BY <2>6
    <3>5. w \in Workers
      BY <1>3 DEF w
    <3> HIDE DEF t
    <3>6. t \in Tasks
      BY <3>1, <3>2, <3>3, <3>4, <3>5 DEF Tasks
    <3> QED BY <3>4, <3>6
  <2> HIDE DEF requests, t, new
  <2>8. /\ \A i \in 1 .. Len(requests) : ~requests[i].lost
        /\ \A i \in 1 .. Len(requests) : requests[i].method = "data"
    BY <2>3, <2>4
  <2>9. /\ Steady(ws, new) /\ new[w] = Posted(ws[w], requests)
        /\ \A v \in Workers : new[v].live = ws[v].live
    BY <1>1, <1>3, <2>4, <2>8, CallClients DEF new
  <2>10. Sound(p, a, ts, new)
    BY <2>9, SoundSteady
  <2>11. /\ new[w].posted = base + count
         /\ Answers(new[w]) = Answers(ws[w])
         /\ \A s \in Waiting(new[w]) :
              \/ s \in Waiting(ws[w])
              \/ \E i \in 1 .. count : NumberedAs(requests[i], base + i, s)
    <3>1. /\ Posted(ws[w], requests).posted = ws[w].posted + Len(requests)
          /\ Answers(Posted(ws[w], requests)) = Answers(ws[w])
          /\ \A s \in Waiting(Posted(ws[w], requests)) :
              \/ s \in Waiting(ws[w])
              \/ \E i \in 1 .. Len(requests) : NumberedAs(requests[i], ws[w].posted + i, s)
      BY <2>4, <2>5, <2>8, PostedClient
    <3> QED BY <3>1, <2>4, <2>9
  <2>12. Paging(p, t, new[w])
    <3>1. base \in 0 .. new[w].posted /\ base + count <= new[w].posted
      BY <2>2, <2>5, <2>11
    <3>2. t.need # {}
      <4>1. base + 1 \in t.need
        BY SMTT(60), <2>2, <2>5, <2>7
      <4> QED BY <4>1
    <3>3. t.got = {Shown(p.text, shown + (n - base)) : n \in (base + 1 .. base + count) \ t.need}
      BY <2>7
    <3>4. ASSUME NEW s \in Waiting(new[w]), s.n \in t.need
          PROVE  /\ s.method = "data" /\ s.sequence = p.matches.sequence
                 /\ s.index = shown + (s.n - base)
      <4>1. CASE s \in Waiting(ws[w])
        <5>1. s.n \in Nat /\ s.n <= base
          BY <4>1, <2>5, MessagesTyped DEF Orderly, Requests
        <5> QED BY <5>1, <3>4, <2>2, <2>5, <2>7
      <4>2. ASSUME NEW i \in 1 .. count, NumberedAs(requests[i], base + i, s)
            PROVE  /\ s.method = "data" /\ s.sequence = p.matches.sequence
                   /\ s.index = shown + (s.n - base)
        <5>1. /\ s.method = "data" /\ s.sequence = p.matches.sequence /\ s.index = shown + i
              /\ s.n = base + i
          BY <4>2, <2>3 DEF NumberedAs
        <5>2. s.n - base = i
          BY <5>1, <2>2, <2>5
        <5> QED BY <5>1, <5>2
      <4> QED BY <4>1, <4>2, <2>11
    <3>5. ASSUME NEW x \in Answers(new[w]) PROVE x.n \notin t.need
      <4>1. x.n \in Nat /\ x.n <= base
        BY SMTT(60), <2>5, <2>11, MessagesTyped DEF Orderly, Replies
      <4> QED BY <4>1, <2>2, <2>5, <2>7
    <3>6. Slice(p) = count /\ Len(p.screen) = shown
      BY DEF count, shown
    <3> QED BY SMTT(60), <2>2, <2>7, <3>1, <3>2, <3>3, <3>4, <3>5, <3>6 DEF Paging
  <2>13. Sound(p, a, ts \cup {t}, new)
    <3>1. new[t.worker] = new[w] /\ t.step # "search" /\ t.step # "load"
      BY <2>7
    <3> QED BY <1>3, <2>7, <2>10, <2>12, <3>1, SoundCall
  <2> QED BY <2>1, <2>13
<1> QED BY <1>5, <1>6

\* A page that is complete is shown after the pages before it.
LEMMA RenderSound ==
  ASSUME NEW p, NEW a, NEW ts, NEW ws, NEW got, Sound(p, a, ts, ws), Idle(p, ts), p.timer = 0,
         p.matches.worker # 0, Slice(p) > 0,
         got = {Shown(p.text, Len(p.screen) + i) : i \in 1 .. Slice(p)}
  PROVE  Sound(Render(p, got), a, ts, ws)
<1>1. /\ p \in Pages /\ Engines(p, a, ws) /\ Dialog(p) /\ Linked(p, ts, ws)
  BY SoundParts
<1> DEFINE count == Slice(p)
<1> DEFINE shown == Len(p.screen)
<1>2. /\ count = (IF PageSize <= p.matches.count - shown THEN PageSize ELSE p.matches.count - shown)
      /\ count \in Int /\ p.matches.count \in Nat /\ shown \in Nat /\ count > 0
  BY <1>1, SliceValue
<1>3. count \in Nat /\ shown + count <= p.matches.count /\ shown + count \in Nat
  BY <1>2, SearchAssumption
<1> DEFINE rest == [i \in 1 .. count |-> CHOOSE g \in got : g.index = shown + i]
<1> DEFINE screen == p.screen \o rest
<1> DEFINE flag == Len(screen) < p.matches.count
<1> DEFINE new == [p EXCEPT !.screen = screen, !.more = flag, !.state = "results"]
<1>4. Render(p, got) = new
  BY DEF Render
<1>5. ASSUME NEW i \in 1 .. count
      PROVE  /\ rest[i] = Shown(p.text, shown + i) /\ Shown(p.text, shown + i) \in Items
  <2>1. Shown(p.text, shown + i) \in got
    OBVIOUS
  <2>2. \A j \in 1 .. count : shown + j = shown + i => j = i
    BY <1>2, <1>3
  <2>3. \A g \in got : g.index = shown + i => g = Shown(p.text, shown + i)
    BY <2>2 DEF Shown
  <2>4. Shown(p.text, shown + i).index = shown + i
    BY DEF Shown
  <2>5. (CHOOSE g \in got : g.index = shown + i) = Shown(p.text, shown + i)
    BY <2>1, <2>3, <2>4
  <2>6. shown + i \in Nat /\ p.text \in Texts
    BY <1>1, <1>2, <1>3 DEF Pages
  <2> QED BY <2>5, <2>6 DEF Shown, Items
<1> HIDE DEF count, shown
<1>6. rest \in Seq(Items) /\ Len(rest) = count
  <2>1. rest \in [1 .. count -> Items]
    BY <1>5
  <2> HIDE DEF rest
  <2> QED BY <2>1, <1>3
<1> HIDE DEF rest
<1>7. p.screen \in Seq(Items) /\ Len(p.screen) = shown
  BY <1>1 DEF Pages, shown
<1>8. /\ screen \in Seq(Items) /\ Len(screen) = shown + count
      /\ \A i \in 1 .. shown + count : screen[i] = IF i <= shown THEN p.screen[i] ELSE rest[i - shown]
  BY ZenonT(60), <1>6, <1>7, ConcatProperties
<1> HIDE DEF screen
<1>9. \A i \in 1 .. shown + count : screen[i] = Shown(p.text, i)
  <2>1. ASSUME NEW i \in 1 .. shown + count PROVE screen[i] = Shown(p.text, i)
    <3>1. CASE i <= shown
      <4>1. i \in 1 .. shown
        BY <3>1, <1>2
      <4>2. p.screen[i] = Shown(p.text, i)
        BY <4>1, <1>1, <1>7 DEF Dialog
      <4> QED BY <3>1, <4>2, <1>8
    <3>2. CASE ~(i <= shown)
      <4>1. i - shown \in 1 .. count /\ shown + (i - shown) = i
        BY <3>2, <1>2, <1>3
      <4> QED BY <4>1, <3>2, <1>5, <1>8
    <3> QED BY <3>1, <3>2
  <2> QED BY <2>1
<1>10. screen = [i \in 1 .. Len(screen) |-> Shown(p.text, i)]
  <2>1. DOMAIN screen = 1 .. Len(screen) /\ screen \in [1 .. Len(screen) -> Items]
    BY <1>8, LenProperties
  <2> QED BY <2>1, <1>8, <1>9
<1>101. flag \in BOOLEAN /\ flag = (Len(screen) < p.matches.count)
  OBVIOUS
<1> HIDE DEF flag
<1>11. /\ new \in Pages /\ new.state = "results" /\ new.gen = p.gen /\ new.timer = p.timer
       /\ new.matches = p.matches /\ new.screen = screen /\ new.text = p.text
       /\ new.more = flag
  BY <1>1, <1>8, <1>101 DEF Pages
<1> HIDE DEF new
<1>12. Dialog(new)
  <2>1. new.matches.worker # 0 /\ new.timer = 0
    BY <1>11
  <2>2. /\ p.text # Blank /\ p.matches.worker \in Workers /\ p.matches.count = Hits[p.text]
    BY <1>1 DEF Dialog
  <2>3. Len(new.screen) <= new.matches.count
    BY <1>3, <1>8, <1>11
  <2> QED BY <1>10, <1>101, <1>11, <2>1, <2>2, <2>3 DEF Dialog
<1>13. p.gen <= new.gen /\ new.gen <= MaxGen
  BY <1>1, <1>11 DEF Engines, Pages
<1>14. Idle(new, ts) /\ Latest(new, ws[new.matches.worker])
  BY <1>1, <1>11 DEF Idle, Linked, Latest
<1>15. Sound(new, a, ts, ws)
  BY <1>11, <1>12, <1>13, <1>14, SoundIdle
<1> QED BY <1>4, <1>15

(* The start of a search *)

\* A worker is left for this generation.
Room(p, ws) == \E k \in 0 .. MaxGen : Made(ws) = 1 .. k /\ k < p.gen

\* The next worker has never been made.
LEMMA NextWorker ==
  ASSUME NEW ws, NEW k \in 0 .. MaxGen, Made(ws) = 1 .. k
  PROVE  Cardinality({v \in Workers : ws[v].made}) + 1 = k + 1
<1>1. {v \in Workers : ws[v].made} = 1 .. k
  BY DEF Made
<1>2. k \in Int /\ 1 \in Int /\ k >= 0
  BY SearchAssumption
<1>3. Cardinality(1 .. k) = k
  <2>1. Cardinality(1 .. k) = IF 1 > k THEN 0 ELSE k - 1 + 1
    BY <1>2, FS_Interval
  <2> QED BY <2>1, <1>2
<1> QED BY <1>1, <1>3

\* The clients with a new worker.
Opened(ws, w) == [ws EXCEPT ![w].made = TRUE, ![w].live = TRUE]

\* A worker opened for a new promise.
LEMMA OpenedClients ==
  ASSUME NEW ws \in [Workers -> Clients], \A v \in Workers : Orderly(ws[v]), NEW w \in Workers,
         ~ws[w].live
  PROVE  /\ Opened(ws, w) \in [Workers -> Clients]
         /\ \A v \in Workers : Orderly(Opened(ws, w)[v])
         /\ \A v \in Workers : Opened(ws, w)[v].made = (v = w \/ ws[v].made)
         /\ \A v \in Workers : Opened(ws, w)[v].live = (v = w \/ ws[v].live)
<1> DEFINE me == [ws[w] EXCEPT !.made = TRUE, !.live = TRUE]
<1> DEFINE new == Opened(ws, w)
<1>1. new = [ws EXCEPT ![w] = me]
  BY DEF Opened
<1>2. ws[w] \in Clients /\ Orderly(ws[w])
  OBVIOUS
<1>3. /\ me \in Clients /\ me.made = TRUE /\ me.live = TRUE /\ me.inbox = ws[w].inbox
      /\ me.busy = ws[w].busy /\ me.outbox = ws[w].outbox
  BY <1>2 DEF Clients
<1> HIDE DEF me, new
<1>4. Orderly(me)
  <2>1. InBox(me) = {} /\ Waiting(me) = {} /\ Answers(me) = {} /\ me.inbox = << >> /\ me.busy = {}
    BY <1>2, <1>3 DEF Orderly, InBox, Waiting, Answers
  <2> QED BY <2>1, <1>3 DEF Orderly
<1>5. \A v \in Workers : new[v] = IF v = w THEN me ELSE ws[v]
  BY <1>1
<1>6. new \in [Workers -> Clients]
  BY <1>1, <1>3
<1>7. \A v \in Workers : Orderly(new[v])
  BY <1>4, <1>5
<1>8. ASSUME NEW v \in Workers
      PROVE  new[v].made = (v = w \/ ws[v].made) /\ new[v].live = (v = w \/ ws[v].live)
  <2>1. CASE v = w
    BY <2>1, <1>3, <1>5
  <2>2. CASE v # w
    <3>1. new[v] = ws[v]
      BY <2>2, <1>5
    <3>2. ws[v].made \in BOOLEAN /\ ws[v].live \in BOOLEAN
      BY DEF Clients
    <3> QED BY <2>2, <3>1, <3>2
  <2> QED BY <2>1, <2>2
<1> QED BY <1>6, <1>7, <1>8 DEF new

\* A search starts: it loads the engine, waits for it, uses it or meets its failure.
LEMMA StartSound ==
  ASSUME NEW id, NEW p, Sound(p, api, tasks, workers), Idle(p, tasks), p.timer = 0,
         p.matches = NoMatches, Room(p, workers), StartSearch(id, p)
  PROVE  Sound(page', api', tasks', workers')
<1>1. /\ p \in Pages /\ api \in Apis /\ tasks \in SUBSET Tasks
      /\ workers \in [Workers -> Clients]
      /\ \A w \in Workers : Orderly(workers[w])
      /\ Engines(p, api, workers) /\ Dialog(p)
  BY SoundParts
<1>2. CASE p.text = Blank \/ ~IsCurrent(p, id)
  <2>1. page' = p /\ api' = api /\ tasks' = tasks /\ workers' = workers
    BY <1>2 DEF StartSearch
  <2> QED BY <2>1
<1>3. CASE ~(p.text = Blank \/ ~IsCurrent(p, id))
  <2> DEFINE q == [p EXCEPT !.state = "loading"]
  <2> DEFINE call == [id |-> id, query |-> p.text]
  <2>1. p.text # Blank /\ id = p.gen
    BY <1>3 DEF IsCurrent
  <2>2. /\ q \in Pages /\ q.state = "loading" /\ q.gen = p.gen /\ q.timer = 0
        /\ q.matches = NoMatches /\ q.screen = << >> /\ q.more = FALSE /\ q.text = p.text
    <3>1. p.screen = << >> /\ p.more = FALSE
      BY <1>1 DEF Dialog, NoMatches, Pages
    <3> QED BY <1>1, <3>1 DEF Pages
  <2>3. call.id = p.gen /\ call.query = p.text
    BY <2>1
  <2>4. \/ /\ api.state = "none"
           /\ LET w == Cardinality({v \in Workers : workers[v].made}) + 1
              IN /\ api' = [worker |-> w, state |-> "pending"]
                 /\ tasks' = tasks \cup {LoadTask(call, w)}
                 /\ workers' = Call(Opened(workers, w), w, <<Request("options", Blank, 0, 0)>>)
           /\ page' = q
        \/ /\ api.state = "pending"
           /\ tasks' = tasks \cup {LoadTask(call, api.worker)}
           /\ page' = q /\ api' = api /\ workers' = workers
        \/ api.state = "ready" /\ Ask({call}, q, api, tasks, workers)
        \/ api.state = "failed" /\ Fail(q, api, tasks, workers)
    BY <1>3 DEF StartSearch, Opened
  <2> HIDE DEF q, call
  <2>5. Dialog(q)
    BY <2>2, BareDialog
  <2>6. Idle(q, tasks) /\ q.gen <= MaxGen /\ p.gen <= q.gen /\ q.matches.worker = 0
    BY <1>1, <2>2 DEF Idle, Engines, Pages, NoMatches
  <2>7. Sound(q, api, tasks, workers)
    BY <2>2, <2>5, <2>6, SoundIdle
  <2>8. api.state # "none" => api.worker \in Workers
    BY <1>1, SearchAssumption DEF Engines, Workers
  <2>9. ASSUME NEW w \in Workers
        PROVE /\ LoadTask(call, w) \in Tasks /\ LoadTask(call, w).id = q.gen
              /\ LoadTask(call, w).query = q.text /\ LoadTask(call, w).step = "load"
              /\ LoadTask(call, w).need = {}
    <3>1. p.gen \in Nat /\ p.text \in Texts
      BY <1>1 DEF Pages
    <3> QED BY <2>2, <2>3, <3>1 DEF LoadTask, Tasks
  <2>10. CASE api.state = "none"
    <3>1. PICK k \in 0 .. MaxGen : Made(workers) = 1 .. k /\ k < p.gen
      BY DEF Room
    <3> DEFINE w == k + 1
    <3> DEFINE open == Opened(workers, w)
    <3> DEFINE ask == <<Request("options", Blank, 0, 0)>>
    <3> DEFINE new == Call(open, w, ask)
    <3> DEFINE b == [worker |-> w, state |-> "pending"]
    <3> DEFINE t == LoadTask(call, w)
    <3>2. w = Cardinality({v \in Workers : workers[v].made}) + 1
      BY <3>1, NextWorker
    <3>3. page' = q /\ api' = b /\ tasks' = tasks \cup {t} /\ workers' = new
      BY <2>4, <2>10, <3>2
    <3>4. p.gen <= MaxGen /\ p.gen \in Nat /\ MaxGen \in Nat
      BY <1>1, SearchAssumption DEF Engines, Pages
    <3>5. w \in Workers /\ w \in 0 .. MaxGen /\ w <= p.gen /\ w \in Nat /\ w # 0
      BY <3>1, <3>4 DEF Workers
    <3>6. \A v \in Workers : ~workers[v].live
      <4>1. api.worker = 0 /\ 0 \notin Workers
        BY <1>1, <2>10 DEF Engines, Workers
      <4> QED BY <4>1, <1>1 DEF Engines
    <3> HIDE DEF w, b, t, new
    <3>7. /\ open \in [Workers -> Clients]
          /\ \A v \in Workers : Orderly(open[v])
          /\ \A v \in Workers : open[v].made = (v = w \/ workers[v].made)
          /\ \A v \in Workers : open[v].live = (v = w \/ workers[v].live)
      BY <1>1, <3>5, <3>6, OpenedClients
    <3> HIDE DEF open
    <3>8. ask \in Seq(Requests) /\ \A i \in 1 .. Len(ask) : ~ask[i].lost
      <4> DEFINE r == Request("options", Blank, 0, 0)
      <4>1. r \in Requests /\ ~r.lost
        <5>1. "options" \in Methods /\ Blank \in Texts /\ 0 \in Nat
          BY DEF Methods, Texts
        <5> QED BY <5>1, RequestTyped
      <4> HIDE DEF r
      <4>2. <<r>> \in Seq(Requests) /\ Len(<<r>>) = 1 /\ <<r>>[1] = r
        BY <4>1
      <4> QED BY <4>1, <4>2 DEF r
    <3> HIDE DEF ask
    <3>9. /\ new \in [Workers -> Clients]
          /\ \A v \in Workers : /\ Orderly(new[v]) /\ new[v].made = open[v].made
                                /\ new[v].live = open[v].live
      BY <3>5, <3>7, <3>8, CallClients DEF new
    <3>10. Made(new) = 1 .. w
      <4>1. \A v \in Workers : new[v].made <=> (v = w \/ v \in 1 .. k)
        BY <3>1, <3>7, <3>9 DEF Made
      <4>2. Made(new) = {v \in Workers : v = w \/ v \in 1 .. k}
        BY <4>1 DEF Made
      <4>3. \A v : (v \in Workers /\ (v = w \/ v \in 1 .. k)) <=> v \in 1 .. w
        BY <3>1, <3>4, <3>5 DEF w, Workers
      <4> QED BY <4>2, <4>3
    <3>11. b \in Apis /\ b.worker = w /\ b.state = "pending"
      BY <3>5 DEF b, Apis
    <3>12. \A v \in Workers : new[v].live => v = w /\ new[v].made
      BY <3>6, <3>7, <3>9
    <3>13. Engines(q, b, new)
      BY <3>4, <3>5, <3>10, <3>11, <3>12, <2>2 DEF Engines
    <3>14. Sound(q, b, tasks, new)
      BY <2>6, <2>7, <3>9, <3>11, <3>13, SoundClients
    <3>15. /\ t \in Tasks /\ t.id = q.gen /\ t.query = q.text /\ t.step = "load" /\ t.need = {}
      BY <2>9, <3>5 DEF t
    <3>16. Sound(q, b, tasks \cup {t}, new)
      BY <2>1, <2>2, <2>6, <3>14, <3>15, SoundCall
    <3> QED BY <3>3, <3>16
  <2>11. CASE api.state = "pending"
    <3> DEFINE t == LoadTask(call, api.worker)
    <3>1. page' = q /\ api' = api /\ tasks' = tasks \cup {t} /\ workers' = workers
      BY <2>4, <2>11
    <3>2. /\ t \in Tasks /\ t.id = q.gen /\ t.query = q.text /\ t.step = "load" /\ t.need = {}
      BY <2>8, <2>9, <2>11
    <3> HIDE DEF t
    <3>3. Sound(q, api, tasks \cup {t}, workers)
      BY <2>1, <2>2, <2>6, <2>7, <3>2, SoundCall
    <3> QED BY <3>1, <3>3
  <2>12. CASE api.state = "ready"
    <3>1. Ask({call}, q, api, tasks, workers)
      BY <2>4, <2>12
    <3>2. api.worker \in Workers
      BY <2>8, <2>12
    <3> QED BY <2>1, <2>2, <2>3, <2>6, <2>7, <3>1, <3>2, AskSound
  <2>13. CASE api.state = "failed"
    <3>1. Fail(q, api, tasks, workers)
      BY <2>4, <2>13
    <3> QED BY <2>2, <2>6, <2>7, <3>1, FailSound
  <2> QED BY <2>4, <2>10, <2>11, <2>12, <2>13
<1> QED BY <1>2, <1>3

\* The invariant's parts in the present state.
LEMMA SearchParts ==
  SearchInv <=>
     /\ page \in Pages /\ api \in Apis /\ tasks \in SUBSET Tasks
     /\ workers \in [Workers -> Clients]
     /\ \A w \in Workers : Orderly(workers[w])
     /\ Engines(page, api, workers) /\ Dialog(page) /\ Calls(page, tasks)
     /\ Linked(page, tasks, workers)
BY DEF SearchInv, Sound, Typed

(* The page's tasks *)

\* An input keeps the invariant.
LEMMA InputSound == ASSUME SearchInv, NEW text \in Texts, Input(text) PROVE SearchInv'
<1>1. /\ page.gen < MaxGen /\ page' = Changed(page, text) /\ api' = api /\ tasks' = tasks
      /\ workers' = workers
  BY DEF Input
<1>2. Sound(Changed(page, text), api, tasks, workers)
  BY <1>1, ChangedSound DEF SearchInv
<1> QED BY <1>1, <1>2, SearchInvPrime

\* So does the end of the delay.
LEMMA NoTimerSound ==
  ASSUME NEW p, NEW a, NEW ts, NEW ws, Sound(p, a, ts, ws), Idle(p, ts), p.matches = NoMatches
  PROVE  /\ Sound([p EXCEPT !.timer = NoTimer], a, ts, ws)
         /\ Idle([p EXCEPT !.timer = NoTimer], ts)
         /\ [p EXCEPT !.timer = NoTimer].timer = 0
         /\ [p EXCEPT !.timer = NoTimer].matches = NoMatches
         /\ [p EXCEPT !.timer = NoTimer].gen = p.gen
<1> DEFINE new == [p EXCEPT !.timer = NoTimer]
<1>1. p \in Pages /\ Engines(p, a, ws) /\ Dialog(p)
  BY SoundParts
<1>2. /\ new \in Pages /\ new.timer = 0 /\ new.gen = p.gen /\ new.matches = NoMatches
      /\ new.text = p.text /\ new.state = p.state /\ new.more = p.more /\ new.screen = p.screen
  BY <1>1 DEF Pages, NoTimer
<1> HIDE DEF new
<1>3. Dialog(new)
  BY <1>1, <1>2 DEF Dialog
<1>4. p.gen <= new.gen /\ new.gen <= MaxGen /\ Idle(new, ts) /\ new.matches.worker = 0
  BY <1>1, <1>2 DEF Engines, Pages, Idle, NoMatches
<1>5. Sound(new, a, ts, ws)
  BY <1>2, <1>3, <1>4, SoundIdle
<1> QED BY <1>2, <1>4, <1>5 DEF new

\* Submit keeps the invariant.
LEMMA SubmitSound == ASSUME SearchInv, Submit PROVE SearchInv'
<1> DEFINE c == Changed(page, page.text)
<1> DEFINE p == [c EXCEPT !.timer = NoTimer]
<1>1. page.gen < MaxGen /\ StartSearch(page.gen + 1, p)
  BY DEF Submit
<1>2. page.text \in Texts /\ page.gen \in Nat /\ Engines(page, api, workers)
  BY SearchParts DEF Pages
<1>3. /\ Sound(c, api, tasks, workers) /\ Idle(c, tasks) /\ c.matches = NoMatches
      /\ c.gen = page.gen + 1
  BY <1>1, <1>2, ChangedSound DEF SearchInv
<1> HIDE DEF c
<1>4. /\ Sound(p, api, tasks, workers) /\ Idle(p, tasks) /\ p.timer = 0 /\ p.matches = NoMatches
      /\ p.gen = page.gen + 1
  BY <1>3, NoTimerSound
<1> HIDE DEF p
<1>5. Room(p, workers)
  <2>1. PICK k \in 0 .. MaxGen : Made(workers) = 1 .. k /\ k <= page.gen
    BY <1>2 DEF Engines
  <2>2. k < p.gen
    BY <2>1, <1>2, <1>4, SearchAssumption
  <2> QED BY <2>1, <2>2 DEF Room
<1>6. Sound(page', api', tasks', workers')
  BY <1>1, <1>4, <1>5, StartSound
<1> QED BY <1>6, SearchInvPrime

\* Retry keeps the invariant.
LEMMA RetrySound == ASSUME SearchInv, Retry PROVE SearchInv'
<1> DEFINE c == Changed(page, page.text)
<1>1. /\ page.gen < MaxGen /\ page' = c /\ api' = NoApi
      /\ workers' = Destroy(workers, api.worker)
      /\ tasks' = {t \in tasks : t.worker # api.worker}
  BY DEF Retry
<1>2. page.text \in Texts
  BY SearchParts DEF Pages
<1>3. Sound(c, api, tasks, workers)
  BY <1>1, <1>2, ChangedSound DEF SearchInv
<1>4. Sound(c, NoApi, {t \in tasks : t.worker # api.worker}, Destroy(workers, api.worker))
  BY <1>3, ForgetSound
<1>5. Sound(page', api', tasks', workers')
  BY <1>1, <1>4
<1> QED BY <1>5, SearchInvPrime

\* The delay's timer keeps the invariant.
LEMMA FireSound == ASSUME SearchInv, Fire PROVE SearchInv'
<1> DEFINE p == [page EXCEPT !.timer = NoTimer]
<1>1. page.timer # 0 /\ StartSearch(page.timer, p)
  BY DEF Fire, NoTimer
<1>2. /\ Engines(page, api, workers) /\ Dialog(page) /\ Calls(page, tasks)
  BY SearchParts
<1>3. page.matches = NoMatches /\ Idle(page, tasks)
  BY <1>1, <1>2 DEF Dialog, Calls, Idle
<1>4. /\ Sound(p, api, tasks, workers) /\ Idle(p, tasks) /\ p.timer = 0 /\ p.matches = NoMatches
      /\ p.gen = page.gen
  BY <1>3, NoTimerSound DEF SearchInv
<1> HIDE DEF p
<1>5. Room(p, workers)
  BY <1>1, <1>2, <1>4 DEF Engines, Room
<1>6. Sound(page', api', tasks', workers')
  BY <1>1, <1>4, <1>5, StartSound
<1> QED BY <1>6, SearchInvPrime

\* More keeps the invariant.
LEMMA MoreSound == ASSUME SearchInv, More PROVE SearchInv'
<1> DEFINE p == [page EXCEPT !.more = FALSE, !.state = "loading"]
<1>1. page.more /\ ShowPage(page.gen, p, api, tasks, workers)
  BY DEF More
<1>2. /\ page \in Pages /\ Engines(page, api, workers) /\ Dialog(page) /\ Calls(page, tasks)
      /\ Linked(page, tasks, workers)
  BY SearchParts
<1>3. /\ page.state = "results" /\ page.matches.worker # 0
      /\ Len(page.screen) < page.matches.count /\ page.timer = 0
  BY <1>1, <1>2 DEF Dialog
<1>4. /\ p \in Pages /\ p.more = FALSE /\ p.state = "loading" /\ p.timer = 0 /\ p.gen = page.gen
      /\ p.matches = page.matches /\ p.screen = page.screen /\ p.text = page.text
  BY <1>2, <1>3 DEF Pages
<1> HIDE DEF p
<1>5. Dialog(p)
  BY <1>2, <1>3, <1>4 DEF Dialog
<1>6. Idle(p, tasks)
  BY <1>2, <1>3, <1>4 DEF Calls, Idle
<1>7. page.gen <= p.gen /\ p.gen <= MaxGen /\ Latest(p, workers[p.matches.worker])
  BY <1>2, <1>3, <1>4 DEF Engines, Linked, Latest, Pages
<1>8. Sound(p, api, tasks, workers)
  BY <1>4, <1>5, <1>6, <1>7, SoundIdle DEF SearchInv
<1>9. Sound(page', api', tasks', workers')
  BY <1>1, <1>3, <1>4, <1>6, <1>8, ShowSound
<1> QED BY <1>9, SearchInvPrime

\* The timer of a bounded wait keeps the invariant.
LEMMA TimeoutSound == ASSUME SearchInv, NEW t \in tasks, Timeout(t) PROVE SearchInv'
<1>1. Engines(page, api, workers) /\ api \in Apis /\ tasks \in SUBSET Tasks
  BY SearchParts
<1>2. CASE t.step = "load"
  <2> DEFINE gone == {u \in tasks : u.step = "load" /\ u.worker = t.worker}
  <2> DEFINE b == IF api.worker = t.worker THEN [api EXCEPT !.state = "failed"] ELSE api
  <2>1. Reject(gone, page, b, tasks, workers)
    BY <1>2 DEF Timeout
  <2>2. Sound(page, b, tasks, workers)
    <3>1. CASE api.worker = t.worker
      <4>1. t.worker \in Workers /\ 0 \notin Workers
        BY <1>1, SearchAssumption DEF Workers, Tasks
      <4>2. b \in Apis /\ b.worker = api.worker /\ b.state = "failed"
        BY <3>1, <1>1 DEF Apis
      <4>3. api.worker # 0 /\ b.state # "none"
        BY <3>1, <4>1, <4>2
      <4> HIDE DEF b
      <4> QED BY <4>2, <4>3, SoundApi DEF SearchInv
    <3>2. CASE api.worker # t.worker
      BY <3>2 DEF SearchInv
    <3> QED BY <3>1, <3>2
  <2>3. gone \subseteq tasks
    OBVIOUS
  <2> HIDE DEF b, gone
  <2>4. Sound(page', api', tasks', workers')
    BY <2>1, <2>2, <2>3, RejectSound
  <2> QED BY <2>4, SearchInvPrime
<1>3. CASE t.step # "load"
  <2>1. Reject({t}, page, api, tasks, workers)
    BY <1>3 DEF Timeout
  <2>2. Sound(page, api, tasks, workers) /\ {t} \subseteq tasks
    BY DEF SearchInv
  <2>3. Sound(page', api', tasks', workers')
    BY <2>1, <2>2, RejectSound
  <2> QED BY <2>3, SearchInvPrime
<1> QED BY <1>2, <1>3

(* A message arrives *)

\* The clients once the oldest message was taken.
Arrived(w) == [workers EXCEPT ![w].outbox = Tail(@),
                              ![w].pending = @ \ {Head(workers[w].outbox).n}]

\* Only the worker of the promise answers.
LEMMA ArrivedSound ==
  ASSUME SearchInv, NEW w \in Workers, workers[w].outbox # << >>
  PROVE  /\ Sound(page, api, tasks, Arrived(w))
         /\ Arrived(w)[w] = Answered(workers[w])
         /\ Arrived(w) \in [Workers -> Clients] /\ \A v \in Workers : Orderly(Arrived(w)[v])
         /\ w = api.worker
<1> DEFINE new == Arrived(w)
<1> DEFINE me == Answered(workers[w])
<1>1. /\ workers \in [Workers -> Clients] /\ \A v \in Workers : Orderly(workers[v])
      /\ Engines(page, api, workers)
  BY SearchParts
<1>2. new = [workers EXCEPT ![w] = me]
  BY <1>1 DEF Arrived, Answered
<1>3. workers[w] \in Clients /\ Orderly(workers[w])
  BY <1>1
<1>4. /\ me \in Clients /\ Orderly(me) /\ Kept(workers[w], me) /\ me.made = workers[w].made
      /\ me.live = workers[w].live /\ workers[w].live
  BY <1>3, AnsweredClient
<1> HIDE DEF me, new
<1>5. Steady(workers, new)
  BY <1>1, <1>2, <1>4, OneChanged
<1>6. \A v \in Workers : new[v] = IF v = w THEN me ELSE workers[v]
  BY <1>1, <1>2
<1>7. \A v \in Workers : new[v].live => workers[v].live
  BY <1>4, <1>6
<1>8. Sound(page, api, tasks, new)
  BY <1>5, <1>7, SoundSteady DEF SearchInv
<1>9. w = api.worker
  BY <1>1, <1>4 DEF Engines
<1>10. new \in [Workers -> Clients] /\ \A v \in Workers : Orderly(new[v])
  BY <1>5 DEF Steady
<1> QED BY <1>6, <1>8, <1>9, <1>10 DEF new, me

\* The engine is there, for the call that waits for it now.
LEMMA LoadedSound ==
  ASSUME NEW w \in Workers, NEW ws, Sound(page, api, tasks, ws), w = api.worker, Loaded(w, ws)
  PROVE  Sound(page', api', tasks', workers')
<1> DEFINE waiting == {t \in tasks : t.step = "load" /\ t.worker = w}
<1> DEFINE calls == {t \in waiting : IsCurrent(page, t.id)}
<1> DEFINE b == [api EXCEPT !.state = "ready"]
<1> DEFINE rest == tasks \ waiting
<1>1. Ask(calls, page, b, rest, ws)
  BY DEF Loaded
<1>2. /\ api \in Apis /\ Calls(page, tasks) /\ ws \in [Workers -> Clients]
      /\ \A v \in Workers : Orderly(ws[v]) /\ tasks \in SUBSET Tasks
  BY SoundParts
<1>3. b \in Apis /\ b.worker = api.worker /\ b.state = "ready"
  BY <1>2 DEF Apis
<1> HIDE DEF b
<1>4. Sound(page, b, tasks, ws)
  <2>1. api.worker # 0 /\ b.state # "none"
    BY <1>3, SearchAssumption DEF Workers
  <2> QED BY <2>1, <1>3, SoundApi
<1>5. Sound(page, b, rest, ws)
  <2>1. rest \subseteq tasks
    OBVIOUS
  <2> HIDE DEF rest
  <2> QED BY <2>1, <1>4, SoundDrop
<1>6. CASE calls = {}
  <2>1. /\ page' = page /\ api' = b /\ workers' = Call(ws, b.worker, << >>) /\ tasks' = rest
    BY <1>1, <1>6, AskNone
  <2> DEFINE none0 == << >>
  <2>2. none0 \in Seq(Requests) /\ \A i \in 1 .. Len(none0) : FALSE
    OBVIOUS
  <2> HIDE DEF none0, rest
  <2> DEFINE new == Call(ws, w, none0)
  <2>3. Steady(ws, new) /\ \A v \in Workers : new[v].live = ws[v].live
    BY <1>2, <2>2, CallClients
  <2> HIDE DEF new
  <2>4. Sound(page, b, rest, new)
    BY <1>5, <2>3, SoundSteady
  <2> QED BY <2>1, <2>4, <1>3 DEF new, none0
<1>7. CASE calls # {}
  <2>1. PICK t \in calls : TRUE
    BY <1>7
  <2>2. t \in tasks /\ t.id = page.gen /\ t.step = "load"
    BY <2>1 DEF IsCurrent
  <2>3. calls = {t}
    BY <2>1, <2>2, <1>2 DEF Calls, IsCurrent
  <2>4. Idle(page, rest)
    BY <2>1, <2>2, <1>2 DEF Calls, Idle
  <2>5. /\ page.timer = 0 /\ page.state = "loading" /\ page.matches = NoMatches
        /\ page.text # Blank /\ t.query = page.text
    BY <2>2, <1>2 DEF Calls
  <2>6. Ask({t}, page, b, rest, ws)
    BY <1>1, <2>3
  <2> HIDE DEF rest, calls
  <2> QED BY <2>2, <2>4, <2>5, <2>6, <1>3, <1>5, AskSound
<1> QED BY <1>6, <1>7

\* The matches of a search come.
LEMMA MatchedSound ==
  ASSUME SearchInv, NEW w \in Workers, workers[w].outbox # << >>, NEW t \in tasks,
         NEW reply, reply = Head(workers[w].outbox), t.worker = w, reply.n \in t.need,
         reply.ok, reply.method = "search", Matched(t, reply, Arrived(w))
  PROVE  Sound(page', api', tasks', workers')
<1> DEFINE ws == Arrived(w)
<1> DEFINE rest == tasks \ {t}
<1>1. /\ page \in Pages /\ tasks \in SUBSET Tasks /\ workers \in [Workers -> Clients]
      /\ \A v \in Workers : Orderly(workers[v])
      /\ Engines(page, api, workers) /\ Dialog(page) /\ Calls(page, tasks)
      /\ Linked(page, tasks, workers)
  BY SearchParts
<1>2. Sound(page, api, tasks, ws) /\ ws[w] = Answered(workers[w])
  BY ArrivedSound
<1>3. Sound(page, api, rest, ws)
  <2>1. rest \subseteq tasks
    OBVIOUS
  <2> HIDE DEF rest, ws
  <2> QED BY <2>1, <1>2, SoundDrop
<1>4. CASE ~IsCurrent(page, t.id)
  <2>1. tasks' = rest /\ workers' = ws /\ page' = page /\ api' = api
    BY <1>4 DEF Matched
  <2> QED BY <1>3, <2>1
<1>5. CASE IsCurrent(page, t.id)
  <2> DEFINE m == [worker |-> t.worker, sequence |-> reply.sequence, count |-> reply.count]
  <2> DEFINE p == [page EXCEPT !.matches = m]
  <2>1. ShowPage(t.id, p, api, rest, ws) /\ t.id = page.gen
    BY <1>5 DEF Matched, IsCurrent
  <2> DEFINE me == workers[w]
  <2>2. me \in Clients /\ Orderly(me) /\ me.outbox # << >>
    BY <1>1
  <2>3. /\ reply \in Answers(me) /\ reply \in Replies /\ me.live
        /\ ws[w].sequence = me.sequence /\ ws[w].active = me.active
        /\ Waiting(ws[w]) = Waiting(me) /\ ws[w].live
    BY <1>2, <2>2, AnsweredClient
  <2>4. t.step = "search"
    <3>1. t.step \in {"load", "search", "page"}
      BY <1>1 DEF Tasks
    <3>2. t.step # "load"
      BY <1>1, <2>1 DEF Calls
    <3>3. t.step # "page"
      <4>1. SUFFICES ASSUME Paging(page, t, me) PROVE FALSE
        BY <1>1, <2>1 DEF Linked
      <4>2. \A x \in Answers(me) : x.n \in t.need => x.method = "data"
        BY <4>1 DEF Paging
      <4> QED BY <4>2, <2>3
    <3> QED BY <3>1, <3>2, <3>3
  <2>5. Searching(t, me)
    BY <1>1, <2>1, <2>4 DEF Linked
  <2>6. /\ page.timer = 0 /\ page.state = "loading" /\ t.query = page.text /\ page.text # Blank
        /\ page.matches = NoMatches
    BY <1>1, <2>1, <2>4 DEF Calls
  <2>7. page.screen = << >> /\ ~page.more
    BY <1>1, <2>6 DEF Dialog, NoMatches
  <2>8. PICK n \in 1 .. me.posted :
          /\ t.need = {n}
          /\ \A r \in Waiting(me) : r.method # "data" => r.n <= n
          /\ \A x \in Answers(me) : x.n = n =>
               (x.ok => /\ x.count = Hits[t.query] /\ x.sequence = me.sequence
                        /\ me.active = t.query)
    BY <2>5 DEF Searching
  <2>9. /\ reply.n = n /\ reply.count = Hits[page.text] /\ reply.sequence = me.sequence
        /\ me.active = page.text
    BY <2>3, <2>6, <2>8
  <2>10. \A r \in Waiting(me) : r.method = "data"
    <3>1. ASSUME NEW r \in Waiting(me) PROVE ~(r.n <= n)
      <4>1. reply.n < r.n /\ reply.n \in Nat /\ r.n \in Nat
        BY <2>2, <2>3, MessagesTyped DEF Orderly, Requests, Replies
      <4> QED BY <4>1, <2>9
    <3> QED BY <3>1, <2>8
  <2>11. /\ m \in [worker : Nat, sequence : Nat, count : Nat]
         /\ m.worker = w /\ m.sequence = me.sequence /\ m.count = Hits[page.text] /\ w # 0
    <3>1. w \in Nat /\ w # 0
      BY SearchAssumption DEF Workers
    <3>2. reply.sequence \in Nat /\ reply.count \in Nat
      BY <2>3 DEF Replies
    <3> QED BY <3>1, <3>2, <2>9
  <2> HIDE DEF m
  <2>12. /\ p \in Pages /\ p.matches = m /\ p.gen = page.gen /\ p.timer = 0
         /\ p.state = "loading" /\ p.more = page.more /\ p.screen = << >> /\ p.text = page.text
    BY <1>1, <2>6, <2>7, <2>11 DEF Pages
  <2> HIDE DEF p
  <2>13. Dialog(p)
    <3>1. Len(p.screen) = 0 /\ p.screen = [i \in 1 .. 0 |-> Shown(p.text, i)]
      BY <2>12
    <3>2. m.count \in Nat
      BY <2>11
    <3> QED BY <3>1, <3>2, <2>6, <2>7, <2>11, <2>12 DEF Dialog
  <2>14. Idle(page, rest) /\ Idle(p, rest)
    BY <1>1, <2>1, <2>12 DEF Calls, Idle
  <2>15. Latest(p, ws[p.matches.worker])
    BY <2>3, <2>9, <2>10, <2>11, <2>12 DEF Latest
  <2>16. page.gen <= p.gen /\ p.gen <= MaxGen
    BY <1>1, <2>12 DEF Engines, Pages
  <2> HIDE DEF ws, rest, me
  <2>17. Sound(p, api, rest, ws)
    BY <1>3, <2>12, <2>13, <2>14, <2>15, <2>16, SoundIdle
  <2>18. ShowPage(p.gen, p, api, rest, ws)
    BY <2>1, <2>12
  <2>19. p.matches.worker # 0 /\ ~p.more
    BY <2>7, <2>11, <2>12
  <2> QED BY <2>12, <2>14, <2>17, <2>18, <2>19, ShowSound
<1> QED BY <1>4, <1>5

\* A result of a page comes.
LEMMA FetchedSound ==
  ASSUME SearchInv, NEW w \in Workers, workers[w].outbox # << >>, NEW t \in tasks,
         NEW reply, reply = Head(workers[w].outbox), t.worker = w, reply.n \in t.need,
         reply.ok, reply.method # "search", Fetched(t, reply, Arrived(w))
  PROVE  Sound(page', api', tasks', workers')
<1> DEFINE ws == Arrived(w)
<1> DEFINE rest == tasks \ {t}
<1> DEFINE got == t.got \cup {reply.item}
<1> DEFINE more == [t EXCEPT !.need = @ \ {reply.n}, !.got = got]
<1> DEFINE me == workers[w]
<1>1. /\ page \in Pages /\ tasks \in SUBSET Tasks /\ workers \in [Workers -> Clients]
      /\ \A v \in Workers : Orderly(workers[v])
      /\ Engines(page, api, workers) /\ Dialog(page) /\ Calls(page, tasks)
      /\ Linked(page, tasks, workers)
  BY SearchParts
<1>2. Sound(page, api, tasks, ws) /\ ws[w] = Answered(workers[w])
  BY ArrivedSound
<1>3. Sound(page, api, rest, ws)
  <2>1. rest \subseteq tasks
    OBVIOUS
  <2> HIDE DEF rest, ws
  <2> QED BY <2>1, <1>2, SoundDrop
<1>4. /\ me \in Clients /\ Orderly(me) /\ me.outbox # << >> /\ t \in Tasks
  BY <1>1
<1>5. /\ reply \in Answers(me) /\ reply \in Replies
      /\ Waiting(ws[w]) = Waiting(me) /\ Answers(ws[w]) \subseteq Answers(me)
      /\ ws[w].posted = me.posted
  BY <1>2, <1>4, AnsweredClient DEF Kept
<1>6. /\ more \in Tasks /\ more.id = t.id /\ more.query = t.query /\ more.worker = w
      /\ more.step = t.step /\ more.need = t.need \ {reply.n} /\ more.got = got
  <2>1. reply.item \in Items
    BY <1>5 DEF Replies
  <2> QED BY <1>4, <2>1 DEF Tasks
<1>7. /\ t.need # {reply.n} =>
           tasks' = rest \cup {more} /\ workers' = ws /\ page' = page /\ api' = api
      /\ t.need = {reply.n} /\ ~IsCurrent(page, t.id) =>
           tasks' = rest /\ workers' = ws /\ page' = page /\ api' = api
      /\ t.need = {reply.n} /\ IsCurrent(page, t.id) =>
           \/ page' = Render(page, got) /\ tasks' = rest /\ workers' = ws /\ api' = api
           \/ Fail(page, api, rest, ws)
  BY DEF Fetched
<1> HIDE DEF more
<1>8. CASE ~IsCurrent(page, t.id)
  <2>1. Sound(page, api, rest \cup {more}, ws)
    <3>1. rest \cup {more} \in SUBSET Tasks
      BY <1>1, <1>6
    <3>2. \A u \in rest \cup {more} : u.id <= page.gen /\ (u.id = page.gen => u \in rest)
      BY <1>1, <1>6, <1>8 DEF Calls, IsCurrent
    <3> HIDE DEF rest, ws
    <3> QED BY <3>1, <3>2, <1>3, SoundTasks
  <2> HIDE DEF rest, ws
  <2>2. CASE t.need # {reply.n}
    BY <2>1, <2>2, <1>7
  <2>3. CASE t.need = {reply.n}
    BY <2>3, <1>3, <1>7, <1>8
  <2> QED BY <2>2, <2>3
<1>9. CASE IsCurrent(page, t.id)
  <2>1. t.id = page.gen
    BY <1>9 DEF IsCurrent
  <2>2. /\ page.timer = 0 /\ page.state = "loading" /\ t.query = page.text /\ page.text # Blank
        /\ Idle(page, rest)
    BY <1>1, <2>1 DEF Calls, Idle
  <2>3. t.step = "page"
    <3>1. t.step \in {"load", "search", "page"}
      BY <1>1 DEF Tasks
    <3>2. t.step # "load"
      BY <1>1, <2>1 DEF Calls
    <3>3. t.step # "search"
      <4>1. SUFFICES ASSUME Searching(t, me) PROVE FALSE
        BY <1>1, <2>1 DEF Linked
      <4>2. PICK n \in 1 .. me.posted :
              t.need = {n} /\ \A x \in Answers(me) : x.n = n => x.method = "search"
        BY <4>1 DEF Searching
      <4>3. reply \in Answers(me) /\ reply.n = n
        BY <1>5, <4>2
      <4> QED BY <4>2, <4>3
    <3> QED BY <3>1, <3>2, <3>3
  <2>4. Paging(page, t, me) /\ t.worker = page.matches.worker
    BY <1>1, <2>1, <2>3 DEF Linked, Calls
  <2> DEFINE count == Slice(page)
  <2> DEFINE shown == Len(page.screen)
  <2>5. count > 0
    BY <2>4 DEF Paging
  <2>6. PICK base \in 0 .. me.posted :
          /\ t.need # {} /\ t.need \subseteq base + 1 .. base + count
          /\ base + count <= me.posted
          /\ t.got = {Shown(page.text, shown + (n - base)) :
                       n \in (base + 1 .. base + count) \ t.need}
          /\ \A r \in Waiting(me) : r.n \in t.need =>
               /\ r.method = "data" /\ r.sequence = page.matches.sequence
               /\ r.index = shown + (r.n - base)
          /\ \A x \in Answers(me) : x.n \in t.need =>
               /\ x.method = "data"
               /\ x.ok => x.item = Shown(page.text, shown + (x.n - base))
    BY <2>4 DEF Paging
  <2>7. reply.item = Shown(page.text, shown + (reply.n - base))
    BY <1>5, <2>6
  <2> HIDE DEF count, shown, ws, rest, me
  <2>8. got = {Shown(page.text, shown + (n - base)) :
                 n \in (base + 1 .. base + count) \ (t.need \ {reply.n})}
    <3> DEFINE f(n) == Shown(page.text, shown + (n - base))
    <3> DEFINE all == base + 1 .. base + count
    <3>1. t.got = {f(n) : n \in all \ t.need} /\ reply.item = f(reply.n) /\ reply.n \in all
      BY <2>6, <2>7
    <3> HIDE DEF f, all
    <3>2. all \ (t.need \ {reply.n}) = (all \ t.need) \cup {reply.n}
      BY <3>1
    <3>3. {f(n) : n \in (all \ t.need) \cup {reply.n}} = {f(n) : n \in all \ t.need} \cup {f(reply.n)}
      OBVIOUS
    <3>4. got = {f(n) : n \in all \ (t.need \ {reply.n})}
      BY <3>1, <3>2, <3>3
    <3> QED BY <3>4 DEF f, all
  <2>9. me.posted \in Nat /\ base \in Nat /\ base \in 0 .. me.posted
    BY <1>4 DEF Clients
  <2>10. CASE t.need # {reply.n}
    <3>1. more.need # {}
      BY <2>10, <1>6
    <3>2. /\ more.need \subseteq base + 1 .. base + count /\ more.need \subseteq t.need
          /\ more.got = {Shown(page.text, shown + (n - base)) :
                           n \in (base + 1 .. base + count) \ more.need}
      BY <1>6, <2>6, <2>8
    <3>3. /\ \A r \in Waiting(ws[w]) : r.n \in more.need =>
               /\ r.method = "data" /\ r.sequence = page.matches.sequence
               /\ r.index = shown + (r.n - base)
          /\ \A x \in Answers(ws[w]) : x.n \in more.need =>
               /\ x.method = "data"
               /\ x.ok => x.item = Shown(page.text, shown + (x.n - base))
      BY <1>5, <2>6, <3>2
    <3>4. Slice(page) = count /\ Len(page.screen) = shown
      BY DEF count, shown
    <3>5. Paging(page, more, ws[w])
      BY SMTT(60), <1>5, <2>5, <2>6, <2>9, <3>1, <3>2, <3>3, <3>4 DEF Paging
    <3>6. Sound(page, api, rest \cup {more}, ws)
      <4>1. /\ more.id = page.gen /\ more.query = page.text /\ more.step = "page"
            /\ more.worker = page.matches.worker /\ ws[more.worker] = ws[w]
        BY <1>6, <2>1, <2>2, <2>3, <2>4
      <4> QED BY <1>3, <1>6, <2>2, <3>5, <4>1, SoundCall
    <3> QED BY <3>6, <2>10, <1>7
  <2>11. CASE t.need = {reply.n}
    <3>1. CASE Fail(page, api, rest, ws)
      BY <1>3, <2>2, <3>1, FailSound
    <3>2. CASE page' = Render(page, got) /\ tasks' = rest /\ workers' = ws /\ api' = api
      <4>1. got = {Shown(page.text, shown + (n - base)) : n \in base + 1 .. base + count}
        <5>1. (base + 1 .. base + count) \ (t.need \ {reply.n}) = base + 1 .. base + count
          BY <2>11
        <5> QED BY <5>1, <2>8
      <4>2. count \in Nat
        <5>1. count \in Int
          BY <1>1, SliceValue DEF count
        <5> QED BY <5>1, <2>5
      <4>3. got = {Shown(page.text, shown + i) : i \in 1 .. count}
        <5>1. ASSUME NEW n \in base + 1 .. base + count
              PROVE  n - base \in 1 .. count
          BY <2>9, <4>2
        <5>2. ASSUME NEW i \in 1 .. count
              PROVE  base + i \in base + 1 .. base + count /\ (base + i) - base = i
          BY <2>9, <4>2
        <5>3. \A g : (\E n \in base + 1 .. base + count : g = Shown(page.text, shown + (n - base)))
                     => \E i \in 1 .. count : g = Shown(page.text, shown + i)
          BY <5>1
        <5>4. \A g : (\E i \in 1 .. count : g = Shown(page.text, shown + i))
                     => \E n \in base + 1 .. base + count : g = Shown(page.text, shown + (n - base))
          BY <5>2
        <5> HIDE DEF got
        <5> QED BY <4>1, <5>3, <5>4
      <4>4. page.matches.worker # 0
        <5>1. w # 0
          BY SearchAssumption DEF Workers
        <5> QED BY <5>1, <2>4
      <4> HIDE DEF got
      <4>5. Sound(Render(page, got), api, rest, ws)
        BY <1>3, <2>2, <2>5, <4>3, <4>4, RenderSound DEF count, shown
      <4> QED BY <3>2, <4>5
    <3> QED BY <3>1, <3>2, <2>11, <1>7, <1>9
  <2> QED BY <2>10, <2>11
<1> QED BY <1>8, <1>9

\* A message of a worker keeps the invariant.
LEMMA DeliverSound == ASSUME SearchInv, NEW w \in Workers, Deliver(w) PROVE SearchInv'
<1> DEFINE reply == Head(workers[w].outbox)
<1> DEFINE ws == Arrived(w)
<1> DEFINE waiting == {t \in tasks : t.worker = w /\ reply.n \in t.need}
<1> DEFINE loading == {t \in tasks : t.step = "load" /\ t.worker = w}
<1> DEFINE b == [api EXCEPT !.state = "failed"]
<1>1. /\ workers[w].outbox # << >>
      /\ \/ reply.method = "options" /\ reply.ok /\ Loaded(w, ws)
         \/ Reject(loading, page, b, tasks, ws)
         \/ workers' = ws /\ page' = page /\ api' = api /\ tasks' = tasks
         \/ Reject(waiting, page, api, tasks, ws)
         \/ /\ reply.ok
            /\ \E t \in waiting : \/ reply.method = "search" /\ Matched(t, reply, ws)
                                  \/ reply.method # "search" /\ Fetched(t, reply, ws)
  BY DEF Deliver, Arrived
<1>2. Sound(page, api, tasks, ws) /\ w = api.worker
  BY <1>1, ArrivedSound
<1>3. waiting \subseteq tasks /\ loading \subseteq tasks
  OBVIOUS
<1>4. Sound(page, b, tasks, ws)
  <2>1. api \in Apis /\ api.worker # 0
    BY <1>2, SearchParts, SearchAssumption DEF Workers
  <2>2. b \in Apis /\ b.worker = api.worker /\ b.state = "failed"
    BY <2>1 DEF Apis
  <2>3. b.state # "none"
    BY <2>2
  <2> HIDE DEF b, ws
  <2> QED BY <1>2, <2>1, <2>2, <2>3, SoundApi
<1>5. CASE reply.ok /\ \E t \in waiting : \/ reply.method = "search" /\ Matched(t, reply, ws)
                                          \/ reply.method # "search" /\ Fetched(t, reply, ws)
  <2>1. PICK t \in waiting : \/ reply.method = "search" /\ Matched(t, reply, ws)
                             \/ reply.method # "search" /\ Fetched(t, reply, ws)
    BY <1>5
  <2>2. t \in tasks /\ t.worker = w /\ reply.n \in t.need /\ reply.ok
    BY <2>1, <1>5
  <2>3. reply = Head(workers[w].outbox)
    OBVIOUS
  <2> HIDE DEF waiting, reply
  <2>4. Sound(page', api', tasks', workers')
    <3>1. CASE reply.method = "search" /\ Matched(t, reply, ws)
      BY <1>1, <2>2, <2>3, <3>1, MatchedSound
    <3>2. CASE reply.method # "search" /\ Fetched(t, reply, ws)
      BY <1>1, <2>2, <2>3, <3>2, FetchedSound
    <3> QED BY <2>1, <3>1, <3>2
  <2> QED BY <2>4, SearchInvPrime
<1> HIDE DEF reply, ws, waiting, loading, b
<1>6. CASE Loaded(w, ws)
  <2>1. Sound(page', api', tasks', workers')
    BY <1>2, <1>6, LoadedSound
  <2> QED BY <2>1, SearchInvPrime
<1>7. CASE Reject(loading, page, b, tasks, ws)
  <2>1. Sound(page', api', tasks', workers')
    BY <1>3, <1>4, <1>7, RejectSound
  <2> QED BY <2>1, SearchInvPrime
<1>8. CASE workers' = ws /\ page' = page /\ api' = api /\ tasks' = tasks
  <2>1. Sound(page', api', tasks', workers')
    BY <1>2, <1>8
  <2> QED BY <2>1, SearchInvPrime
<1>9. CASE Reject(waiting, page, api, tasks, ws)
  <2>1. Sound(page', api', tasks', workers')
    BY <1>2, <1>3, <1>9, RejectSound
  <2> QED BY <2>1, SearchInvPrime
<1> QED BY <1>1, <1>5, <1>6, <1>7, <1>8, <1>9

\* A worker's failure keeps the invariant.
LEMMA CrashSound == ASSUME SearchInv, NEW w \in Workers, Crash(w) PROVE SearchInv'
<1> DEFINE loading == 1 \in workers[w].pending
<1> DEFINE gone == {t \in tasks : t.worker = w /\ (t.step # "load" \/ loading)}
<1> DEFINE b == IF loading /\ api.worker = w THEN [api EXCEPT !.state = "failed"] ELSE api
<1> DEFINE ws == Destroy(workers, w)
<1>1. workers[w].live /\ Reject(gone, page, b, tasks, ws)
  BY DEF Crash
<1>2. /\ workers \in [Workers -> Clients] /\ \A v \in Workers : Orderly(workers[v])
      /\ api \in Apis
  BY SearchParts
<1>3. w \in 0 .. MaxGen /\ w # 0
  BY SearchAssumption DEF Workers
<1>4. Steady(workers, ws) /\ \A v \in Workers : ws[v].live => workers[v].live
  BY <1>2, <1>3, DestroySteady
<1> HIDE DEF ws
<1>5. Sound(page, api, tasks, ws)
  BY <1>4, SoundSteady DEF SearchInv
<1>6. Sound(page, b, tasks, ws)
  <2>1. CASE loading /\ api.worker = w
    <3>1. b \in Apis /\ b.worker = api.worker /\ b.state = "failed"
      BY <2>1, <1>2 DEF Apis
    <3>2. api.worker # 0 /\ b.state # "none"
      BY <2>1, <1>3, <3>1
    <3> HIDE DEF b
    <3> QED BY <1>5, <3>1, <3>2, SoundApi
  <2>2. CASE ~(loading /\ api.worker = w)
    BY <2>2, <1>5
  <2> QED BY <2>1, <2>2
<1>7. gone \subseteq tasks
  OBVIOUS
<1> HIDE DEF b, gone
<1>8. Sound(page', api', tasks', workers')
  BY <1>1, <1>6, <1>7, RejectSound
<1> QED BY <1>8, SearchInvPrime

(* The worker *)

\* A step of one worker that changes nothing it answers.
LEMMA ClientSound ==
  ASSUME SearchInv, NEW w \in Workers, NEW me \in Clients, Orderly(me), Kept(workers[w], me),
         me.made = workers[w].made, me.live = workers[w].live,
         workers' = [workers EXCEPT ![w] = me], page' = page, api' = api, tasks' = tasks
  PROVE  SearchInv'
<1> DEFINE new == [workers EXCEPT ![w] = me]
<1>1. workers \in [Workers -> Clients] /\ \A v \in Workers : Orderly(workers[v])
  BY SearchParts
<1>2. Steady(workers, new)
  BY <1>1, OneChanged
<1>3. \A v \in Workers : new[v].live => workers[v].live
  BY <1>1
<1> HIDE DEF new
<1>4. Sound(page, api, tasks, new)
  BY <1>2, <1>3, SoundSteady DEF SearchInv
<1>5. Sound(page', api', tasks', workers')
  BY <1>4 DEF new
<1> QED BY <1>5, SearchInvPrime

\* A worker's next operation keeps the invariant.
LEMMA BeginSound == ASSUME SearchInv, NEW w \in Workers, Begin(w) PROVE SearchInv'
<1>1. /\ workers \in [Workers -> Clients] /\ \A v \in Workers : Orderly(workers[v])
  BY SearchParts
<1> DEFINE me == Begun(workers[w])
<1>2. /\ workers[w].live /\ workers[w].inbox # << >> /\ workers[w].busy = {}
      /\ page' = page /\ api' = api /\ tasks' = tasks
      /\ workers' = [workers EXCEPT ![w].inbox = Tail(@),
                                ![w].busy = @ \cup {Head(workers[w].inbox)},
                                ![w].fetchFailed = FALSE]
  BY DEF Begin, Serial
<1>3. workers' = [workers EXCEPT ![w] = me]
  BY <1>1, <1>2 DEF Begun
<1>4. workers[w] \in Clients /\ Orderly(workers[w])
  BY <1>1
<1>5. /\ me \in Clients /\ Orderly(me) /\ Kept(workers[w], me)
      /\ me.made = workers[w].made /\ me.live = workers[w].live
  BY <1>2, <1>4, BegunClient
<1> HIDE DEF me
<1> QED BY <1>2, <1>3, <1>5, ClientSound

\* A lost fetch keeps the invariant.
LEMMA LoseFetchSound ==
  ASSUME SearchInv, NEW w \in Workers, NEW r \in workers[w].busy, LoseFetch(w, r)
  PROVE  SearchInv'
<1>1. /\ workers \in [Workers -> Clients] /\ \A v \in Workers : Orderly(workers[v])
  BY SearchParts
<1> DEFINE me == Loses(workers[w], r)
<1>2. /\ page' = page /\ api' = api /\ tasks' = tasks
      /\ workers' = [workers EXCEPT ![w].busy = (@ \ {r}) \cup {[r EXCEPT !.lost = TRUE]},
                                    ![w].fetchFailed = TRUE]
  BY DEF LoseFetch
<1>3. workers' = [workers EXCEPT ![w] = me]
  BY <1>1, <1>2 DEF Loses
<1>4. workers[w] \in Clients /\ Orderly(workers[w])
  BY <1>1
<1>5. /\ me \in Clients /\ Orderly(me) /\ Kept(workers[w], me)
      /\ me.made = workers[w].made /\ me.live = workers[w].live
  BY <1>4, LosesClient
<1> HIDE DEF me
<1> QED BY <1>2, <1>3, <1>5, ClientSound

\* The end of an operation keeps the invariant.
LEMMA FinishSound ==
  ASSUME SearchInv, NEW w \in Workers, NEW r \in workers[w].busy, Finish(w, r)
  PROVE  SearchInv'
<1>1. /\ workers \in [Workers -> Clients] /\ \A v \in Workers : Orderly(workers[v])
  BY SearchParts
<1>2. PICK x, new : /\ Ended(workers[w], r, x, new) /\ Truthful(workers[w], r, x, new)
                    /\ workers' = [workers EXCEPT ![w] = new]
  BY <1>1, FinishEnds
<1>3. page' = page /\ api' = api /\ tasks' = tasks
  BY DEF Finish
<1>4. Sound(page, api, tasks, [workers EXCEPT ![w] = new])
  BY <1>2, SoundEnded DEF SearchInv
<1>5. Sound(page', api', tasks', workers')
  BY <1>2, <1>3, <1>4
<1> QED BY <1>5, SearchInvPrime

\* The dialog is closed on nothing, no worker exists.
LEMMA SearchInit == Init => SearchInv
<1> SUFFICES ASSUME Init PROVE SearchInv
  OBVIOUS
<1>1. /\ page = [text |-> Blank, gen |-> 0, timer |-> 0, state |-> "initial",
                 matches |-> NoMatches, screen |-> << >>, more |-> FALSE]
      /\ api = [worker |-> 0, state |-> "none"] /\ tasks = {}
      /\ workers = [w \in Workers |-> Unused]
  BY DEF Init, NoTimer, NoApi
<1>2. << >> \in Seq(Items) /\ << >> \in Seq(Requests) /\ << >> \in Seq(Replies) /\ Blank \in Texts
  BY DEF Texts
<1>3. page \in Pages /\ api \in Apis /\ tasks \in SUBSET Tasks
  BY <1>1, <1>2 DEF Pages, Apis, NoMatches
<1>4. Unused \in Clients
  BY <1>2 DEF Unused, Clients
<1>5. workers \in [Workers -> Clients] /\ \A w \in Workers : workers[w] = Unused
  BY <1>1, <1>4
<1>6. Orderly(Unused)
  <2>1. /\ Unused.inbox = << >> /\ Unused.busy = {} /\ Unused.outbox = << >>
        /\ InBox(Unused) = {} /\ Waiting(Unused) = {} /\ Answers(Unused) = {}
    BY DEF Unused, InBox, Waiting, Answers
  <2> QED BY <2>1 DEF Orderly
<1>7. Engines(page, api, workers)
  <2>1. 0 \in 0 .. MaxGen /\ MaxGen \in Nat
    BY SearchAssumption
  <2>2. Made(workers) = 1 .. 0 /\ \A w \in Workers : ~workers[w].live
    BY <1>5 DEF Made, Unused
  <2>3. page.gen = 0 /\ page.timer = 0 /\ api.state = "none" /\ api.worker = 0
    BY <1>1
  <2>4. 0 <= MaxGen /\ 0 <= 0
    BY <2>1
  <2> QED BY <2>1, <2>2, <2>3, <2>4 DEF Engines
<1>8. Dialog(page)
  <2>1. /\ page.matches = NoMatches /\ page.screen = << >> /\ page.more = FALSE
        /\ page.state = "initial" /\ page.timer = 0
    BY <1>1
  <2> QED BY <2>1, <1>3, BareDialog
<1>9. Calls(page, tasks)
  BY <1>1 DEF Calls
<1>10. Linked(page, tasks, workers)
  BY <1>1 DEF Linked, NoMatches
<1> QED BY <1>3, <1>5, <1>6, <1>7, <1>8, <1>9, <1>10, SearchParts

\* Every step keeps the invariant.
LEMMA SearchNext == SearchInv /\ [Next]_vars => SearchInv'
<1> SUFFICES ASSUME SearchInv, [Next]_vars PROVE SearchInv'
  OBVIOUS
<1>1. CASE UNCHANGED vars
  <2>1. Sound(page', api', tasks', workers')
    BY <1>1 DEF vars, SearchInv
  <2> QED BY <2>1, SearchInvPrime
<1>2. ASSUME NEW text \in Queries \cup {Blank}, Input(text) PROVE SearchInv'
  BY <1>2, InputSound DEF Texts
<1>3. ASSUME NEW t \in tasks, Timeout(t) PROVE SearchInv'
  BY <1>3, TimeoutSound
<1>4. ASSUME NEW w \in Workers, Deliver(w) \/ Crash(w) \/ Begin(w) PROVE SearchInv'
  BY <1>4, DeliverSound, CrashSound, BeginSound
<1>5. ASSUME NEW w \in Workers, NEW r \in workers[w].busy, LoseFetch(w, r) \/ Finish(w, r)
      PROVE SearchInv'
  BY <1>5, LoseFetchSound, FinishSound
<1> QED BY <1>1, <1>2, <1>3, <1>4, <1>5, SubmitSound, RetrySound, MoreSound, FireSound DEF Next

\* The invariant holds.
LEMMA SearchInvariant == Spec => []SearchInv
BY SearchInit, SearchNext, PTL DEF Spec

\* What the dialog shows is the answer to the text in its input, whatever was
\* typed, retried, asked for or lost on the way (search.ts:116-170,
\* pagefind-worker.ts:33-56).
THEOREM ScreenCorrect == Spec => []ScreenIsTheAnswer
<1>1. SearchInv => ScreenIsTheAnswer
  <2> SUFFICES ASSUME SearchInv PROVE ScreenIsTheAnswer
    OBVIOUS
  <2>1. Dialog(page) /\ page \in Pages
    BY SearchParts
  <2>2. page.screen = [i \in 1..Len(page.screen) |->
                     [query |-> page.text, index |-> i, whole |-> TRUE]]
    BY <2>1 DEF Dialog, Shown
  <2> QED BY <2>1, <2>2 DEF Dialog, ScreenIsTheAnswer
<1> QED BY <1>1, SearchInvariant, PTL

\* Every running worker is the one the next failure or retry destroys
\* (search.ts:133-143, 301-307).
THEOREM WorkersCorrect == Spec => []NoLeakedWorker
<1>1. SearchInv => NoLeakedWorker
  BY SearchParts DEF Engines, NoLeakedWorker
<1> QED BY <1>1, SearchInvariant, PTL

\* No stale call asks the worker for matches after the current one
\* (pagefind-worker.ts:47-50).
THEOREM ResultsCorrect == Spec => []NeverObsolete
<1>1. SearchInv => NeverObsolete
  <2> SUFFICES ASSUME SearchInv, NEW t \in tasks, t.step = "page", IsCurrent(page, t.id),
                      workers[t.worker].live
               PROVE  /\ workers[t.worker].sequence = page.matches.sequence
                      /\ \A i \in DOMAIN workers[t.worker].inbox :
                           workers[t.worker].inbox[i].method = "data"
    BY DEF NeverObsolete
  <2>1. Calls(page, tasks) /\ Linked(page, tasks, workers) /\ tasks \in SUBSET Tasks
    BY SearchParts
  <2>2. t.worker = page.matches.worker /\ t.worker \in Workers
    BY <2>1 DEF Calls, IsCurrent, Tasks
  <2>3. t.worker # 0
    BY <2>2, SearchAssumption DEF Workers
  <2>4. Latest(page, workers[t.worker])
    BY <2>1, <2>2, <2>3 DEF Linked
  <2> QED BY <2>4 DEF Latest, Waiting, InBox
<1> QED BY <1>1, SearchInvariant, PTL

(***************************************************************************)
(* DevServer.  The readers know nothing of each other: what keeps them     *)
(* apart is where the supervisor's chain stands.  DevInv says which        *)
(* readers may be alive at each step of a regeneration.                    *)
(***************************************************************************)

ReaderRecords == [state : {"none", "starting", "ready", "stopping", "gone"},
                  version : Nat, expected : BOOLEAN]

\* The processes have their types, the ones the argument needs.
DevTyped ==
  /\ source \in [version : Nat, valid : BOOLEAN] /\ snapshot \in Nat
  /\ readers \in [Dev!Readers -> ReaderRecords]
  /\ server \in Dev!Readers \cup {0}
  /\ main \in {"starting", "watching", "exited"}
  /\ job \in {"idle", "stop", "generate", "start", "starting", "failed"}

\* One reader at most is alive.
OneReader == \A r, q \in Dev!Readers : Dev!Alive(r) /\ Dev!Alive(q) => q = r

\* Between two regenerations, and until the old reader has gone, only `server` runs.
OnlyServer ==
  main # "exited" /\ job \in {"idle", "stop"} =>
    \A r \in Dev!Readers : Dev!Alive(r) => r = server

\* From the exit of the old reader to the fork of the new one, and after a failure,
\* none runs.
NoReader ==
  main # "exited" /\ job \in {"generate", "start", "failed"} =>
    \A r \in Dev!Readers : ~Dev!Alive(r)

DevInv == DevTyped /\ OneReader /\ OnlyServer /\ NoReader

\* No reader has the number that means none.
LEMMA ZeroIsNone == 0 \notin Dev!Readers
BY DEF Dev!Readers

\* The first generation runs, without a reader.
LEMMA DevInit == Dev!Init => DevInv
<1> SUFFICES ASSUME Dev!Init PROVE DevInv
  OBVIOUS
<1>1. \A r \in Dev!Readers : ~Dev!Alive(r)
  BY DEF Dev!Init, Dev!Alive
<1>2. DevTyped
  BY DEF Dev!Init, DevTyped, ReaderRecords
<1> QED BY <1>1, <1>2 DEF DevInv, OneReader, OnlyServer, NoReader

\* A step that forks no reader, ends none at will and moves no job.
LEMMA DevKept ==
  ASSUME DevInv, DevTyped', \A r \in Dev!Readers : Dev!Alive(r)' => Dev!Alive(r),
         main' = main \/ main # "exited", job' = job, server' = server
  PROVE  DevInv'
<1>1. Dev!Readers' = Dev!Readers
  OBVIOUS
<1> QED BY DEF DevInv, OneReader, OnlyServer, NoReader

\* Stopping a reader leaves it alive until it exits.
LEMMA ExpectedTyped ==
  ASSUME DevTyped
  PROVE  /\ Dev!Expect(readers, server) \in [Dev!Readers -> ReaderRecords]
         /\ \A r \in Dev!Readers :
              Dev!Expect(readers, server)[r].state \in {"starting", "ready", "stopping"}
                => Dev!Alive(r)
<1>1. CASE server = 0
  BY <1>1 DEF Dev!Expect, DevTyped, Dev!Alive
<1>2. CASE server # 0
  <2>1. server \in Dev!Readers /\ readers \in [Dev!Readers -> ReaderRecords]
    BY <1>2 DEF DevTyped
  <2>2. /\ Dev!Kill(readers, server) \in [Dev!Readers -> ReaderRecords]
        /\ \A r \in Dev!Readers :
             Dev!Kill(readers, server)[r].state \in {"starting", "ready", "stopping"}
               => readers[r].state \in {"starting", "ready", "stopping"}
    BY <2>1 DEF Dev!Kill, ReaderRecords
  <2> QED BY ZenonT(60), <1>2, <2>1, <2>2 DEF Dev!Expect, Dev!Alive, ReaderRecords
<1> QED BY <1>1, <1>2

\* What every step keeps; the steps of a regeneration move its job.
LEMMA DevStep == DevInv /\ [Dev!Next]_(Dev!vars) => DevInv'
<1> SUFFICES ASSUME DevInv, [Dev!Next]_(Dev!vars) PROVE DevInv'
  OBVIOUS
<1> USE DEF Dev!chain, Dev!watch
<1>1. DevTyped /\ OneReader /\ OnlyServer /\ NoReader
  BY DEF DevInv
<1>2. CASE UNCHANGED Dev!vars
  BY <1>1, <1>2, DevKept DEF Dev!vars, DevTyped, Dev!Alive
<1>3. CASE Dev!Edit
  <2>1. source' \in [version : Nat, valid : BOOLEAN]
    BY <1>1, <1>3 DEF Dev!Edit, DevTyped
  <2> QED BY <1>1, <1>3, <2>1, DevKept DEF Dev!Edit, DevTyped, Dev!Alive
<1>4. CASE Dev!Watch
  BY <1>1, <1>4, DevKept DEF Dev!Watch, DevTyped, Dev!Alive
<1>5. CASE Dev!Notice \/ Dev!Fire
  BY <1>1, <1>5, DevKept DEF Dev!Notice, Dev!Fire, DevTyped, Dev!Alive
<1>6. CASE Dev!Begin
  <2>1. CASE closed
    BY <1>1, <1>6, <2>1, DevKept DEF Dev!Begin, DevTyped, Dev!Alive
  <2>2. CASE ~closed
    <3>1. /\ job = "idle" /\ job' = "stop" /\ readers' = Dev!Expect(readers, server)
          /\ source' = source /\ snapshot' = snapshot /\ server' = server /\ main' = main
      BY <1>6, <2>2 DEF Dev!Begin
    <3>2. readers' \in [Dev!Readers -> ReaderRecords]
      BY <1>1, <3>1, ExpectedTyped
    <3>3. \A r \in Dev!Readers : Dev!Alive(r)' => Dev!Alive(r)
      BY <1>1, <3>1, ExpectedTyped DEF Dev!Alive
    <3>4. DevTyped'
      BY <1>1, <3>1, <3>2 DEF DevTyped
    <3> QED BY <1>1, <3>1, <3>3, <3>4 DEF DevInv, OneReader, OnlyServer, NoReader
  <2> QED BY <2>1, <2>2
<1>7. CASE Dev!Stopped
  <2>1. /\ job = "stop" /\ job' = "generate" /\ Dev!Gone(server)
        /\ UNCHANGED <<source, snapshot, readers, server, main>>
    BY <1>7 DEF Dev!Stopped
  <2>2. DevTyped'
    BY <1>1, <2>1 DEF DevTyped
  <2>3. main # "exited" => \A r \in Dev!Readers : ~Dev!Alive(r)
    BY <1>1, <2>1, ZeroIsNone DEF OnlyServer, Dev!Gone
  <2> QED BY <1>1, <2>1, <2>2, <2>3 DEF DevInv, OneReader, OnlyServer, NoReader, Dev!Alive
<1>8. CASE Dev!Generate
  <2>1. /\ job = "generate" /\ job' \in {"start", "failed"} /\ snapshot' \in Nat
        /\ UNCHANGED <<source, readers, server, main>>
    BY <1>1, <1>8 DEF Dev!Generate, DevTyped
  <2>2. DevTyped'
    BY <1>1, <2>1 DEF DevTyped
  <2> QED BY <1>1, <2>1, <2>2 DEF DevInv, OneReader, OnlyServer, NoReader, Dev!Alive
<1>9. CASE main # "exited" /\ Dev!Start
  <2>1. PICK r \in Dev!Readers :
          readers' = [readers EXCEPT ![r] = [@ EXCEPT !.state = "starting",
                                                      !.version = snapshot]]
    BY <1>9 DEF Dev!Start
  <2>2. /\ job = "start" /\ job' = "starting"
        /\ UNCHANGED <<source, snapshot, server, main>>
    BY <1>9 DEF Dev!Start
  <2>3. DevTyped'
    BY <1>1, <2>1, <2>2 DEF DevTyped, ReaderRecords
  <2>4. \A q \in Dev!Readers : Dev!Alive(q)' => q = r
    BY <1>1, <1>9, <2>1, <2>2 DEF NoReader, Dev!Alive, DevTyped
  <2> QED BY <2>2, <2>3, <2>4 DEF DevInv, OneReader, OnlyServer, NoReader
<1>10. ASSUME NEW r \in Dev!Readers, Dev!Ready(r) PROVE DevInv'
  <2>1. /\ job = "starting" /\ readers[r].state = "starting" /\ job' = "idle" /\ server' = r
        /\ readers' = [readers EXCEPT ![r].state = "ready"]
        /\ UNCHANGED <<source, snapshot, main>>
    BY <1>10 DEF Dev!Ready
  <2>2. DevTyped'
    BY <1>1, <2>1 DEF DevTyped, ReaderRecords
  <2>3. \A q \in Dev!Readers : Dev!Alive(q)' => Dev!Alive(q)
    BY <1>1, <2>1 DEF Dev!Alive, DevTyped
  <2>4. \A q \in Dev!Readers : Dev!Alive(q)' => q = r
    BY <1>1, <2>1, <2>3 DEF OneReader, Dev!Alive
  <2> QED BY <2>1, <2>2, <2>4 DEF DevInv, OneReader, OnlyServer, NoReader
<1>11. ASSUME NEW r \in Dev!Readers, Dev!Exit(r) PROVE DevInv'
  <2>1. /\ Dev!Alive(r)
        /\ readers' = [readers EXCEPT ![r].state = "gone"]
        /\ job' = IF job = "starting" /\ r # server /\ main # "exited" THEN "failed" ELSE job
        /\ UNCHANGED <<source, snapshot, server, main>>
    BY <1>11 DEF Dev!Exit, Dev!Alive
  <2>2. DevTyped'
    BY <1>1, <2>1 DEF DevTyped, ReaderRecords
  <2>3. \A q \in Dev!Readers : Dev!Alive(q)' => FALSE
    BY <1>1, <2>1 DEF Dev!Alive, DevTyped, OneReader
  <2> QED BY <2>2, <2>3 DEF DevInv, OneReader, OnlyServer, NoReader
<1>12. ASSUME NEW r \in Dev!Readers, Dev!Crash(r) PROVE DevInv'
  <2>1. /\ readers[r].state \in {"starting", "ready"}
        /\ readers' = [readers EXCEPT ![r].state = "stopping"]
        /\ UNCHANGED <<source, snapshot, server, main, job>>
    BY <1>12 DEF Dev!Crash
  <2>2. DevTyped'
    BY <1>1, <2>1 DEF DevTyped, ReaderRecords
  <2>3. \A q \in Dev!Readers : Dev!Alive(q)' => Dev!Alive(q)
    BY <1>1, <2>1 DEF Dev!Alive, DevTyped
  <2> QED BY <2>1, <2>2, <2>3, DevKept
<1>13. CASE Dev!Failed
  <2>1. /\ job = "failed" /\ job' = "idle"
        /\ readers' \in {readers, Dev!Expect(readers, server)}
        /\ main' \in {main, "exited"}
        /\ UNCHANGED <<source, snapshot, server>>
    BY <1>13 DEF Dev!Failed
  <2>2. main' # "exited" => main # "exited"
    BY <2>1, <1>13 DEF Dev!Failed
  <2>3. readers' \in [Dev!Readers -> ReaderRecords]
    BY <1>1, <2>1, ExpectedTyped DEF DevTyped
  <2>4. \A r \in Dev!Readers : Dev!Alive(r)' => Dev!Alive(r)
    BY <1>1, <2>1, ExpectedTyped DEF Dev!Alive
  <2>5. DevTyped'
    BY <1>1, <2>1, <2>3 DEF DevTyped
  <2> QED BY <1>1, <2>1, <2>2, <2>4, <2>5 DEF DevInv, OneReader, OnlyServer, NoReader
<1>14. CASE Dev!Signal
  <2>1. UNCHANGED <<source, snapshot, readers, server, job>> /\ main' \in {main, "exited"}
        /\ (main' = main \/ main # "exited")
    BY <1>14 DEF Dev!Signal
  <2> QED BY <1>1, <2>1, DevKept DEF DevTyped, Dev!Alive
<1>15. CASE Dev!Leave
  <2>1. /\ readers' = Dev!Expect(readers, server)
        /\ UNCHANGED <<source, snapshot, server, main, job>>
    BY <1>15 DEF Dev!Leave
  <2>2. readers' \in [Dev!Readers -> ReaderRecords]
    BY <1>1, <2>1, ExpectedTyped
  <2>3. \A r \in Dev!Readers : Dev!Alive(r)' => Dev!Alive(r)
    BY <1>1, <2>1, ExpectedTyped DEF Dev!Alive
  <2>4. DevTyped'
    BY <1>1, <2>1, <2>2 DEF DevTyped
  <2> QED BY <2>1, <2>3, <2>4, DevKept
<1>16. CASE Dev!Exited
  BY <1>1, <1>16, DevKept DEF Dev!Exited, DevTyped, Dev!Alive
<1> QED
  BY <1>2, <1>3, <1>4, <1>5, <1>6, <1>7, <1>8, <1>9, <1>10, <1>11, <1>12, <1>13, <1>14, <1>15,
     <1>16 DEF Dev!Next, Dev!Progress

\* A reader never runs beside another, nor while content.mjs replaces the snapshot it
\* reads: stop is awaited, a start waits for its predecessor, and a failure at any of
\* them leaves no reader (website/scripts/dev.mjs).
THEOREM ReaderAlone == DevSpec => []ReaderIsAlone
<1>1. Dev!Init => DevInv
  BY DevInit
<1>2. DevInv /\ [Dev!Next]_(Dev!vars) => DevInv'
  BY DevStep
<1>3. DevInv => ReaderIsAlone
  BY DEF DevInv, OneReader, NoReader, ReaderIsAlone, Dev!ReaderIsAlone
<1> QED BY <1>1, <1>2, <1>3, PTL DEF DevSpec
=============================================================================
