--------------------------- MODULE ServicesProofs ---------------------------
(***************************************************************************)
(* The safety of MCServices' writer, attachment, commands, search dialog    *)
(* and development server, for every value of their constants.              *)
(*                                                                         *)
(* The commit writer.  JournalChain is not inductive: that the next frame  *)
(* extends the last one follows from the chain head the worker keeps,      *)
(* which follows the journal exactly while the writer is available and no  *)
(* append is in progress (WriterInv).  AnswersAreExact needs the order of  *)
(* the queue: no request is ever taken twice because the requests the      *)
(* worker, the queue and the blocked calls hold are in call order          *)
(* (OrderInv), and those are still without a reply (PromiseInv).           *)
(*                                                                         *)
(* The attachment.  StreamContinues is not inductive: what the stream of a *)
(* client holds when it attaches is what the server put on it while the    *)
(* reply was under way.  StreamInv says that of both phases, from where    *)
(* the client is or will be (Base); RequestInv says that a subscriber      *)
(* begins with nothing, OpenInv when a connection is open at all.          *)
(*                                                                         *)
(* The commands are IdempotencyProofs', the dialog and the development     *)
(* server WebsiteProofs', taken for this module's run.             *)
(***************************************************************************)
EXTENDS MCServices, TLAPS, SequenceTheorems, WellFoundedInduction

Busy == worker \in {"taken", "appending", "appended", "torn"}

Appending == worker \in {"appending", "appended", "torn"}

Reached == worker \in {"appended", "torn"}

\* In the history rs, request id has no reply and an answer still to come.
Open(rs, id) ==
    /\ rs[id].promise = "pending"
    /\ rs[id].told \in {"nothing", "cancelled"}

\* The first k elements of s are requests of the first n, in call order.
Ascending(s, k, n) ==
    /\ \A i \in 1..k : s[i] \in 1..n
    /\ \A i, j \in 1..k : i < j => s[i] < s[j]

\* The taken request, the queue and the blocked calls, in call order.
OrderInv ==
    /\ Ascending(queue, Len(queue), Len(requests))
    /\ Ascending(blocked, Len(blocked), Len(requests))
    /\ \A i \in 1..Len(queue), j \in 1..Len(blocked) : queue[i] < blocked[j]
    /\ Busy =>
         /\ taken \in 1..Len(requests)
         /\ \A i \in 1..Len(queue) : taken < queue[i]
         /\ \A i \in 1..Len(blocked) : taken < blocked[i]

\* The chain head follows the journal.
Follows ==
    IF journal = << >>
    THEN head = Start
    ELSE /\ journal[Len(journal)] # TornFrame
         /\ head.hash = journal[Len(journal)]
         /\ head.seq = requests[journal[Len(journal)]].seq

\* When the journal may be appended to, and what the head says of it.
WriterInv ==
    /\ \A i \in 1..Len(journal) :
          journal[i] # TornFrame =>
            /\ journal[i] \in 1..Len(requests)
            /\ requests[journal[i]].kind = "commit"
    /\ availability = "available" /\ ~Reached => Follows
    /\ worker = "ended" <=> availability = "closed"
    /\ Appending =>
         /\ availability = "available"
         /\ requests[taken].kind = "commit"
    /\ worker = "appending" => Valid(requests[taken])
    /\ worker = "appended" =>
         journal # << >> /\ journal[Len(journal)] = taken /\ taken # TornFrame

\* What is held has no reply yet.
HeldOpen ==
    /\ Busy => Open(requests, taken)
    /\ worker # "ended" =>
         /\ \A i \in 1..Len(queue) : Open(requests, queue[i])
         /\ \A i \in 1..Len(blocked) : Open(requests, blocked[i])

\* A written transaction is answered, or the one the worker is about to answer.
JournalSettled ==
    \A i \in 1..Len(journal) :
        journal[i] # TornFrame =>
          \/ requests[journal[i]].promise \in {"ok", "failed", "raised"}
          \/ journal[i] = taken /\ worker = "appended"

\* A caller is told what its promise says, or why it has none.
AnswersFollow ==
    \A id \in 1..Len(requests) : requests[id].kind = "commit" =>
        /\ requests[id].promise = "ok" => \E i \in 1..Len(journal) : journal[i] = id
        /\ requests[id].told = "ok" => requests[id].promise = "ok"
        /\ requests[id].told = "refused" => requests[id].promise \in {"pending", "refused"}
        /\ requests[id].told = "closed" =>
              worker = "ended" /\ requests[id].promise = "pending"

PromiseInv == HeldOpen /\ JournalSettled /\ AnswersFollow

CapacityInv == NoLostWakeup /\ Len(queue) <= Capacity

Inv == TypeOK /\ OrderInv /\ WriterInv /\ JournalChain /\ PromiseInv /\ CapacityInv

-----------------------------------------------------------------------------
(* Sequences. *)

\* Removing one position shifts the later ones down.
LEMMA RemoveAtProperties ==
    ASSUME NEW S, NEW s \in Seq(S), NEW i \in 1..Len(s)
    PROVE  /\ RemoveAt(s, i) \in Seq(S)
           /\ Len(RemoveAt(s, i)) = Len(s) - 1
           /\ \A j \in 1..(Len(s) - 1) :
                 RemoveAt(s, i)[j] = IF j < i THEN s[j] ELSE s[j + 1]
<1> DEFINE left == SubSeq(s, 1, i - 1)
           right == SubSeq(s, i + 1, Len(s))
<1>1. Len(s) \in Nat /\ \A j \in 1..Len(s) : s[j] \in S
  BY LenProperties, ElementOfSeq
<1>2. /\ left \in Seq(S) /\ Len(left) = i - 1
      /\ \A j \in 1..(i - 1) : left[j] = s[j]
  <2>1. \A j \in 1..(i - 1) : s[j] \in S
    BY <1>1
  <2>. QED  BY <1>1, <2>1, SubSeqProperties
<1>3. /\ right \in Seq(S) /\ Len(right) = Len(s) - i
      /\ \A j \in 1..(Len(s) - i) : right[j] = s[i + j]
  <2>1. \A j \in (i + 1)..Len(s) : s[j] \in S
    BY <1>1
  <2>. QED  BY <1>1, <2>1, SubSeqProperties
<1>4. RemoveAt(s, i) = left \o right
  BY DEF RemoveAt
<1>. HIDE DEF left, right
<1>5. /\ left \o right \in Seq(S)
      /\ Len(left \o right) = Len(s) - 1
      /\ \A j \in 1..(Len(s) - 1) : (left \o right)[j] =
            IF j <= i - 1 THEN left[j] ELSE right[j - (i - 1)]
  <2>1. /\ left \o right \in Seq(S)
        /\ Len(left \o right) = Len(left) + Len(right)
        /\ \A j \in 1..(Len(left) + Len(right)) : (left \o right)[j] =
              IF j <= Len(left) THEN left[j] ELSE right[j - Len(left)]
    BY <1>2, <1>3, ConcatProperties
  <2>. QED  BY <1>1, <1>2, <1>3, <2>1
<1>. QED  BY <1>1, <1>2, <1>3, <1>4, <1>5

-----------------------------------------------------------------------------
(* What the parts of an action do to the requests and to the queue. *)

Promised == Promises \ {"pending"}

\* Resolving the taken request changes its promise and nothing else.
LEMMA ResolveRequests ==
    ASSUME TypeOK, taken \in 1..Len(requests), NEW reply \in Promised, Resolve(reply)
    PROVE  /\ requests' \in Seq(Requests)
           /\ Len(requests') = Len(requests)
           /\ \A id \in 1..Len(requests) :
                 /\ requests'[id].kind = requests[id].kind
                 /\ requests'[id].seq = requests[id].seq
                 /\ requests'[id].prev = requests[id].prev
                 /\ requests'[id].told = requests[id].told
                 /\ requests'[id].promise =
                       IF id = taken THEN reply ELSE requests[id].promise
<1>1. requests \in Seq(Requests) /\ requests[taken] \in Requests
  BY ElementOfSeq DEF TypeOK
<1> DEFINE r == [requests[taken] EXCEPT !.promise = reply]
<1>2. /\ r \in Requests
      /\ r.kind = requests[taken].kind /\ r.seq = requests[taken].seq
      /\ r.prev = requests[taken].prev /\ r.told = requests[taken].told
      /\ r.promise = reply
  BY <1>1 DEF Requests, Promised
<1>3. requests' = [requests EXCEPT ![taken] = r]
  BY DEF Resolve
<1>. HIDE DEF r
<1>. QED  BY <1>1, <1>2, <1>3, ExceptSeq

\* Telling a caller changes what it was told and nothing else.
LEMMA TellRequests ==
    ASSUME TypeOK, NEW id \in DOMAIN requests, NEW answer \in Answers, Tell(id, answer)
    PROVE  /\ requests' \in Seq(Requests)
           /\ Len(requests') = Len(requests)
           /\ \A i \in 1..Len(requests) :
                 /\ requests'[i].kind = requests[i].kind
                 /\ requests'[i].seq = requests[i].seq
                 /\ requests'[i].prev = requests[i].prev
                 /\ requests'[i].promise = requests[i].promise
                 /\ requests'[i].told = IF i = id THEN answer ELSE requests[i].told
<1>1. requests \in Seq(Requests) /\ id \in 1..Len(requests) /\ requests[id] \in Requests
  BY LenProperties, ElementOfSeq DEF TypeOK
<1> DEFINE r == [requests[id] EXCEPT !.told = answer]
<1>2. /\ r \in Requests
      /\ r.kind = requests[id].kind /\ r.seq = requests[id].seq
      /\ r.prev = requests[id].prev /\ r.promise = requests[id].promise
      /\ r.told = answer
  BY <1>1 DEF Requests
<1>3. requests' = [requests EXCEPT ![id] = r]
  BY DEF Tell
<1>. HIDE DEF r
<1>. QED  BY <1>1, <1>2, <1>3, ExceptSeq

\* A call adds one request after all others.
LEMMA AppendRequests ==
    ASSUME TypeOK, NEW r \in Requests, requests' = Append(requests, r)
    PROVE  /\ requests' \in Seq(Requests)
           /\ Len(requests') = Len(requests) + 1
           /\ requests'[Len(requests) + 1] = r
           /\ \A id \in 1..Len(requests) : requests'[id] = requests[id]
BY DEF TypeOK

\* Unblocking keeps the rest of the wait list in order.
LEMMA UnblockBlocked ==
    ASSUME TypeOK, NEW id, Unblock(id)
    PROVE  /\ blocked' \in Seq(Ids)
           /\ \/ blocked' = blocked
              \/ \E i \in 1..Len(blocked) :
                    /\ Len(blocked') = Len(blocked) - 1
                    /\ \A j \in 1..(Len(blocked) - 1) :
                          blocked'[j] = IF j < i THEN blocked[j] ELSE blocked[j + 1]
<1>1. blocked \in Seq(Ids) /\ DOMAIN blocked = 1..Len(blocked)
  BY LenProperties DEF TypeOK
<1>2. CASE UNCHANGED blocked
  BY <1>1, <1>2
<1>3. ASSUME NEW i \in 1..Len(blocked), blocked' = RemoveAt(blocked, i)
      PROVE  /\ blocked' \in Seq(Ids)
             /\ Len(blocked') = Len(blocked) - 1
             /\ \A j \in 1..(Len(blocked) - 1) :
                   blocked'[j] = IF j < i THEN blocked[j] ELSE blocked[j + 1]
  BY <1>1, <1>3, RemoveAtProperties
<1>. QED  BY <1>1, <1>2, <1>3 DEF Unblock

\* Taking an item shifts the queue and lets in the first blocked call.
Shifted ==
    /\ queue # << >> /\ worker' = "taken" /\ taken' = queue[1]
    /\ \/ /\ blocked = << >> /\ blocked' = blocked
          /\ Len(queue') = Len(queue) - 1
          /\ \A i \in 1..(Len(queue) - 1) : queue'[i] = queue[i + 1]
       \/ /\ blocked # << >>
          /\ Len(queue') = Len(queue)
          /\ \A i \in 1..(Len(queue) - 1) : queue'[i] = queue[i + 1]
          /\ queue'[Len(queue)] = blocked[1]
          /\ Len(blocked') = Len(blocked) - 1
          /\ \A i \in 1..(Len(blocked) - 1) : blocked'[i] = blocked[i + 1]

Stopped ==
    /\ worker' = "ended" /\ availability' = "closed" /\ taken' = NoRequest
    /\ UNCHANGED <<queue, blocked>>

Waits(left) ==
    /\ queue = << >> /\ worker' = "waiting" /\ availability' = left
    /\ taken' = NoRequest
    /\ UNCHANGED <<queue, blocked>>

\* TakeQueued is a shift of the queue, with or without a blocked call to let in.
LEMMA TakeQueuedShifts ==
    ASSUME TypeOK, queue # << >>, TakeQueued
    PROVE  Shifted /\ queue' \in Seq(Ids) /\ blocked' \in Seq(Ids)
<1>1. queue \in Seq(Ids) /\ blocked \in Seq(Ids) /\ Len(queue) \in Nat /\ Len(queue) > 0
  BY EmptySeq, LenProperties DEF TypeOK
<1>2. /\ Head(queue) = queue[1] /\ Tail(queue) \in Seq(Ids)
      /\ Len(Tail(queue)) = Len(queue) - 1
      /\ \A i \in 1..(Len(queue) - 1) : Tail(queue)[i] = queue[i + 1]
  BY <1>1, HeadTailProperties
<1>3. CASE blocked = << >>
  BY <1>1, <1>2, <1>3 DEF TakeQueued, Shifted
<1>4. CASE blocked # << >>
  <2>1. /\ Head(blocked) = blocked[1] /\ Head(blocked) \in Ids
        /\ Tail(blocked) \in Seq(Ids)
        /\ Len(Tail(blocked)) = Len(blocked) - 1
        /\ \A i \in 1..(Len(blocked) - 1) : Tail(blocked)[i] = blocked[i + 1]
    BY <1>1, <1>4, HeadTailProperties
  <2>2. queue' = Append(Tail(queue), Head(blocked)) /\ blocked' = Tail(blocked)
        /\ worker' = "taken" /\ taken' = Head(queue)
    BY <1>4 DEF TakeQueued
  <2>3. /\ queue' \in Seq(Ids) /\ Len(queue') = Len(Tail(queue)) + 1
        /\ \A i \in 1..Len(Tail(queue)) : queue'[i] = Tail(queue)[i]
        /\ queue'[Len(Tail(queue)) + 1] = Head(blocked)
    BY <1>2, <2>1, <2>2, AppendProperties
  <2>4. queue'[Len(queue)] = blocked[1] /\ Len(queue') = Len(queue)
    BY <1>1, <1>2, <2>1, <2>3
  <2>5. \A i \in 1..(Len(queue) - 1) : queue'[i] = queue[i + 1]
    BY <1>1, <1>2, <2>3
  <2>. QED  BY <1>2, <1>4, <2>1, <2>2, <2>3, <2>4, <2>5 DEF Shifted
<1>. QED  BY <1>3, <1>4

\* After a request the worker takes the next one, stops, or waits.
LEMMA ContinueCases ==
    ASSUME TypeOK, NEW left, Continue(left)
    PROVE  /\ \/ Shifted /\ availability' = left
              \/ Stopped /\ queue = << >>
              \/ Waits(left)
           /\ queue' \in Seq(Ids) /\ blocked' \in Seq(Ids)
<1>1. CASE queue # << >> /\ TakeQueued /\ availability' = left
  BY <1>1, TakeQueuedShifts
<1>2. CASE queue = << >> /\ cancelled /\ Stop
  BY <1>2 DEF Stop, Stopped, TypeOK
<1>3. CASE queue = << >> /\ ~cancelled /\ Waits(left)
  BY <1>3 DEF Waits, TypeOK
<1>. QED  BY <1>1, <1>2, <1>3 DEF Continue, Waits

\* The step that ends a request: the queue moves on or the worker ends.
Moves(left) ==
    /\ \/ Shifted /\ availability' = left
       \/ Stopped
       \/ Waits(left)
    /\ queue' \in Seq(Ids) /\ blocked' \in Seq(Ids)

\* A worker that stops leaves the queue and the wait list alone.
LEMMA StopMoves ==
    ASSUME TypeOK, Stop, NEW left
    PROVE  Moves(left)
BY DEF Stop, Stopped, Moves, TypeOK

\* A worker that continues moves the queue on.
LEMMA ContinueMoves ==
    ASSUME TypeOK, NEW left, Continue(left)
    PROVE  Moves(left)
BY ContinueCases DEF Moves

Left == {"available", "unavailable"}

Settlement == HandleClose \/ Refuse \/ Reject \/ Finish \/ Fail \/ Raise

\* Every settlement resolves the taken request and moves on; only Finish, from
\* a written frame, resolves a commit with "ok" or leaves the writer available.
Settled(reply, left) ==
    /\ Busy
    /\ Resolve(reply)
    /\ Moves(left)
    /\ UNCHANGED <<journal, cancelled>>
    /\ left = "available" => Finish
    /\ reply = "ok" => Finish \/ requests[taken].kind = "close"
    /\ reply = "refused" => worker = "taken"
    /\ worker = "appended" => reply # "refused"
    /\ head' # head => Finish

\* Each of the six actions that end a request is a settlement in this form.
LEMMA SettlementSettles ==
    ASSUME TypeOK, WriterInv, Settlement
    PROVE  \E reply \in Promised, left \in Left : Settled(reply, left)
<1>. USE DEF Left, Promised, Promises, Busy
<1>1. CASE HandleClose
  <2>1. Settled("ok", "unavailable")
    BY <1>1, StopMoves DEF HandleClose, Settled
  <2>. QED  BY <2>1
<1>2. CASE Refuse
  <2>1. availability = "unavailable"
    BY <1>2 DEF Refuse, WriterInv, TypeOK
  <2>2. Settled("refused", "unavailable")
    BY <1>2, <2>1, ContinueMoves DEF Refuse, Settled
  <2>. QED  BY <2>2
<1>3. CASE Reject
  <2>1. Settled("failed", "unavailable")
    BY <1>3, ContinueMoves DEF Reject, Settled
  <2>. QED  BY <2>1
<1>4. CASE Finish
  <2> DEFINE left == IF requests[taken].seq = MaxSequence THEN "unavailable" ELSE "available"
  <2>1. left \in Left /\ Moves(left)
    BY <1>4, ContinueMoves DEF Finish
  <2>2. Settled("ok", left)
    BY <1>4, <2>1 DEF Finish, Settled
  <2>. QED  BY <2>1, <2>2
<1>5. CASE Fail
  <2>1. Settled("failed", "unavailable")
    BY <1>5, ContinueMoves DEF Fail, Settled
  <2>. QED  BY <2>1
<1>6. CASE Raise
  <2>1. Moves("unavailable")
    BY <1>6, ContinueMoves, StopMoves DEF Raise
  <2>2. Settled("raised", "unavailable")
    BY <1>6, <2>1 DEF Raise, Settled
  <2>. QED  BY <2>2
<1>. QED  BY <1>1, <1>2, <1>3, <1>4, <1>5, <1>6 DEF Settlement

\* Every call appends one request: it is handed over, queued, blocked, or
\* answered on the spot.
Handed == worker = "waiting" /\ worker' = "taken" /\ taken' = Len(requests) + 1
          /\ UNCHANGED <<queue, blocked>>

Queued == worker # "waiting" /\ Len(queue) < Capacity
          /\ queue' = Append(queue, Len(requests) + 1)
          /\ UNCHANGED <<blocked, worker, taken>>

Blocks == worker # "waiting" /\ Len(queue) >= Capacity
          /\ blocked' = Append(blocked, Len(requests) + 1)
          /\ UNCHANGED <<queue, worker, taken>>

Called(r) ==
    /\ requests' = Append(requests, r) /\ r.promise = "pending"
    /\ \/ /\ r.told = "nothing" /\ availability # "closed"
          /\ Handed \/ Queued \/ Blocks
       \/ /\ \/ r.told = "refused"
             \/ r.told = "closed" /\ r.kind = "close"
          /\ UNCHANGED <<queue, blocked, worker, taken>>
    /\ UNCHANGED <<availability, head, journal, cancelled>>

\* Every request in the history has the type of a request.
LEMMA RequestType ==
    ASSUME TypeOK, NEW id \in 1..Len(requests)
    PROVE  requests[id] \in Requests
BY ElementOfSeq DEF TypeOK

\* A point a transaction may extend has a sequence and a hash.
LEMMA PointSequence ==
    ASSUME TypeOK, NEW p \in Points
    PROVE  p.seq \in 0..MaxSequence /\ p.hash \in Nat
<1>1. requests \in Seq(Requests) /\ DOMAIN requests = 1..Len(requests)
      /\ Len(requests) \in Nat /\ \A i \in 1..Len(requests) : requests[i] \in Requests
  BY LenProperties, ElementOfSeq DEF TypeOK
<1>. QED  BY <1>1, SequenceAssumption DEF Points, Start, Requests

\* Commit and Close are calls in this form.
LEMMA CallCalls ==
    ASSUME TypeOK, Commit \/ Close
    PROVE  \E r \in Requests : Called(r)
<1>1. CASE Commit
  <2>1. PICK p \in Points :
          /\ p.seq < MaxSequence
          /\ LET request == Unanswered("commit", p.seq + 1, p.hash) IN
             IF availability = "available"
             THEN Enqueue(request)
             ELSE Answered(request, "refused")
    BY <1>1 DEF Commit
  <2> DEFINE r == Unanswered("commit", p.seq + 1, p.hash)
  <2>2. /\ r \in Requests /\ [r EXCEPT !.told = "refused"] \in Requests
        /\ r.promise = "pending" /\ r.told = "nothing"
        /\ [r EXCEPT !.told = "refused"].promise = "pending"
        /\ [r EXCEPT !.told = "refused"].told = "refused"
    BY <2>1, PointSequence, SequenceAssumption
    DEF Unanswered, Requests, Promises, Answers
  <2>3. CASE availability = "available"
    <3>1. Called(r)
      BY <1>1, <2>1, <2>2, <2>3 DEF Commit, Enqueue, Called, Handed, Queued, Blocks
    <3>. QED  BY <2>2, <3>1
  <2>4. CASE availability # "available"
    <3>1. Called([r EXCEPT !.told = "refused"])
      BY <1>1, <2>1, <2>2, <2>4 DEF Commit, Answered, Called
    <3>. QED  BY <2>2, <3>1
  <2>. QED  BY <2>3, <2>4
<1>2. CASE Close
  <2> DEFINE r == Unanswered("close", 0, 0)
  <2>2. /\ r \in Requests /\ [r EXCEPT !.told = "closed"] \in Requests
        /\ r.promise = "pending" /\ r.told = "nothing"
        /\ [r EXCEPT !.told = "closed"].promise = "pending"
        /\ [r EXCEPT !.told = "closed"].kind = "close"
        /\ [r EXCEPT !.told = "closed"].told = "closed"
    BY SequenceAssumption DEF Unanswered, Requests, Promises, Answers
  <2>3. CASE availability = "closed"
    <3>1. Called([r EXCEPT !.told = "closed"])
      BY <1>2, <2>2, <2>3 DEF Close, Answered, Called
    <3>. QED  BY <2>2, <3>1
  <2>4. CASE availability # "closed"
    <3>1. Called(r)
      BY <1>2, <2>2, <2>4 DEF Close, Enqueue, Called, Handed, Queued, Blocks
    <3>. QED  BY <2>2, <3>1
  <2>. QED  BY <2>3, <2>4
<1>. QED  BY <1>1, <1>2

\* Every answer tells one caller, and may take its call off the wait list.
Told(id, answer) ==
    /\ id \in DOMAIN requests /\ answer \in Answers
    /\ Tell(id, answer)
    /\ \/ Unblock(id)
       \/ UNCHANGED blocked
    /\ \/ answer = requests[id].promise /\ requests[id].promise # "pending"
       \/ answer = "closed" /\ requests[id].promise = "pending" /\ worker = "ended"
       \/ answer = "cancelled"
    /\ UNCHANGED <<availability, queue, worker, taken, head, journal, cancelled>>

Replies(id) == Return(id) \/ ReturnClosed(id) \/ Abandon(id)

\* Return, ReturnClosed and Abandon are answers in this form.
LEMMA ReplyTells ==
    ASSUME TypeOK, NEW id \in DOMAIN requests, Replies(id)
    PROVE  \E answer \in Answers : Told(id, answer)
<1>1. requests[id].promise \in Promises
  <2>1. requests[id] \in Requests
    BY LenProperties, RequestType DEF TypeOK
  <2>. QED  BY <2>1 DEF Requests
<1>2. CASE Return(id)
  <2>1. requests[id].promise \in Answers
    BY <1>1, <1>2 DEF Return, Answers
  <2>2. Told(id, requests[id].promise)
    BY <1>2, <2>1 DEF Return, Told
  <2>. QED  BY <2>1, <2>2
<1>3. CASE ReturnClosed(id)
  <2>1. Told(id, "closed")
    BY <1>3 DEF ReturnClosed, Told, Answers
  <2>. QED  BY <2>1 DEF Answers
<1>4. CASE Abandon(id)
  <2>1. Told(id, "cancelled")
    BY <1>4 DEF Abandon, Told, Answers
  <2>. QED  BY <2>1 DEF Answers
<1>. QED  BY <1>2, <1>3, <1>4 DEF Replies

\* What a step does, in the forms above.
LEMMA StepCases ==
    ASSUME TypeOK, WriterInv, Next
    PROVE  \/ \E r \in Requests : Called(r)
           \/ \E reply \in Promised, left \in Left : Settled(reply, left)
           \/ StartAppend
           \/ WriteFrame
           \/ CancelOwner
           \/ \E id \in DOMAIN requests, answer \in Answers : Told(id, answer)
BY CallCalls, SettlementSettles, ReplyTells DEF Next, Worker, Settlement, Replies

-----------------------------------------------------------------------------
(* Types. *)

\* The writer starts with every field typed.
LEMMA TypeInit == Init => TypeOK
<1>1. << >> \in Seq(Requests) /\ << >> \in Seq(Ids) /\ << >> \in Seq(Nat)
  BY EmptySeq
<1>2. Start \in [seq: 0..MaxSequence, hash: Nat]
  BY SequenceAssumption DEF Start
<1>3. 0 \in Nat
  OBVIOUS
<1>. QED  BY <1>1, <1>2, <1>3, Zenon DEF Init, TypeOK, NoRequest

\* The head after a successful append is a sequence within the limit.
LEMMA FinishHead ==
    ASSUME TypeOK, WriterInv, OrderInv, Finish
    PROVE  head' \in [seq: 0..MaxSequence, hash: Nat]
<1>1. taken \in 1..Len(requests) /\ taken \in Nat
  BY DEF Finish, OrderInv, Busy, TypeOK
<1>2. requests[taken] \in Requests
  BY <1>1, RequestType
<1>3. requests[taken].seq \in 0..MaxSequence
  BY <1>2 DEF Requests
<1>. QED  BY <1>1, <1>3 DEF Finish

\* Every step keeps every field typed.
LEMMA TypeNext ==
    ASSUME TypeOK, WriterInv, OrderInv, [Next]_vars
    PROVE  TypeOK'
<1>1. ASSUME NEW r \in Requests, Called(r) PROVE TypeOK'
  <2>1. requests' \in Seq(Requests) /\ Len(requests) \in Nat
    BY <1>1, AppendRequests, LenProperties DEF Called, TypeOK
  <2>2. Append(queue, Len(requests) + 1) \in Seq(Ids)
        /\ Append(blocked, Len(requests) + 1) \in Seq(Ids)
    <3>1. Len(requests) + 1 \in Ids
      BY <2>1 DEF Ids
    <3>. QED  BY <3>1, AppendProperties DEF TypeOK
  <2>3. queue' \in Seq(Ids) /\ blocked' \in Seq(Ids)
    BY <1>1, <2>2, Zenon DEF Called, Handed, Queued, Blocks, TypeOK
  <2>4. /\ worker' \in {"waiting", "taken", "appending", "appended", "torn", "ended"}
        /\ taken' \in Nat
    BY <1>1, <2>1 DEF Called, Handed, Queued, Blocks, TypeOK
  <2>. QED  BY <1>1, <2>1, <2>3, <2>4 DEF Called, TypeOK
<1>2. ASSUME NEW reply \in Promised, NEW left \in Left, Settled(reply, left)
      PROVE TypeOK'
  <2>1. taken \in 1..Len(requests)
    BY <1>2 DEF Settled, OrderInv
  <2>2. requests' \in Seq(Requests)
    BY <1>2, <2>1, ResolveRequests DEF Settled
  <2>3. head' \in [seq: 0..MaxSequence, hash: Nat]
    BY <1>2, FinishHead DEF Settled, TypeOK
  <2>4. /\ worker' \in {"waiting", "taken", "appending", "appended", "torn", "ended"}
        /\ availability' \in {"available", "unavailable", "closed"}
        /\ taken' \in Nat
    <3>1. queue # << >> => queue[1] \in Nat
      BY EmptySeq, ElementOfSeq DEF TypeOK, Ids
    <3>. QED  BY <1>2, <3>1 DEF Settled, Moves, Shifted, Stopped, Waits, Left, TypeOK,
              NoRequest
  <2>. QED  BY <1>2, <2>2, <2>3, <2>4 DEF Settled, Moves, TypeOK
<1>3. CASE StartAppend
  BY <1>3 DEF StartAppend, TypeOK
<1>4. CASE WriteFrame
  <2>1. Append(journal, taken) \in Seq(Nat) /\ Append(journal, TornFrame) \in Seq(Nat)
    BY AppendProperties DEF TypeOK, TornFrame
  <2>. QED  BY <1>4, <2>1 DEF WriteFrame, TypeOK
<1>5. CASE CancelOwner
  BY <1>5 DEF CancelOwner, Stop, TypeOK, NoRequest
<1>6. ASSUME NEW id \in DOMAIN requests, NEW answer \in Answers, Told(id, answer)
      PROVE TypeOK'
  BY <1>6, TellRequests, UnblockBlocked DEF Told, TypeOK
<1>7. CASE UNCHANGED vars
  BY <1>7 DEF vars, TypeOK
<1>. QED  BY <1>1, <1>2, <1>3, <1>4, <1>5, <1>6, <1>7, StepCases

-----------------------------------------------------------------------------
(* The order of the requests held. *)

\* Dropping the first element keeps the call order.
LEMMA AscendingShift ==
    ASSUME NEW s, NEW t, NEW k \in Nat \ {0}, NEW n \in Nat, Ascending(s, k, n),
           \A i \in 1..(k - 1) : t[i] = s[i + 1]
    PROVE  Ascending(t, k - 1, n) /\ \A i \in 1..(k - 1) : s[1] < t[i]
<1>1. \A i \in 1..(k - 1) : i + 1 \in 1..k
  OBVIOUS
<1>2. \A i \in 1..(k - 1) : t[i] \in 1..n
  BY <1>1 DEF Ascending
<1>3. \A i, j \in 1..(k - 1) : i < j => t[i] < t[j]
  BY <1>1 DEF Ascending
<1>4. \A i \in 1..(k - 1) : s[1] < t[i]
  BY <1>1 DEF Ascending
<1>. QED  BY <1>2, <1>3, <1>4 DEF Ascending

\* Adding a later request at the end keeps the call order.
LEMMA AscendingAppend ==
    ASSUME NEW s, NEW t, NEW k \in Nat, NEW n \in Nat, NEW m \in Nat, n <= m,
           Ascending(s, k, n),
           \A i \in 1..k : t[i] = s[i],
           t[k + 1] \in 1..m, \A i \in 1..k : s[i] < t[k + 1]
    PROVE  Ascending(t, k + 1, m)
<1>1. \A i \in 1..(k + 1) : i \in 1..k \/ i = k + 1
  OBVIOUS
<1>2. \A i \in 1..(k + 1) : t[i] \in 1..m
  BY <1>1 DEF Ascending
<1>3. ASSUME NEW i \in 1..(k + 1), NEW j \in 1..(k + 1), i < j PROVE t[i] < t[j]
  <2>1. i \in 1..k
    BY <1>3
  <2>. QED  BY <1>1, <1>3, <2>1 DEF Ascending
<1>. QED  BY <1>2, <1>3 DEF Ascending

\* t is s without its element p.
Removed(s, t, k, p) ==
    \A j \in 1..(k - 1) : t[j] = IF j < p THEN s[j] ELSE s[j + 1]

\* Removing one element keeps the call order.
LEMMA AscendingRemove ==
    ASSUME NEW s, NEW t, NEW k \in Nat, NEW n \in Nat, Ascending(s, k, n),
           NEW p \in 1..k,
           Removed(s, t, k, p)
    PROVE  /\ Ascending(t, k - 1, n)
           /\ \A j \in 1..(k - 1) : \E i \in 1..k : t[j] = s[i]
<1> DEFINE at(j) == IF j < p THEN j ELSE j + 1
<1>1. \A j \in 1..(k - 1) : at(j) \in 1..k /\ t[j] = s[at(j)]
  BY DEF Removed
<1>2. \A i, j \in 1..(k - 1) : i < j => at(i) < at(j)
  OBVIOUS
<1>. HIDE DEF at
<1>3. \A j \in 1..(k - 1) : t[j] \in 1..n
  BY <1>1 DEF Ascending
<1>4. \A i, j \in 1..(k - 1) : i < j => t[i] < t[j]
  BY <1>1, <1>2 DEF Ascending
<1>. QED  BY <1>1, <1>3, <1>4 DEF Ascending

\* Every step keeps the held requests in call order, none held twice.
LEMMA OrderNext ==
    ASSUME TypeOK, OrderInv, WriterInv, CapacityInv, [Next]_vars
    PROVE  OrderInv'
<1> DEFINE n == Len(requests)
           q == Len(queue)
           b == Len(blocked)
<1>0. n \in Nat /\ q \in Nat /\ b \in Nat
  BY LenProperties DEF TypeOK
<1>. USE <1>0
<1>1. ASSUME NEW r \in Requests, Called(r) PROVE OrderInv'
  <2>1. Len(requests') = n + 1 /\ n + 1 \in Ids
    BY <1>1, AppendRequests DEF Called, Ids
  <2>2. CASE Handed
    <3>1. queue' = << >> /\ blocked' = << >> /\ taken' = n + 1
      BY <2>2 DEF Handed, CapacityInv, NoLostWakeup
    <3>2. Len(queue') = 0 /\ Len(blocked') = 0
      BY <3>1, EmptySeq
    <3>. QED  BY <2>1, <3>1, <3>2 DEF OrderInv, Ascending
  <2>3. CASE Queued
    <3>1. /\ blocked = << >> /\ blocked' = << >> /\ Len(blocked') = 0
          /\ worker' = worker /\ taken' = taken
      BY <2>3, CapacityAssumption, EmptySeq DEF Queued, CapacityInv, NoLostWakeup
    <3>2. /\ Len(queue') = q + 1
          /\ \A i \in 1..q : queue'[i] = queue[i]
          /\ queue'[q + 1] = n + 1
      BY <2>1, <2>3, AppendProperties DEF Queued, TypeOK
    <3>3. Ascending(queue', q + 1, n + 1)
      <4>1. Ascending(queue, q, n) /\ \A i \in 1..q : queue[i] < n + 1
        BY DEF OrderInv, Ascending
      <4>2. /\ n + 1 \in Nat /\ n <= n + 1 /\ queue'[q + 1] \in 1..(n + 1)
            /\ \A i \in 1..q : queue[i] < queue'[q + 1]
            /\ \A i \in 1..q : queue'[i] = queue[i]
        BY <3>2, <4>1
      <4>. HIDE DEF n, q, b
      <4>. QED  BY <4>1, <4>2, AscendingAppend
    <3>4. Busy => taken \in 1..n /\ \A i \in 1..(q + 1) : taken < queue'[i]
      <4>1. \A i \in 1..(q + 1) : i \in 1..q \/ i = q + 1
        OBVIOUS
      <4>. QED  BY <3>2, <4>1 DEF OrderInv
    <3>. QED  BY <2>1, <3>1, <3>2, <3>3, <3>4 DEF OrderInv, Ascending, Busy
  <2>4. CASE Blocks
    <3>1. queue' = queue /\ worker' = worker /\ taken' = taken
      BY <2>4 DEF Blocks
    <3>2. /\ Len(blocked') = b + 1
          /\ \A i \in 1..b : blocked'[i] = blocked[i]
          /\ blocked'[b + 1] = n + 1
      BY <2>1, <2>4, AppendProperties DEF Blocks, TypeOK
    <3>3. Ascending(blocked', b + 1, n + 1)
      <4>1. Ascending(blocked, b, n) /\ \A i \in 1..b : blocked[i] < n + 1
        BY DEF OrderInv, Ascending
      <4>2. /\ n + 1 \in Nat /\ n <= n + 1 /\ blocked'[b + 1] \in 1..(n + 1)
            /\ \A i \in 1..b : blocked[i] < blocked'[b + 1]
            /\ \A i \in 1..b : blocked'[i] = blocked[i]
        BY <3>2, <4>1
      <4>. HIDE DEF n, q, b
      <4>. QED  BY <4>1, <4>2, AscendingAppend
    <3>4. Ascending(queue, q, n + 1)
      BY DEF OrderInv, Ascending
    <3>5. \A j \in 1..(b + 1) : j \in 1..b \/ j = b + 1
      OBVIOUS
    <3>6. \A i \in 1..q, j \in 1..(b + 1) : queue[i] < blocked'[j]
      BY SMTT(60), <3>2, <3>5 DEF OrderInv, Ascending
    <3>7. Busy => taken \in 1..(n + 1) /\ \A j \in 1..(b + 1) : taken < blocked'[j]
      BY <3>2, <3>5 DEF OrderInv
    <3>. QED  BY <2>1, <3>1, <3>2, <3>3, <3>4, <3>6, <3>7 DEF OrderInv, Busy
  <2>5. CASE UNCHANGED <<queue, blocked, worker, taken>>
    BY <2>1, <2>5 DEF OrderInv, Ascending, Busy
  <2>. QED  BY <1>1, <2>2, <2>3, <2>4, <2>5 DEF Called
<1>2. ASSUME NEW reply \in Promised, NEW left \in Left, Settled(reply, left)
      PROVE OrderInv'
  <2>1. Len(requests') = n
    BY <1>2, ResolveRequests DEF Settled, OrderInv
  <2>2. CASE Shifted
    <3>1. q > 0 /\ taken' = queue[1]
      BY <2>2, EmptySeq DEF Shifted, TypeOK
    <3>2. Ascending(queue, q, n) /\ Ascending(blocked, b, n)
      BY DEF OrderInv
    <3>3. /\ \A i \in 1..(q - 1) : queue'[i] = queue[i + 1]
          /\ \A i \in 1..(q - 1) : queue[1] < queue'[i]
          /\ Ascending(queue', q - 1, n)
      <4>1. \A i \in 1..(q - 1) : queue'[i] = queue[i + 1]
        BY <2>2 DEF Shifted
      <4>2. q \in Nat \ {0}
        BY <3>1
      <4>. HIDE DEF n, q, b
      <4>. QED  BY <3>2, <4>1, <4>2, AscendingShift
    <3>4. CASE blocked = << >>
      <4>1. Len(queue') = q - 1 /\ Len(blocked') = 0
        BY <2>2, <3>4, EmptySeq DEF Shifted
      <4>2. taken' \in 1..n
        BY <3>1, <3>2 DEF Ascending
      <4>. QED  BY <2>1, <3>1, <3>3, <4>1, <4>2 DEF OrderInv, Ascending
    <3>5. CASE blocked # << >>
      <4>1. /\ b > 0 /\ Len(queue') = q /\ Len(blocked') = b - 1
            /\ queue'[q] = blocked[1]
            /\ \A i \in 1..(b - 1) : blocked'[i] = blocked[i + 1]
        BY <2>2, <3>5, EmptySeq DEF Shifted, TypeOK
      <4>2. /\ Ascending(blocked', b - 1, n)
            /\ \A i \in 1..(b - 1) : blocked[1] < blocked'[i]
        <5>1. b \in Nat \ {0} /\ \A i \in 1..(b - 1) : blocked'[i] = blocked[i + 1]
          BY <4>1
        <5>. HIDE DEF n, q, b
        <5>. QED  BY <3>2, <5>1, AscendingShift
      <4>3. \A i \in 1..q : queue[i] < blocked[1] /\ queue[i] \in Int
        BY <3>2, <4>1 DEF OrderInv, Ascending
      <4>4. blocked[1] \in 1..n /\ queue[1] \in 1..n
        BY <3>1, <3>2, <4>1 DEF Ascending
      <4>5. \A i \in 1..q : (i \in 1..(q - 1) /\ i + 1 \in 1..q) \/ i = q
        BY <3>1
      <4>6. \A i \in 1..(q - 1) : queue'[i] < blocked[1] /\ queue'[i] \in Int
        BY <3>3, <4>3, <4>5
      <4>7. Ascending(queue', q, n)
        <5>1. queue'[(q - 1) + 1] = blocked[1] /\ (q - 1) + 1 = q /\ q - 1 \in Nat
          BY <3>1, <4>1
        <5>2. Ascending(queue', (q - 1) + 1, n)
          <6>. HIDE DEF n, q, b
          <6>. QED  BY <3>3, <4>4, <4>6, <5>1, AscendingAppend
        <5>. QED  BY <5>1, <5>2
      <4>8. \A i \in 1..q : queue'[i] <= blocked[1] /\ queue'[i] \in Int
        BY <4>1, <4>4, <4>5, <4>6
      <4>9. \A j \in 1..(b - 1) : blocked'[j] \in Int /\ blocked[1] < blocked'[j]
        BY <4>2 DEF Ascending
      <4>10. \A i \in 1..q, j \in 1..(b - 1) : queue'[i] < blocked'[j]
        BY <4>4, <4>8, <4>9
      <4>11. queue[1] < blocked[1]
        BY <3>1, <4>3
      <4>12. \A i \in 1..q : queue[1] < queue'[i]
        BY <3>3, <4>1, <4>5, <4>11
      <4>13. \A j \in 1..(b - 1) : queue[1] < blocked'[j]
        BY <4>4, <4>9, <4>11
      <4>. QED  BY <2>1, <3>1, <4>1, <4>2, <4>4, <4>7, <4>10, <4>12, <4>13 DEF OrderInv
    <3>. QED  BY <3>4, <3>5
  <2>3. CASE worker' \in {"waiting", "ended"} /\ UNCHANGED <<queue, blocked>>
    BY <2>1, <2>3 DEF OrderInv, Ascending, Busy
  <2>. QED  BY <1>2, <2>2, <2>3 DEF Settled, Moves, Stopped, Waits
<1>3. CASE StartAppend \/ WriteFrame \/ CancelOwner
  <2>1. UNCHANGED <<requests, queue, blocked>>
    BY <1>3 DEF StartAppend, WriteFrame, CancelOwner, Stop
  <2>2. Busy' => Busy /\ taken' = taken
    BY <1>3 DEF StartAppend, WriteFrame, CancelOwner, Stop, Busy
  <2>. QED  BY <2>1, <2>2 DEF OrderInv, Ascending
<1>4. ASSUME NEW id \in DOMAIN requests, NEW answer \in Answers, Told(id, answer)
      PROVE OrderInv'
  <2>1. Len(requests') = n
    BY <1>4, TellRequests DEF Told
  <2>2. UNCHANGED <<queue, worker, taken>>
    BY <1>4 DEF Told
  <2>3. CASE blocked' = blocked
    BY <2>1, <2>2, <2>3 DEF OrderInv, Ascending, Busy
  <2>4. ASSUME NEW i \in 1..b,
               Len(blocked') = b - 1,
               \A j \in 1..(b - 1) :
                   blocked'[j] = IF j < i THEN blocked[j] ELSE blocked[j + 1]
        PROVE OrderInv'
    <3>1. Ascending(blocked, b, n)
      BY DEF OrderInv
    <3>2. /\ Ascending(blocked', b - 1, n)
          /\ \A k \in 1..(b - 1) : \E j \in 1..b : blocked'[k] = blocked[j]
      <4>1. Removed(blocked, blocked', b, i)
        BY <2>4 DEF Removed
      <4>. HIDE DEF n, q, b
      <4>. QED  BY <2>4, <3>1, <4>1, AscendingRemove
    <3>. QED  BY <2>1, <2>2, <2>4, <3>2 DEF OrderInv, Busy
  <2>. QED  BY <1>4, <2>3, <2>4, UnblockBlocked DEF Told
<1>5. CASE UNCHANGED vars
  BY <1>5 DEF vars, OrderInv, Ascending, Busy
<1>. QED  BY <1>1, <1>2, <1>3, <1>4, <1>5, StepCases

\* Every step keeps a full queue behind blocked calls, and none behind an idle worker.
LEMMA CapacityNext ==
    ASSUME TypeOK, OrderInv, WriterInv, CapacityInv, [Next]_vars
    PROVE  CapacityInv'
<1>. Len(queue) \in Nat /\ queue \in Seq(Ids) /\ blocked \in Seq(Ids)
  BY LenProperties DEF TypeOK
<1>. Capacity \in Nat /\ Capacity > 0
  BY CapacityAssumption
<1>. USE DEF CapacityInv, NoLostWakeup
<1>1. ASSUME NEW r \in Requests, Called(r) PROVE CapacityInv'
  <2>1. Len(requests) + 1 \in Ids
    BY LenProperties DEF TypeOK, Ids
  <2>2. CASE Queued
    <3>1. Len(queue') = Len(queue) + 1
      BY <2>1, <2>2, AppendProperties DEF Queued
    <3>. QED  BY <2>2, <3>1 DEF Queued
  <2>. QED  BY <1>1, <2>2 DEF Called, Handed, Blocks
<1>2. ASSUME NEW reply \in Promised, NEW left \in Left, Settled(reply, left)
      PROVE CapacityInv'
  <2>1. CASE Shifted
    <3>1. worker' = "taken" /\ Len(queue) > 0
      BY <2>1, EmptySeq DEF Shifted
    <3>. QED  BY <2>1, <3>1 DEF Shifted
  <2>2. CASE Stopped
    BY <2>2 DEF Stopped
  <2>3. CASE Waits(left)
    <3>1. queue = << >> /\ Len(queue) = 0
      BY <2>3, EmptySeq DEF Waits
    <3>2. blocked = << >>
      BY <3>1
    <3>. QED  BY <2>3, <3>1, <3>2 DEF Waits
  <2>. QED  BY <1>2, <2>1, <2>2, <2>3 DEF Settled, Moves
<1>3. CASE StartAppend \/ WriteFrame \/ CancelOwner
  BY <1>3 DEF StartAppend, WriteFrame, CancelOwner, Stop
<1>4. ASSUME NEW id \in DOMAIN requests, NEW answer \in Answers, Told(id, answer)
      PROVE CapacityInv'
  <2>1. UNCHANGED <<queue, worker>>
    BY <1>4 DEF Told
  <2>2. blocked = << >> => blocked' = << >>
    BY <1>4, UnblockBlocked, EmptySeq DEF Told
  <2>. QED  BY <2>1, <2>2
<1>5. CASE UNCHANGED vars
  BY <1>5 DEF vars
<1>. QED  BY <1>1, <1>2, <1>3, <1>4, <1>5, StepCases

-----------------------------------------------------------------------------
(* The chain head and the chain. *)

\* A step never takes a request back nor changes its transaction.
LEMMA RequestsKept ==
    ASSUME TypeOK, OrderInv, WriterInv, [Next]_vars
    PROVE  /\ Len(requests) <= Len(requests')
           /\ \A id \in 1..Len(requests) :
                 /\ id \in 1..Len(requests')
                 /\ requests'[id].kind = requests[id].kind
                 /\ requests'[id].seq = requests[id].seq
                 /\ requests'[id].prev = requests[id].prev
<1>. Len(requests) \in Nat
  BY LenProperties DEF TypeOK
<1> DEFINE Same(id) ==
        /\ requests'[id].kind = requests[id].kind
        /\ requests'[id].seq = requests[id].seq
        /\ requests'[id].prev = requests[id].prev
<1> DEFINE Kept ==
        /\ Len(requests') \in {Len(requests), Len(requests) + 1}
        /\ \A id \in 1..Len(requests) : Same(id)
<1>1. ASSUME NEW r \in Requests, Called(r) PROVE Kept
  BY <1>1, AppendRequests DEF Called
<1>2. ASSUME NEW reply \in Promised, NEW left \in Left, Settled(reply, left) PROVE Kept
  BY <1>2, ResolveRequests DEF Settled, OrderInv
<1>3. UNCHANGED requests => Kept
  OBVIOUS
<1>4. ASSUME NEW id \in DOMAIN requests, NEW answer \in Answers, Told(id, answer) PROVE Kept
  BY <1>4, TellRequests DEF Told
<1>5. Kept
  <2>. HIDE DEF Kept
  <2>. QED  BY <1>1, <1>2, <1>3, <1>4, StepCases DEF StartAppend, WriteFrame, CancelOwner, vars
<1>. QED  BY <1>5

\* The frame WriteFrame appends is a torn one or the taken request.
LEMMA WriteFrameJournal ==
    ASSUME TypeOK, WriteFrame
    PROVE  /\ Len(journal') = Len(journal) + 1
           /\ \A i \in 1..Len(journal) : journal'[i] = journal[i]
           /\ \/ worker' = "appended" /\ journal'[Len(journal) + 1] = taken
              \/ worker' = "torn" /\ journal'[Len(journal) + 1] = TornFrame
           /\ journal' # << >>
<1>1. journal \in Seq(Nat) /\ taken \in Nat /\ TornFrame \in Nat
  BY DEF TypeOK, TornFrame
<1>2. CASE worker' = "appended" /\ journal' = Append(journal, taken)
  BY <1>1, <1>2, AppendProperties
<1>3. CASE worker' = "torn" /\ journal' = Append(journal, TornFrame)
  BY <1>1, <1>3, AppendProperties
<1>. QED  BY <1>2, <1>3 DEF WriteFrame

\* Every step keeps the journal one chain.
LEMMA ChainNext ==
    ASSUME TypeOK, OrderInv, WriterInv, JournalChain, [Next]_vars
    PROVE  JournalChain'
<1>. Len(journal) \in Nat /\ DOMAIN journal = 1..Len(journal)
  BY LenProperties DEF TypeOK
<1>1. CASE UNCHANGED journal
  BY <1>1, RequestsKept DEF JournalChain, WriterInv
<1>2. CASE WriteFrame
  <2>1. /\ Appending /\ Busy /\ ~Reached /\ worker = "appending"
        /\ requests' = requests
    BY <1>2 DEF WriteFrame, Appending, Busy, Reached
  <2>2. Follows /\ Valid(requests[taken]) /\ taken \in 1..Len(requests)
    BY <2>1 DEF WriterInv, OrderInv
  <2>3. DOMAIN journal' = 1..(Len(journal) + 1)
    BY <1>2, AppendProperties, LenProperties DEF WriteFrame, TypeOK, TornFrame
  <2>4. ASSUME NEW i \in 1..Len(journal), journal'[i] # TornFrame
        PROVE  IF i = 1
               THEN requests[journal'[i]].seq = 1 /\ requests[journal'[i]].prev = 0
               ELSE /\ journal'[i - 1] # TornFrame
                    /\ requests[journal'[i]].prev = journal'[i - 1]
                    /\ requests[journal'[i]].seq = requests[journal'[i - 1]].seq + 1
    <3>1. i # 1 => i - 1 \in 1..Len(journal)
      OBVIOUS
    <3>2. journal'[i] = journal[i] /\ (i # 1 => journal'[i - 1] = journal[i - 1])
      BY <1>2, <3>1, WriteFrameJournal
    <3>. QED  BY <2>4, <3>2 DEF JournalChain
  <2>5. ASSUME NEW i, i = Len(journal) + 1, journal'[i] # TornFrame
        PROVE  IF i = 1
               THEN requests[journal'[i]].seq = 1 /\ requests[journal'[i]].prev = 0
               ELSE /\ journal'[i - 1] # TornFrame
                    /\ requests[journal'[i]].prev = journal'[i - 1]
                    /\ requests[journal'[i]].seq = requests[journal'[i - 1]].seq + 1
    <3>1. journal'[i] = taken
      BY <1>2, <2>5, WriteFrameJournal
    <3>2. CASE journal = << >>
      BY <2>2, <2>5, <3>1, <3>2, EmptySeq DEF Follows, Valid, Start
    <3>3. CASE journal # << >>
      <4>1. Len(journal) > 0 /\ Len(journal) \in 1..Len(journal)
        BY <3>3, EmptySeq DEF TypeOK
      <4>2. journal'[i - 1] = journal[Len(journal)]
        BY <1>2, <2>5, <4>1, WriteFrameJournal
      <4>. QED  BY <2>2, <2>5, <3>1, <3>3, <4>1, <4>2 DEF Follows, Valid
    <3>. QED  BY <3>2, <3>3
  <2>6. \A i \in 1..(Len(journal) + 1) : i \in 1..Len(journal) \/ i = Len(journal) + 1
    OBVIOUS
  <2>. QED  BY <2>1, <2>3, <2>4, <2>5, <2>6 DEF JournalChain
<1>3. UNCHANGED journal \/ WriteFrame
  BY StepCases DEF Called, Settled, StartAppend, CancelOwner, Told, vars
<1>. QED  BY <1>1, <1>2, <1>3

\* Every step keeps the chain head on the journal while appends are allowed.
LEMMA WriterNext ==
    ASSUME TypeOK, OrderInv, WriterInv, [Next]_vars
    PROVE  WriterInv'
<1>. Len(journal) \in Nat /\ Len(requests) \in Nat /\ Len(requests') \in Nat
  <2>1. TypeOK'
    BY TypeNext
  <2>. QED  BY <2>1, LenProperties DEF TypeOK
<1> DEFINE Written == \A i \in 1..Len(journal) :
                         journal[i] # TornFrame =>
                           /\ journal[i] \in 1..Len(requests)
                           /\ requests[journal[i]].kind = "commit"
<1>1. CASE UNCHANGED journal
  <2>1. Written'
    BY <1>1, RequestsKept DEF WriterInv
  <2>2. journal # << >> => Len(journal) \in 1..Len(journal)
    BY EmptySeq DEF TypeOK
  <2>3. Follows /\ UNCHANGED head => Follows'
    BY <1>1, <2>2, RequestsKept DEF WriterInv, Follows
  <2>4. ASSUME NEW r \in Requests, Called(r) PROVE WriterInv'
    <3>1. UNCHANGED <<availability, head>>
      BY <2>4 DEF Called
    <3>2. \/ UNCHANGED <<worker, taken>>
          \/ /\ worker = "waiting" /\ worker' = "taken"
             /\ availability # "closed"
      BY <2>4 DEF Called, Handed, Queued, Blocks
    <3>3. CASE UNCHANGED <<worker, taken>>
      <4>1. Appending => taken \in 1..Len(requests)
        BY DEF Appending, OrderInv, Busy
      <4>2. Valid(requests[taken]) /\ Appending => Valid(requests[taken])'
        BY <3>1, <3>3, <4>1, RequestsKept DEF Valid
      <4>. QED  BY <1>1, <2>1, <2>3, <3>1, <3>3, <4>1, <4>2, RequestsKept
           DEF WriterInv, Appending, Reached
    <3>4. CASE worker = "waiting" /\ worker' = "taken" /\ availability # "closed"
      BY <2>1, <2>3, <3>1, <3>4 DEF WriterInv, Appending, Reached
    <3>. QED  BY <3>2, <3>3, <3>4
  <2>5. ASSUME NEW reply \in Promised, NEW left \in Left, Settled(reply, left)
        PROVE WriterInv'
    <3>1. \/ worker' \in {"taken", "waiting"} /\ availability' = left
          \/ worker' = "ended" /\ availability' = "closed"
      BY <2>5 DEF Settled, Moves, Shifted, Stopped, Waits
    <3>2. left # "closed"
      BY DEF Left
    <3>3. availability' = "available" => Finish
      BY <2>5, <3>1 DEF Settled
    <3>4. Finish => Follows'
      <4>1. SUFFICES ASSUME Finish PROVE Follows'
        OBVIOUS
      <4>2. /\ journal # << >> /\ journal[Len(journal)] = taken /\ taken # TornFrame
            /\ taken \in 1..Len(requests)
            /\ head' = [seq |-> requests[taken].seq, hash |-> taken]
        BY <4>1 DEF Finish, WriterInv, OrderInv, Busy
      <4>. QED  BY <1>1, <4>2, RequestsKept DEF Follows
    <3>. QED  BY <2>1, <3>1, <3>2, <3>3, <3>4 DEF WriterInv, Appending, Reached
  <2>6. CASE StartAppend
    BY <2>1, <2>3, <2>6 DEF StartAppend, WriterInv, Appending, Reached, Valid
  <2>7. CASE CancelOwner
    BY <2>1, <2>3, <2>7 DEF CancelOwner, Stop, WriterInv, Appending, Reached, Valid
  <2>8. ASSUME NEW id \in DOMAIN requests, NEW answer \in Answers, Told(id, answer)
        PROVE WriterInv'
    <3>1. UNCHANGED <<availability, worker, taken, head>>
      BY <2>8 DEF Told
    <3>2. Appending => taken \in 1..Len(requests)
      BY DEF Appending, OrderInv, Busy
    <3>3. Valid(requests[taken]) /\ Appending => Valid(requests[taken])'
      BY <3>1, <3>2, RequestsKept DEF Valid
    <3>. QED  BY <1>1, <2>1, <2>3, <3>1, <3>2, <3>3, RequestsKept
         DEF WriterInv, Appending, Reached
  <2>9. CASE UNCHANGED vars
    BY <2>9 DEF vars, WriterInv, Appending, Reached, Valid, Follows
  <2>10. ~WriteFrame
    <3>1. WriteFrame => Len(journal') = Len(journal) + 1
      BY WriteFrameJournal
    <3>. QED  BY <1>1, <3>1
  <2>. QED  BY <2>4, <2>5, <2>6, <2>7, <2>8, <2>9, <2>10, StepCases
<1>2. CASE WriteFrame
  <2>1. /\ worker = "appending" /\ Appending /\ Busy
        /\ UNCHANGED <<availability, requests, taken, head>>
    BY <1>2 DEF WriteFrame, Appending, Busy
  <2>2. /\ taken \in 1..Len(requests) /\ requests[taken].kind = "commit"
        /\ availability = "available" /\ taken # TornFrame
    BY <2>1 DEF WriterInv, OrderInv, TornFrame
  <2>3. Written'
    <3>1. \A i \in 1..(Len(journal) + 1) : i \in 1..Len(journal) \/ i = Len(journal) + 1
      OBVIOUS
    <3>. QED  BY <1>2, <2>1, <2>2, <3>1, WriteFrameJournal DEF WriterInv
  <2>. QED  BY <1>2, <2>1, <2>2, <2>3, WriteFrameJournal
       DEF WriterInv, Appending, Reached
<1>3. UNCHANGED journal \/ WriteFrame
  BY StepCases DEF Called, Settled, StartAppend, CancelOwner, Told, vars
<1>. QED  BY <1>1, <1>2, <1>3

-----------------------------------------------------------------------------
(* Promises and answers. *)

\* Every step keeps the held requests without a reply.
LEMMA HeldNext ==
    ASSUME TypeOK, OrderInv, WriterInv, CapacityInv, PromiseInv, [Next]_vars
    PROVE  HeldOpen'
<1> DEFINE n == Len(requests)
<1>0. n \in Nat /\ Len(queue) \in Nat /\ Len(blocked) \in Nat
  BY LenProperties DEF TypeOK
<1>1. ASSUME NEW r \in Requests, Called(r) PROVE HeldOpen'
  <2>1. /\ \A id \in 1..n : requests'[id] = requests[id]
        /\ requests'[n + 1] = r /\ r.promise = "pending"
        /\ n + 1 \in Ids
    BY <1>0, <1>1, AppendRequests DEF Called, Ids
  <2>2. \A id \in 1..n : Open(requests, id) => Open(requests', id)
    BY <2>1 DEF Open
  <2>3. CASE UNCHANGED <<queue, blocked, worker, taken>>
    BY <2>2, <2>3 DEF PromiseInv, HeldOpen, OrderInv, Ascending, Busy
  <2>4. CASE r.told = "nothing"
    <3>1. Open(requests', n + 1)
      BY <2>1, <2>4 DEF Open
    <3>2. CASE Handed
      <4>1. queue' = << >> /\ blocked' = << >> /\ Len(queue') = 0 /\ Len(blocked') = 0
        BY <3>2, EmptySeq DEF Handed, CapacityInv, NoLostWakeup
      <4>. QED  BY <3>1, <3>2, <4>1 DEF Handed, HeldOpen
    <3>3. CASE Queued
      <4>1. /\ Len(queue') = Len(queue) + 1
            /\ \A i \in 1..Len(queue) : queue'[i] = queue[i]
            /\ queue'[Len(queue) + 1] = n + 1
        BY <2>1, <3>3, AppendProperties DEF Queued, TypeOK
      <4>2. \A i \in 1..(Len(queue) + 1) : i \in 1..Len(queue) \/ i = Len(queue) + 1
        BY <1>0
      <4>3. worker # "ended" => \A i \in 1..Len(queue') : Open(requests', queue'[i])
        BY <2>2, <3>1, <4>1, <4>2 DEF PromiseInv, HeldOpen, OrderInv, Ascending
      <4>. QED  BY <2>2, <3>3, <4>3
           DEF Queued, PromiseInv, HeldOpen, OrderInv, Ascending, Busy
    <3>4. CASE Blocks
      <4>1. /\ Len(blocked') = Len(blocked) + 1
            /\ \A i \in 1..Len(blocked) : blocked'[i] = blocked[i]
            /\ blocked'[Len(blocked) + 1] = n + 1
        BY <2>1, <3>4, AppendProperties DEF Blocks, TypeOK
      <4>2. \A i \in 1..(Len(blocked) + 1) : i \in 1..Len(blocked) \/ i = Len(blocked) + 1
        BY <1>0
      <4>3. worker # "ended" => \A i \in 1..Len(blocked') : Open(requests', blocked'[i])
        BY <2>2, <3>1, <4>1, <4>2 DEF PromiseInv, HeldOpen, OrderInv, Ascending
      <4>. QED  BY <2>2, <3>4, <4>3
           DEF Blocks, PromiseInv, HeldOpen, OrderInv, Ascending, Busy
    <3>. QED  BY <1>1, <2>3, <2>4, <3>2, <3>3, <3>4 DEF Called
  <2>. QED  BY <1>1, <2>3, <2>4 DEF Called
<1>2. ASSUME NEW reply \in Promised, NEW left \in Left, Settled(reply, left)
      PROVE HeldOpen'
  <2>1. Busy /\ worker # "ended" /\ taken \in 1..n
    BY <1>2 DEF Settled, Busy, OrderInv
  <2>2. \A id \in 1..n : id # taken /\ Open(requests, id) => Open(requests', id)
    BY <1>2, <2>1, ResolveRequests DEF Settled, Open
  <2>3. /\ \A i \in 1..Len(queue) : Open(requests', queue[i])
        /\ \A i \in 1..Len(blocked) : Open(requests', blocked[i])
    <3>1. /\ \A i \in 1..Len(queue) : queue[i] \in 1..n /\ taken < queue[i] /\ Open(requests, queue[i])
          /\ \A i \in 1..Len(blocked) : blocked[i] \in 1..n /\ taken < blocked[i] /\ Open(requests, blocked[i])
      BY <2>1 DEF OrderInv, Ascending, PromiseInv, HeldOpen
    <3>2. \A id \in 1..n : taken < id => id # taken
      BY <2>1
    <3>3. \A i \in 1..Len(queue) : Open(requests', queue[i])
      BY <2>2, <3>1, <3>2 DEF Open
    <3>4. \A i \in 1..Len(blocked) : Open(requests', blocked[i])
      BY <2>2, <3>1, <3>2 DEF Open
    <3>. QED  BY <3>3, <3>4
  <2>4. CASE Shifted
    <3>1. Len(queue) > 0 /\ (blocked # << >> => Len(blocked) > 0)
      BY <2>4, EmptySeq DEF Shifted, TypeOK
    <3>2. Open(requests', taken')
      BY <1>0, <2>3, <2>4, <3>1 DEF Shifted, Open
    <3>3. \A i \in 1..Len(queue') : \/ \E j \in 1..Len(queue) : queue'[i] = queue[j]
                                   \/ \E j \in 1..Len(blocked) : queue'[i] = blocked[j]
      <4>1. \A i \in 1..(Len(queue) - 1) : i + 1 \in 1..Len(queue)
        BY <1>0
      <4>2. CASE blocked = << >>
        BY <2>4, <4>1, <4>2 DEF Shifted
      <4>3. CASE blocked # << >>
        <5>1. \A i \in 1..Len(queue) : i \in 1..(Len(queue) - 1) \/ i = Len(queue)
          BY <1>0
        <5>2. 1 \in 1..Len(blocked)
          BY <1>0, <3>1, <4>3
        <5>. QED  BY <2>4, <4>1, <4>3, <5>1, <5>2 DEF Shifted
      <4>. QED  BY <4>2, <4>3
    <3>4. \A i \in 1..Len(blocked') : \E j \in 1..Len(blocked) : blocked'[i] = blocked[j]
      <4>1. \A i \in 1..(Len(blocked) - 1) : i + 1 \in 1..Len(blocked)
        BY <1>0
      <4>. QED  BY <2>4, <4>1 DEF Shifted
    <3>5. /\ \A i \in 1..Len(queue') : Open(requests', queue'[i])
          /\ \A i \in 1..Len(blocked') : Open(requests', blocked'[i])
      BY SMTT(60), <2>3, <3>3, <3>4 DEF Open
    <3>. QED  BY <3>2, <3>5 DEF HeldOpen, Open
  <2>5. CASE worker' = "ended"
    BY <2>5 DEF HeldOpen, Busy
  <2>6. CASE worker' = "waiting" /\ UNCHANGED <<queue, blocked>>
    BY <2>3, <2>6 DEF HeldOpen, Busy, Open
  <2>. QED  BY <1>2, <2>4, <2>5, <2>6 DEF Settled, Moves, Stopped, Waits
<1>3. CASE StartAppend \/ WriteFrame \/ CancelOwner
  <2>1. UNCHANGED <<requests, queue, blocked>>
    BY <1>3 DEF StartAppend, WriteFrame, CancelOwner, Stop
  <2>2. /\ Busy' => Busy /\ taken' = taken
        /\ worker' # "ended" => worker # "ended"
    BY <1>3 DEF StartAppend, WriteFrame, CancelOwner, Stop, Busy
  <2>. QED  BY <2>1, <2>2 DEF PromiseInv, HeldOpen, Open
<1>4. ASSUME NEW id \in DOMAIN requests, NEW answer \in Answers, Told(id, answer)
      PROVE HeldOpen'
  <2>1. UNCHANGED <<queue, worker, taken>>
    BY <1>4 DEF Told
  <2>2. \A i \in 1..n : worker # "ended" /\ Open(requests, i) => Open(requests', i)
    BY <1>4, TellRequests DEF Told, Open
  <2>3. \A i \in 1..Len(blocked') : \E j \in 1..Len(blocked) : blocked'[i] = blocked[j]
    <3>1. CASE UNCHANGED blocked
      BY <3>1
    <3>2. ASSUME NEW k \in 1..Len(blocked), Len(blocked') = Len(blocked) - 1,
                 \A j \in 1..(Len(blocked) - 1) :
                    blocked'[j] = IF j < k THEN blocked[j] ELSE blocked[j + 1]
          PROVE  \A i \in 1..Len(blocked') : \E j \in 1..Len(blocked) : blocked'[i] = blocked[j]
      <4>1. \A i \in 1..(Len(blocked) - 1) : i \in 1..Len(blocked) /\ i + 1 \in 1..Len(blocked)
        BY <1>0
      <4>. QED  BY <3>2, <4>1
    <3>3. CASE Unblock(id)
      <4>1. CASE blocked' = blocked
        BY <4>1
      <4>. QED  BY <3>2, <3>3, <4>1, UnblockBlocked
    <3>. QED  BY <1>4, <3>1, <3>3 DEF Told
  <2>4. Busy => worker # "ended"
    BY DEF Busy
  <2>5. worker # "ended" => \A i \in 1..Len(blocked') : Open(requests', blocked'[i])
    BY <2>2, <2>3 DEF PromiseInv, HeldOpen, OrderInv, Ascending, Open
  <2>. QED  BY <2>1, <2>2, <2>4, <2>5 DEF PromiseInv, HeldOpen, OrderInv, Ascending, Busy
<1>5. CASE UNCHANGED vars
  BY <1>5 DEF vars, PromiseInv, HeldOpen, Open, Busy
<1>. QED  BY <1>1, <1>2, <1>3, <1>4, <1>5, StepCases

\* Every step keeps the replies of written transactions settled.
LEMMA SettledNext ==
    ASSUME TypeOK, OrderInv, WriterInv, PromiseInv, [Next]_vars
    PROVE  JournalSettled'
<1>0. Len(journal) \in Nat /\ Len(requests) \in Nat
  BY LenProperties DEF TypeOK
<1>1. \A i \in 1..Len(journal) : journal[i] # TornFrame => journal[i] \in 1..Len(requests)
  BY DEF WriterInv
<1>2. \A i \in 1..Len(journal) : journal[i] # TornFrame =>
         \/ requests[journal[i]].promise \in {"ok", "failed", "raised"}
         \/ journal[i] = taken /\ worker = "appended"
  BY DEF PromiseInv, JournalSettled
<1>3. ASSUME NEW r \in Requests, Called(r) PROVE JournalSettled'
  <2>1. journal' = journal /\ (worker = "appended" => UNCHANGED <<worker, taken>>)
    BY <1>3 DEF Called, Handed, Queued, Blocks
  <2>2. \A id \in 1..Len(requests) : requests'[id] = requests[id]
    BY <1>3, AppendRequests DEF Called
  <2>. QED  BY <1>1, <1>2, <2>1, <2>2 DEF JournalSettled
<1>4. ASSUME NEW reply \in Promised, NEW left \in Left, Settled(reply, left)
      PROVE JournalSettled'
  <2>1. journal' = journal /\ taken \in 1..Len(requests)
        /\ requests[taken].promise = "pending"
    BY <1>4 DEF Settled, OrderInv, PromiseInv, HeldOpen, Open
  <2>2. \A id \in 1..Len(requests) :
          requests'[id].promise = IF id = taken THEN reply ELSE requests[id].promise
    BY <1>4, <2>1, ResolveRequests DEF Settled
  <2>3. worker = "appended" => reply \in {"ok", "failed", "raised"}
    BY <1>4 DEF Settled, Promised, Promises
  <2>. QED  BY <1>1, <1>2, <2>1, <2>2, <2>3 DEF JournalSettled
<1>5. CASE StartAppend \/ CancelOwner
  BY <1>5, <1>2 DEF StartAppend, CancelOwner, Stop, JournalSettled
<1>6. CASE WriteFrame
  <2>1. worker # "appended" /\ taken' = taken /\ requests' = requests
    BY <1>6 DEF WriteFrame
  <2>2. \A i \in 1..(Len(journal) + 1) : i \in 1..Len(journal) \/ i = Len(journal) + 1
    BY <1>0
  <2>. QED  BY <1>2, <1>6, <2>1, <2>2, WriteFrameJournal DEF JournalSettled
<1>7. ASSUME NEW id \in DOMAIN requests, NEW answer \in Answers, Told(id, answer)
      PROVE JournalSettled'
  <2>1. UNCHANGED <<journal, worker, taken>>
    BY <1>7 DEF Told
  <2>2. \A i \in 1..Len(requests) : requests'[i].promise = requests[i].promise
    BY <1>7, TellRequests DEF Told
  <2>. QED  BY <1>1, <1>2, <2>1, <2>2 DEF JournalSettled
<1>8. CASE UNCHANGED vars
  BY <1>2, <1>8 DEF vars, JournalSettled
<1>. QED  BY <1>3, <1>4, <1>5, <1>6, <1>7, <1>8, StepCases

\* Every step keeps the answers consistent with promises and journal.
LEMMA AnswersNext ==
    ASSUME TypeOK, OrderInv, WriterInv, PromiseInv, [Next]_vars
    PROVE  AnswersFollow'
<1>0. Len(journal) \in Nat /\ Len(requests) \in Nat
  BY LenProperties DEF TypeOK
<1> DEFINE Exact(rs, id, w) ==
        rs[id].kind = "commit" =>
          /\ rs[id].told = "ok" => rs[id].promise = "ok"
          /\ rs[id].told = "refused" => rs[id].promise \in {"pending", "refused"}
          /\ rs[id].told = "closed" => w = "ended" /\ rs[id].promise = "pending"
<1> DEFINE Journalled(rs, id, j) ==
        rs[id].kind = "commit" /\ rs[id].promise = "ok" =>
          \E i \in 1..Len(j) : j[i] = id
<1>1. \A id \in 1..Len(requests) :
        Exact(requests, id, worker) /\ Journalled(requests, id, journal)
  BY DEF PromiseInv, AnswersFollow
<1>2. SUFFICES \A id \in 1..Len(requests') :
        Exact(requests', id, worker') /\ Journalled(requests', id, journal')
  BY DEF AnswersFollow
<1>3. ASSUME NEW r \in Requests, Called(r), NEW id \in 1..Len(requests')
      PROVE Exact(requests', id, worker') /\ Journalled(requests', id, journal')
  <2>1. journal' = journal /\ (worker = "ended" => worker' = worker)
    BY <1>3 DEF Called, Handed, Queued, Blocks
  <2>2. /\ \A i \in 1..Len(requests) : requests'[i] = requests[i]
        /\ id \in 1..Len(requests) \/ id = Len(requests) + 1
        /\ requests'[Len(requests) + 1] = r
    BY <1>0, <1>3, AppendRequests DEF Called
  <2>3. /\ r.promise = "pending"
        /\ \/ r.told \in {"nothing", "refused"}
           \/ r.told = "closed" /\ r.kind = "close"
    BY <1>3 DEF Called
  <2>. QED  BY <1>1, <2>1, <2>2, <2>3
<1>4. ASSUME NEW reply \in Promised, NEW left \in Left, Settled(reply, left),
             NEW id \in 1..Len(requests')
      PROVE Exact(requests', id, worker') /\ Journalled(requests', id, journal')
  <2>1. /\ journal' = journal /\ taken \in 1..Len(requests) /\ worker # "ended"
        /\ requests[taken].told \in {"nothing", "cancelled"}
    BY <1>4 DEF Settled, Busy, OrderInv, PromiseInv, HeldOpen, Open
  <2>2. /\ Len(requests') = Len(requests)
        /\ requests'[id].kind = requests[id].kind
        /\ requests'[id].told = requests[id].told
        /\ requests'[id].promise = IF id = taken THEN reply ELSE requests[id].promise
    BY <1>4, <2>1, ResolveRequests DEF Settled
  <2>3. CASE id # taken
    BY <1>1, <2>1, <2>2, <2>3
  <2>4. CASE id = taken
    <3>1. Exact(requests', id, worker')
      BY <2>1, <2>2, <2>4
    <3>2. ASSUME reply = "ok", requests[taken].kind = "commit"
          PROVE \E i \in 1..Len(journal) : journal[i] = id
      <4>1. worker = "appended"
        BY <1>4, <3>2 DEF Settled, Finish
      <4>2. journal # << >> /\ journal[Len(journal)] = taken
        BY <4>1 DEF WriterInv
      <4>3. Len(journal) \in 1..Len(journal)
        BY <1>0, <4>2, EmptySeq DEF TypeOK
      <4>. QED  BY <2>4, <4>2, <4>3
    <3>. QED  BY <2>1, <2>2, <2>4, <3>1, <3>2
  <2>. QED  BY <2>3, <2>4
<1>5. CASE StartAppend \/ CancelOwner
  BY <1>1, <1>5 DEF StartAppend, CancelOwner, Stop
<1>6. CASE WriteFrame
  <2>1. /\ worker # "ended" /\ requests' = requests
        /\ \A i \in 1..Len(journal) : i \in 1..Len(journal') /\ journal'[i] = journal[i]
    BY <1>0, <1>6, WriteFrameJournal DEF WriteFrame
  <2>. QED  BY <1>1, <2>1
<1>7. ASSUME NEW x \in DOMAIN requests, NEW answer \in Answers, Told(x, answer),
             NEW id \in 1..Len(requests')
      PROVE Exact(requests', id, worker') /\ Journalled(requests', id, journal')
  <2>1. UNCHANGED <<journal, worker>>
    BY <1>7 DEF Told
  <2>2. /\ Len(requests') = Len(requests)
        /\ requests'[id].kind = requests[id].kind
        /\ requests'[id].promise = requests[id].promise
        /\ requests'[id].told = IF id = x THEN answer ELSE requests[id].told
    BY <1>7, TellRequests DEF Told
  <2>3. requests[id].promise \in Promises
    BY <2>2, RequestType DEF Requests
  <2>4. \/ answer = requests[x].promise
        \/ answer = "closed" /\ requests[x].promise = "pending" /\ worker = "ended"
        \/ answer = "cancelled"
    BY <1>7 DEF Told
  <2>. QED  BY <1>1, <2>1, <2>2, <2>3, <2>4 DEF Promises
<1>8. CASE UNCHANGED vars
  BY <1>1, <1>8 DEF vars
<1>. QED  BY <1>3, <1>4, <1>5, <1>6, <1>7, <1>8, StepCases

-----------------------------------------------------------------------------
(* The theorems. *)

\* The invariant holds of a new writer.
LEMMA InvInit == Init => Inv
<1>. SUFFICES ASSUME Init PROVE Inv
  OBVIOUS
<1>1. TypeOK
  BY TypeInit
<1>2. /\ Len(queue) = 0 /\ Len(blocked) = 0 /\ Len(requests) = 0 /\ Len(journal) = 0
      /\ DOMAIN journal = {} /\ journal = << >>
  BY EmptySeq, LenProperties DEF Init
<1>3. worker = "waiting" /\ availability = "available" /\ head = Start
      /\ queue = << >> /\ blocked = << >>
  BY DEF Init
<1>4. OrderInv
  BY <1>2, <1>3 DEF OrderInv, Ascending, Busy
<1>5. WriterInv
  BY <1>2, <1>3 DEF WriterInv, Follows, Appending, Reached
<1>6. JournalChain
  BY <1>2 DEF JournalChain
<1>7. PromiseInv
  BY <1>2, <1>3 DEF PromiseInv, HeldOpen, JournalSettled, AnswersFollow, Busy
<1>8. CapacityInv
  BY <1>2, <1>3, CapacityAssumption DEF CapacityInv, NoLostWakeup
<1>. QED  BY <1>1, <1>4, <1>5, <1>6, <1>7, <1>8 DEF Inv

\* Every step preserves the invariant.
LEMMA InvNext == Inv /\ [Next]_vars => Inv'
<1>. SUFFICES ASSUME Inv, [Next]_vars PROVE Inv'
  OBVIOUS
<1>. USE DEF Inv
<1>1. TypeOK'
  BY TypeNext
<1>2. OrderInv' /\ CapacityInv'
  BY OrderNext, CapacityNext
<1>3. WriterInv' /\ JournalChain'
  BY WriterNext, ChainNext
<1>4. PromiseInv'
  BY HeldNext, SettledNext, AnswersNext DEF PromiseInv
<1>. QED  BY <1>1, <1>2, <1>3, <1>4

\* The inductive invariant holds in every reachable state.
THEOREM Invariance == Spec => []Inv
BY InvInit, InvNext, PTL DEF Spec

\* Every field of the writer and of its requests keeps its type.
THEOREM TypeCorrect == Spec => []TypeOK
<1>1. Inv => TypeOK
  BY DEF Inv
<1>. QED  BY <1>1, Invariance, PTL

\* The journal is one chain, for any number of calls in any order and whatever
\* appends fail: an append follows only a whole frame the worker's head names.
THEOREM ChainCorrect == Spec => []JournalChain
<1>1. Inv => JournalChain
  BY DEF Inv
<1>. QED  BY <1>1, Invariance, PTL

\* No call is lost between a full queue and an idle worker.
THEOREM WakeupCorrect == Spec => []NoLostWakeup
<1>1. Inv => NoLostWakeup
  BY DEF Inv, CapacityInv
<1>. QED  BY <1>1, Invariance, PTL

\* Success, refusal and closure tell a caller exactly whether its transaction
\* is in the journal, also when the worker's end races the reply.
THEOREM AnswersCorrect == Spec => []AnswersAreExact
<1>1. Inv => AnswersAreExact
  <2>. SUFFICES ASSUME Inv, NEW id \in DOMAIN requests, requests[id].kind = "commit"
                PROVE /\ requests[id].told = "ok" => \E i \in DOMAIN journal : journal[i] = id
                      /\ requests[id].told \in {"refused", "closed"} =>
                           ~\E i \in DOMAIN journal : journal[i] = id
    BY DEF AnswersAreExact
  <2>1. DOMAIN requests = 1..Len(requests) /\ DOMAIN journal = 1..Len(journal)
        /\ Len(requests) \in Nat
    BY LenProperties DEF Inv, TypeOK
  <2>2. requests[id].told = "ok" => \E i \in DOMAIN journal : journal[i] = id
    BY <2>1 DEF Inv, PromiseInv, AnswersFollow
  <2>3. ASSUME requests[id].told \in {"refused", "closed"},
               NEW i \in DOMAIN journal, journal[i] = id
        PROVE FALSE
    <3>1. requests[id].promise \in {"pending", "refused"}
      BY <2>1, <2>3 DEF Inv, PromiseInv, AnswersFollow
    <3>2. id # TornFrame
      BY <2>1 DEF TornFrame
    <3>3. id = taken /\ worker = "appended"
      BY <2>1, <2>3, <3>1, <3>2 DEF Inv, PromiseInv, JournalSettled
    <3>. QED  BY <2>3, <3>3 DEF Inv, PromiseInv, HeldOpen, Open, Busy
  <2>. QED  BY <2>2, <2>3
<1>. QED  BY <1>1, Invariance, PTL

\* A writer that stopped being available never appends again.
THEOREM UnavailabilityCorrect == Spec => UnavailabilityIsFinal
<1> DEFINE Final == availability # "available" =>
                      availability' # "available" /\ journal' = journal
<1>1. Inv /\ [Next]_vars => [Final]_vars
  <2>. SUFFICES ASSUME Inv, Next, availability # "available"
                PROVE availability' # "available" /\ journal' = journal
    OBVIOUS
  <2>1. ~Appending
    BY DEF Inv, WriterInv
  <2>2. ASSUME NEW reply \in Promised, NEW left \in Left, Settled(reply, left)
        PROVE availability' # "available" /\ journal' = journal
    BY <2>1, <2>2 DEF Settled, Finish, Moves, Shifted, Stopped, Waits, Appending
  <2>3. ~WriteFrame
    BY <2>1 DEF WriteFrame, Appending
  <2>. QED  BY <2>2, <2>3, StepCases
       DEF Inv, Called, StartAppend, CancelOwner, Stop, Told
<1>. QED  BY <1>1, Invariance, PTL DEF Spec, UnavailabilityIsFinal

-----------------------------------------------------------------------------
(* The stream of an attached client. *)

\* What both ends hold of a connection, as far as the proof needs it.
ConnFields == {"server", "open", "request", "after", "through", "reply", "registered",
               "subscriber", "queue", "overflow", "wire"}

Connection(k) ==
  /\ DOMAIN k = ConnFields
  /\ k.wire \in Seq(Nat) /\ k.queue \in Seq(Nat) /\ k.through \in Nat
  /\ {k.open, k.overflow} \subseteq BOOLEAN

StreamTyped ==
  /\ DOMAIN conn = Connections /\ \A c \in Connections : Connection(conn[c])
  /\ current \in Connections /\ latest \in Nat /\ cursor \in Nat /\ closed \in BOOLEAN

\* One connection is open: the current one, unless the monitor waits or has ended.
OpenInv ==
  /\ \A c \in Connections : conn[c].open => c = current
  /\ conn[current].open => phase \in {"attached", "broken", "attaching"}
  /\ conn[current].open /\ closed => phase = "attaching"

\* An attach that was sent has no subscriber yet.
RequestInv ==
  /\ phase = "attached" => conn[current].request \in {"answered", "lost"}
  /\ phase = "attaching" => conn[current].request \in {"sent", "attached", "answered", "lost"}
  /\ phase = "attaching" /\ conn[current].request = "sent" =>
       /\ conn[current].wire = << >> /\ conn[current].queue = << >>
       /\ conn[current].overflow = FALSE /\ conn[current].subscriber = "none"
       /\ conn[current].registered = FALSE

\* What the wire and the subscriber's queue of k hold, from an event on to the last.
Goes(k, base, last) ==
  LET marked == \E i \in DOMAIN k.wire : k.wire[i] = Attachment!StreamError IN
  /\ \A i \in DOMAIN k.wire :
       k.wire[i] = base + i \/ (k.wire[i] = Attachment!StreamError /\ i = Len(k.wire))
  /\ marked => k.subscriber # "live"
  /\ k.server = "open" /\ ~marked =>
       /\ k.subscriber = "live"
       /\ \A i \in DOMAIN k.queue : k.queue[i] = base + Len(k.wire) + i
       /\ k.overflow => ~(Len(k.queue) < SubscriberCapacity)
       /\ k.overflow \/ base + Len(k.wire) + Len(k.queue) = last

\* Where the client is or will be when it has the reply.
Base == IF phase = "attached" THEN cursor ELSE conn[current].through

Subscribed ==
  /\ phase \in {"attached", "attaching"} /\ conn[current].open
  /\ phase = "attaching" => conn[current].request \in {"attached", "answered"}

StreamInv == Subscribed => Goes(conn[current], Base, latest)

AttachmentInv == StreamTyped /\ OpenInv /\ RequestInv /\ StreamInv

LEMMA AttachmentInit == Attachment!Init => AttachmentInv
<1> SUFFICES ASSUME Attachment!Init PROVE AttachmentInv
  OBVIOUS
<1>1. /\ Connection(Attachment!Unused) /\ Attachment!Unused.open = FALSE
  BY DEF Connection, Attachment!Unused, ConnFields
<1>2. Connection(conn[1])
  <2>1. conn[1] = [Attachment!Unused EXCEPT !.server = "open", !.open = TRUE,
                                            !.request = "answered",
                                            !.registered = TRUE, !.subscriber = "live"]
    BY ConnectionsAssumption DEF Attachment!Init
  <2> QED BY <1>1, <2>1 DEF Connection, ConnFields
<1>3. /\ conn[1].wire = << >> /\ conn[1].queue = << >> /\ conn[1].request = "answered"
      /\ conn[1].subscriber = "live" /\ conn[1].overflow = FALSE
  BY ConnectionsAssumption DEF Attachment!Init, Attachment!Unused
<1>4. \A c \in Connections \ {1} : conn[c] = Attachment!Unused
  BY DEF Attachment!Init
<1>5. /\ current = 1 /\ phase = "attached" /\ latest = 0 /\ cursor = 0 /\ closed = FALSE
      /\ DOMAIN conn = Connections
  BY DEF Attachment!Init
<1>6. StreamTyped
  BY <1>1, <1>2, <1>4, <1>5, ConnectionsAssumption DEF StreamTyped
<1>7. OpenInv
  BY <1>1, <1>4, <1>5 DEF OpenInv
<1>8. RequestInv
  BY <1>3, <1>5 DEF RequestInv
<1>9. Goes(conn[1], 0, 0)
  BY <1>3, <1>5 DEF Goes
<1> QED BY <1>5, <1>6, <1>7, <1>8, <1>9 DEF AttachmentInv, StreamInv, Base

\* The server touches one connection: what it holds of the others is as it was.
LEMMA ServerTouches ==
  ASSUME AttachmentInv, UNCHANGED <<latest, Attachment!client>>, NEW c \in Connections,
         DOMAIN conn' = Connections, \A d \in Connections \ {c} : conn'[d] = conn[d],
         Connection(conn'[c]), conn'[c].open = conn[c].open,
         c = current => RequestInv' /\ StreamInv'
  PROVE  AttachmentInv'
<1>1. UNCHANGED <<latest, phase, current, cursor, closed>>
  BY DEF Attachment!client
<1>2. StreamTyped'
  <2>1. \A d \in Connections : Connection(conn'[d])
    BY DEF AttachmentInv, StreamTyped
  <2> QED BY <1>1, <2>1 DEF AttachmentInv, StreamTyped
<1>3. OpenInv'
  <2>1. \A d \in Connections : conn'[d].open = conn[d].open
    OBVIOUS
  <2>2. current \in Connections
    BY DEF AttachmentInv, StreamTyped
  <2> QED BY <1>1, <2>1, <2>2 DEF AttachmentInv, OpenInv
<1>4. CASE c # current
  <2>1. conn'[current] = conn[current]
    BY <1>4 DEF AttachmentInv, StreamTyped
  <2>2. RequestInv'
    BY <1>1, <2>1 DEF AttachmentInv, RequestInv
  <2>3. StreamInv'
    BY <1>1, <2>1 DEF AttachmentInv, StreamInv, Subscribed, Base, Goes
  <2> QED BY <1>2, <1>3, <2>2, <2>3 DEF AttachmentInv
<1>5. CASE c = current
  BY <1>2, <1>3, <1>5 DEF AttachmentInv
<1> QED BY <1>4, <1>5

\* The current connection, typed.
LEMMA CurrentTyped == ASSUME AttachmentInv, NEW c \in Connections
  PROVE /\ DOMAIN conn = Connections /\ DOMAIN conn[c] = ConnFields
        /\ conn[c].wire \in Seq(Nat) /\ conn[c].queue \in Seq(Nat) /\ conn[c].through \in Nat
        /\ {conn[c].open, conn[c].overflow} \subseteq BOOLEAN
        /\ Base \in Nat /\ latest \in Nat /\ current \in Connections
BY DEF AttachmentInv, StreamTyped, Connection, Base

\* A subscriber begins with nothing, at the session's last event.
LEMMA AttachKeeps == ASSUME AttachmentInv, NEW c \in Connections, Attachment!Attach(c)
  PROVE  AttachmentInv'
<1> DEFINE k == conn[c]
<1>1. /\ k.request = "sent" /\ UNCHANGED <<latest, Attachment!client>>
      /\ conn' = [conn EXCEPT ![c].request = "attached", ![c].through = latest,
                              ![c].subscriber = "live"]
  BY DEF Attachment!Attach
<1>2. DOMAIN k = ConnFields /\ DOMAIN conn = Connections /\ latest \in Nat
  BY CurrentTyped
<1>3. PICK n : n = [k EXCEPT !.request = "attached", !.through = latest, !.subscriber = "live"]
  OBVIOUS
<1>4. /\ DOMAIN conn' = Connections /\ \A d \in Connections \ {c} : conn'[d] = conn[d]
      /\ conn'[c] = n
  BY <1>1, <1>2, <1>3
<1>5. /\ DOMAIN n = ConnFields /\ n.request = "attached" /\ n.through = latest /\ n.subscriber = "live"
      /\ n.wire = k.wire /\ n.queue = k.queue /\ n.overflow = k.overflow /\ n.open = k.open
  BY <1>2, <1>3 DEF ConnFields
<1>6. Connection(n)
  BY <1>2, <1>5, CurrentTyped DEF Connection
<1>7. ASSUME c = current PROVE RequestInv' /\ StreamInv'
  <2>1. UNCHANGED <<phase, current, cursor, latest>>
    BY <1>1 DEF Attachment!client
  <2>2. phase # "attached"
    BY <1>1, <1>7 DEF AttachmentInv, RequestInv
  <2>3. RequestInv'
    BY <1>4, <1>5, <1>7, <2>1, <2>2 DEF RequestInv
  <2>4. phase = "attaching" => Goes(n, latest, latest)
    <3> SUFFICES ASSUME phase = "attaching" PROVE Goes(n, latest, latest)
      OBVIOUS
    <3>1. k.wire = << >> /\ k.queue = << >> /\ k.overflow = FALSE
      BY <1>1, <1>7 DEF AttachmentInv, RequestInv
    <3>2. n.wire = << >> /\ n.queue = << >> /\ n.overflow = FALSE
      BY <1>5, <3>1
    <3> HIDE DEF k
    <3> QED BY <1>2, <1>5, <3>2 DEF Goes
  <2>5. StreamInv'
    BY <1>4, <1>5, <1>7, <2>1, <2>2, <2>4 DEF StreamInv, Subscribed, Base
  <2> QED BY <2>3, <2>5
<1> QED BY <1>1, <1>4, <1>5, <1>6, <1>7, ServerTouches

\* The answer changes nothing the stream depends on.
LEMMA AnswerKeeps == ASSUME AttachmentInv, NEW c \in Connections, Attachment!Answer(c)
  PROVE  AttachmentInv'
<1> DEFINE k == conn[c]
<1>1. k.request = "attached" /\ UNCHANGED <<latest, Attachment!client>>
  BY DEF Attachment!Answer, Attachment!session
<1>2. DOMAIN k = ConnFields /\ DOMAIN conn = Connections
  BY CurrentTyped
<1>3. PICK reply :
        conn' = [conn EXCEPT ![c].request = "answered", ![c].registered = TRUE, ![c].reply = reply]
  BY DEF Attachment!Answer
<1>4. PICK n : n = [k EXCEPT !.request = "answered", !.registered = TRUE, !.reply = reply]
  OBVIOUS
<1>5. /\ DOMAIN conn' = Connections /\ \A d \in Connections \ {c} : conn'[d] = conn[d]
      /\ conn'[c] = n
  BY <1>2, <1>3, <1>4
<1>6. /\ DOMAIN n = ConnFields /\ n.request = "answered" /\ n.through = k.through
      /\ n.subscriber = k.subscriber /\ n.wire = k.wire /\ n.queue = k.queue
      /\ n.overflow = k.overflow /\ n.open = k.open /\ n.server = k.server
  BY <1>2, <1>4 DEF ConnFields
<1>7. Connection(n)
  BY <1>2, <1>6, CurrentTyped DEF Connection
<1>8. ASSUME c = current PROVE RequestInv' /\ StreamInv'
  <2>1. UNCHANGED <<phase, current, cursor, latest>>
    BY <1>1 DEF Attachment!client
  <2>2. RequestInv'
    BY <1>5, <1>6, <1>8, <2>1 DEF AttachmentInv, RequestInv
  <2>3. \A base, last : Goes(k, base, last) => Goes(n, base, last)
    BY <1>6 DEF Goes
  <2>4. StreamInv'
    BY <1>1, <1>5, <1>6, <1>8, <2>1, <2>3 DEF AttachmentInv, StreamInv, Subscribed, Base
  <2> QED BY <2>2, <2>4
<1> QED BY <1>1, <1>5, <1>6, <1>7, <1>8, ServerTouches

\* A sequence and one more item.
LEMMA AppendFacts ==
  ASSUME NEW s \in Seq(Nat), NEW x \in Nat, NEW t, t = Append(s, x)
  PROVE  /\ t \in Seq(Nat) /\ Len(s) \in Nat /\ Len(t) = Len(s) + 1
         /\ DOMAIN s = 1..Len(s) /\ DOMAIN t = 1..(Len(s) + 1)
         /\ \A i \in 1..Len(s) : t[i] = s[i]
         /\ t[Len(s) + 1] = x
OBVIOUS

\* A sequence without its first item.
LEMMA TailFacts ==
  ASSUME NEW s \in Seq(Nat), s # << >>, NEW t, t = Tail(s)
  PROVE  /\ t \in Seq(Nat) /\ Len(s) \in Nat \ {0} /\ Len(t) = Len(s) - 1
         /\ DOMAIN s = 1..Len(s) /\ DOMAIN t = 1..(Len(s) - 1)
         /\ \A i \in 1..(Len(s) - 1) : t[i] = s[i + 1]
         /\ Head(s) = s[1] /\ Head(s) \in Nat
OBVIOUS

\* What a full or a broken connection does not take is left out.
LEMMA PushedKeeps ==
  ASSUME NEW k, Connection(k), NEW item \in Nat
  PROVE  /\ Connection(Attachment!Pushed(k, item))
         /\ Attachment!Pushed(k, item).open = k.open
         /\ Attachment!Pushed(k, item).request = k.request
         /\ Attachment!Pushed(k, item).through = k.through
         /\ Attachment!Pushed(k, item).subscriber = k.subscriber
         /\ Attachment!Pushed(k, item).queue = k.queue
         /\ Attachment!Pushed(k, item).overflow = k.overflow
<1>1. CASE k.server # "open" \/ ~k.open
  BY <1>1 DEF Attachment!Pushed
<1>2. CASE k.server = "open" /\ k.open /\ Len(k.wire) < Outgoing
  <2>1. PICK p : p = [k EXCEPT !.wire = Append(@, item)]
    OBVIOUS
  <2>2. /\ DOMAIN p = ConnFields /\ p.wire = Append(k.wire, item) /\ p.open = k.open
        /\ p.request = k.request /\ p.through = k.through /\ p.subscriber = k.subscriber
        /\ p.queue = k.queue /\ p.overflow = k.overflow
    BY <2>1 DEF Connection, ConnFields
  <2>3. Append(k.wire, item) \in Seq(Nat)
    BY AppendFacts DEF Connection
  <2>4. Connection(p)
    BY <2>2, <2>3 DEF Connection
  <2>5. Attachment!Pushed(k, item) = p
    BY <1>2, <2>1 DEF Attachment!Pushed
  <2> QED BY <2>2, <2>4, <2>5
<1>3. CASE k.server = "open" /\ k.open /\ ~(Len(k.wire) < Outgoing)
  <2>1. PICK p : p = [k EXCEPT !.server = "closing"]
    OBVIOUS
  <2>2. /\ DOMAIN p = ConnFields /\ p.wire = k.wire /\ p.open = k.open
        /\ p.request = k.request /\ p.through = k.through /\ p.subscriber = k.subscriber
        /\ p.queue = k.queue /\ p.overflow = k.overflow
    BY <2>1 DEF Connection, ConnFields
  <2>3. Connection(p)
    BY <2>2 DEF Connection
  <2>4. Attachment!Pushed(k, item) = p
    BY <1>3, <2>1 DEF Attachment!Pushed
  <2> QED BY <2>2, <2>3, <2>4
<1> QED BY <1>1, <1>2, <1>3

\* An open connection takes one more item, or is closed.
LEMMA PushedWire ==
  ASSUME NEW k, Connection(k), k.open, NEW item \in Nat
  PROVE  \/ Attachment!Pushed(k, item).server # "open" /\ Attachment!Pushed(k, item).wire = k.wire
         \/ /\ k.server = "open" /\ Attachment!Pushed(k, item).server = "open"
            /\ Attachment!Pushed(k, item).wire = Append(k.wire, item)
<1>1. CASE k.server # "open"
  BY <1>1 DEF Attachment!Pushed
<1>2. CASE k.server = "open" /\ Len(k.wire) < Outgoing
  <2>1. Attachment!Pushed(k, item) = [k EXCEPT !.wire = Append(@, item)]
    BY <1>2 DEF Attachment!Pushed
  <2> QED BY <1>2, <2>1 DEF Connection, ConnFields
<1>3. CASE k.server = "open" /\ ~(Len(k.wire) < Outgoing)
  <2>1. Attachment!Pushed(k, item) = [k EXCEPT !.server = "closing"]
    BY <1>3 DEF Attachment!Pushed
  <2> QED BY <1>3, <2>1 DEF Connection, ConnFields
<1> QED BY <1>1, <1>2, <1>3

\* A subscriber that is closed holds nothing.
LEMMA UnsubscribedKeeps ==
  ASSUME NEW k, Connection(k)
  PROVE  /\ Connection(Attachment!Unsubscribed(k))
         /\ Attachment!Unsubscribed(k).open = k.open
         /\ Attachment!Unsubscribed(k).request = k.request
         /\ Attachment!Unsubscribed(k).through = k.through
         /\ Attachment!Unsubscribed(k).wire = k.wire
         /\ Attachment!Unsubscribed(k).server = k.server
         /\ Attachment!Unsubscribed(k).subscriber = "closed"
<1>1. PICK u : u = Attachment!Unsubscribed(k)
  OBVIOUS
<1>2. /\ DOMAIN u = ConnFields /\ u.wire = k.wire /\ u.server = k.server /\ u.open = k.open
      /\ u.request = k.request /\ u.through = k.through /\ u.subscriber = "closed"
      /\ u.queue = << >> /\ u.overflow = FALSE
  BY <1>1 DEF Attachment!Unsubscribed, Connection, ConnFields
<1>3. << >> \in Seq(Nat)
  OBVIOUS
<1>4. Connection(u)
  BY <1>2, <1>3 DEF Connection
<1> QED BY <1>1, <1>2, <1>4

\* A stream that is over ends where it was.
LEMMA StreamStops ==
  ASSUME NEW k, NEW base, NEW last, NEW later, Goes(k, base, last), NEW n, n.wire = k.wire,
         n.server # "open", n.subscriber \in {k.subscriber, "closed"}
  PROVE  Goes(n, base, later)
BY DEF Goes

\* The mark ends what goes on the wire.
LEMMA MarkGoes ==
  ASSUME NEW k, Connection(k), NEW base \in Nat, NEW last, Goes(k, base, last),
         k.subscriber = "live", k.open
  PROVE  Goes(Attachment!Pushed(Attachment!Unsubscribed(k), Attachment!StreamError), base, last)
<1>1. PICK u, n : u = Attachment!Unsubscribed(k) /\ n = Attachment!Pushed(u, Attachment!StreamError)
  OBVIOUS
<1>2. /\ Connection(u) /\ u.open /\ u.wire = k.wire /\ u.subscriber = "closed"
  BY <1>1, UnsubscribedKeeps
<1>3. Attachment!StreamError \in Nat
  BY DEF Attachment!StreamError
<1>4. n.subscriber = "closed"
  BY <1>1, <1>2, <1>3, PushedKeeps
<1>5. \/ n.server # "open" /\ n.wire = k.wire
      \/ n.wire = Append(k.wire, Attachment!StreamError)
  BY <1>1, <1>2, <1>3, PushedWire
<1>6. CASE n.server # "open" /\ n.wire = k.wire
  BY <1>1, <1>4, <1>6, StreamStops
<1>7. CASE n.wire = Append(k.wire, Attachment!StreamError)
  <2>1. PICK w, t : w \in Seq(Nat) /\ w = k.wire /\ t = n.wire /\ t = Append(w, Attachment!StreamError)
    BY <1>7 DEF Connection
  <2>2. /\ Len(t) = Len(w) + 1 /\ DOMAIN t = 1..(Len(w) + 1) /\ DOMAIN w = 1..Len(w) /\ Len(w) \in Nat
        /\ \A i \in 1..Len(w) : t[i] = w[i]
        /\ t[Len(w) + 1] = Attachment!StreamError
    BY <1>3, <2>1, AppendFacts
  <2>3. \A i \in DOMAIN w : w[i] = base + i
    BY <2>1 DEF Goes
  <2>4. \A i \in DOMAIN t : t[i] = base + i \/ (t[i] = Attachment!StreamError /\ i = Len(t))
    BY <2>2, <2>3
  <2>5. \E i \in DOMAIN t : t[i] = Attachment!StreamError
    BY <2>2
  <2> QED BY <1>1, <1>4, <2>1, <2>4, <2>5 DEF Goes
<1> QED BY <1>5, <1>6, <1>7

\* The next event goes where the last one ended.
LEMMA EventGoes ==
  ASSUME NEW k, Connection(k), NEW base \in Nat, NEW last, Goes(k, base, last),
         k.subscriber = "live", ~k.overflow, k.queue # << >>, k.open,
         NEW u, u = [k EXCEPT !.queue = Tail(@)]
  PROVE  Connection(u) /\ Goes(Attachment!Pushed(u, Head(k.queue)), base, last)
<1>1. PICK w, q, rest, h :
        /\ w \in Seq(Nat) /\ q \in Seq(Nat)
        /\ w = k.wire /\ q = k.queue /\ q # << >> /\ rest = Tail(q) /\ h = Head(q)
  BY DEF Connection
<1>2. /\ rest \in Seq(Nat) /\ Len(q) \in Nat \ {0} /\ Len(rest) = Len(q) - 1
      /\ DOMAIN q = 1..Len(q) /\ DOMAIN rest = 1..(Len(q) - 1)
      /\ \A i \in 1..(Len(q) - 1) : rest[i] = q[i + 1]
      /\ h = q[1] /\ h \in Nat
  BY <1>1, TailFacts
<1>3. /\ DOMAIN u = ConnFields /\ u.wire = w /\ u.server = k.server /\ u.open = k.open
      /\ u.through = k.through /\ u.subscriber = "live" /\ u.queue = rest /\ u.overflow = FALSE
  BY <1>1 DEF Connection, ConnFields
<1>4. Connection(u)
  BY <1>1, <1>2, <1>3 DEF Connection
<1>5. PICK n : n = Attachment!Pushed(u, h)
  OBVIOUS
<1>6. n.subscriber = "live" /\ n.queue = rest /\ n.overflow = FALSE
  BY ZenonT(60), <1>2, <1>3, <1>4, <1>5, PushedKeeps
<1>7. \/ n.server # "open" /\ n.wire = w
      \/ k.server = "open" /\ n.wire = Append(w, h)
  <2>1. u.open
    BY <1>3
  <2>2. \/ n.server # "open" /\ n.wire = u.wire
        \/ u.server = "open" /\ n.wire = Append(u.wire, h)
    BY <1>2, <1>4, <1>5, <2>1, PushedWire
  <2> QED BY <1>3, <2>2
<1>8. (\A i \in DOMAIN w : w[i] = base + i) /\ ~\E i \in DOMAIN w : w[i] = Attachment!StreamError
  BY <1>1 DEF Goes
<1>9. CASE n.server # "open" /\ n.wire = w
  <2>1. Goes(n, base, last)
    BY <1>8, <1>9 DEF Goes
  <2> QED BY <1>1, <1>4, <1>5, <2>1
<1>10. CASE k.server = "open" /\ n.wire = Append(w, h)
  <2>1. PICK t : t = n.wire /\ t = Append(w, h)
    BY <1>10
  <2>2. /\ Len(t) = Len(w) + 1 /\ DOMAIN t = 1..(Len(w) + 1) /\ DOMAIN w = 1..Len(w) /\ Len(w) \in Nat
        /\ \A i \in 1..Len(w) : t[i] = w[i]
        /\ t[Len(w) + 1] = h
    BY <1>2, <2>1, AppendFacts
  <2>3. /\ \A i \in DOMAIN q : q[i] = base + Len(w) + i
        /\ base + Len(w) + Len(q) = last
    BY <1>1, <1>8, <1>10 DEF Goes
  <2>4. h = base + Len(w) + 1
    <3>1. 1 \in DOMAIN q
      BY <1>2
    <3> QED BY <1>2, <2>3, <3>1
  <2>5. \A i \in DOMAIN t : t[i] = base + i
    <3> SUFFICES ASSUME NEW i \in 1..(Len(w) + 1) PROVE t[i] = base + i
      BY <2>2
    <3>1. CASE i \in 1..Len(w)
      BY <1>8, <2>2, <3>1
    <3>2. CASE i = Len(w) + 1
      BY <2>2, <2>4, <3>2
    <3> QED BY <2>2, <3>1, <3>2
  <2>6. ~\E i \in DOMAIN t : t[i] = Attachment!StreamError
    BY <2>2, <2>5 DEF Attachment!StreamError
  <2>7. \A i \in DOMAIN rest : rest[i] = base + Len(t) + i
    <3> SUFFICES ASSUME NEW i \in 1..(Len(q) - 1) PROVE rest[i] = base + Len(t) + i
      BY <1>2
    <3>1. rest[i] = q[i + 1] /\ i + 1 \in DOMAIN q
      BY <1>2
    <3>2. q[i + 1] = base + Len(w) + (i + 1)
      BY <2>3, <3>1
    <3> QED BY <1>2, <2>2, <3>1, <3>2
  <2>8. base + Len(t) + Len(rest) = last
    <3>1. base + Len(w) + Len(q) = last
      BY <2>3
    <3> QED BY <1>2, <2>2, <3>1
  <2>9. Goes(n, base, last)
    BY <1>6, <2>1, <2>5, <2>6, <2>7, <2>8 DEF Goes
  <2> QED BY <1>1, <1>4, <1>5, <2>9
<1> QED BY <1>7, <1>9, <1>10

\* What the forwarder moves from the queue to the wire goes on there.
LEMMA ForwardKeeps == ASSUME AttachmentInv, NEW c \in Connections, Attachment!Forward(c)
  PROVE  AttachmentInv'
<1>1. PICK k : k = conn[c]
  OBVIOUS
<1>2. /\ k.request = "answered" /\ k.subscriber = "live"
      /\ UNCHANGED <<latest, Attachment!client>> /\ UNCHANGED <<phase, current, cursor, latest>>
  BY <1>1 DEF Attachment!Forward, Attachment!Forwarding, Attachment!session, Attachment!client
<1>3. Connection(k) /\ DOMAIN conn = Connections /\ k.overflow \in BOOLEAN
  BY <1>1 DEF AttachmentInv, StreamTyped, Connection
<1>4. PICK n :
        /\ DOMAIN conn' = Connections /\ conn'[c] = n /\ \A d \in Connections \ {c} : conn'[d] = conn[d]
        /\ Connection(n) /\ n.open = k.open /\ n.request = k.request /\ n.through = k.through
        /\ \A base \in Nat : k.open /\ Goes(k, base, latest) => Goes(n, base, latest)
  <2>1. CASE k.overflow
    <3>1. PICK n : n = Attachment!Pushed(Attachment!Unsubscribed(k), Attachment!StreamError)
      OBVIOUS
    <3>2. conn' = [conn EXCEPT ![c] = n]
      BY <1>1, <2>1, <3>1 DEF Attachment!Forward
    <3>3. /\ DOMAIN conn' = Connections /\ conn'[c] = n
          /\ \A d \in Connections \ {c} : conn'[d] = conn[d]
      BY <1>3, <3>2
    <3>4. PICK u : /\ u = Attachment!Unsubscribed(k) /\ Connection(u)
                   /\ u.open = k.open /\ u.request = k.request /\ u.through = k.through
      BY <1>3, UnsubscribedKeeps
    <3>5. Connection(n) /\ n.open = k.open /\ n.request = k.request /\ n.through = k.through
      BY <3>1, <3>4, PushedKeeps DEF Attachment!StreamError
    <3>6. \A base \in Nat : k.open /\ Goes(k, base, latest) => Goes(n, base, latest)
      BY <1>2, <1>3, <3>1, MarkGoes
    <3> QED BY <3>3, <3>5, <3>6
  <2>2. CASE ~k.overflow /\ k.queue # << >>
    <3>1. PICK u : u = [k EXCEPT !.queue = Tail(@)]
      OBVIOUS
    <3>2. PICK n : n = Attachment!Pushed(u, Head(k.queue))
      OBVIOUS
    <3>3. conn' = [conn EXCEPT ![c] = n]
      BY <1>1, <2>2, <3>1, <3>2 DEF Attachment!Forward, Attachment!Dequeued
    <3>4. /\ DOMAIN conn' = Connections /\ conn'[c] = n
          /\ \A d \in Connections \ {c} : conn'[d] = conn[d]
      BY <1>3, <3>3
    <3>5. Tail(k.queue) \in Seq(Nat) /\ Head(k.queue) \in Nat
      BY <1>3, <2>2, TailFacts DEF Connection
    <3>6. /\ DOMAIN u = ConnFields /\ u.queue = Tail(k.queue) /\ u.wire = k.wire
          /\ u.overflow = k.overflow
          /\ u.open = k.open /\ u.request = k.request /\ u.through = k.through
      BY <1>3, <3>1 DEF Connection, ConnFields
    <3>7. Connection(u)
      BY <1>3, <3>5, <3>6 DEF Connection
    <3>8. Connection(n) /\ n.open = k.open /\ n.request = k.request /\ n.through = k.through
      BY <3>2, <3>5, <3>6, <3>7, PushedKeeps
    <3>9. \A base \in Nat : k.open /\ Goes(k, base, latest) => Goes(n, base, latest)
      BY <1>2, <1>3, <2>2, <3>1, <3>2, EventGoes
    <3> QED BY <3>4, <3>8, <3>9
  <2> QED BY <1>1, <2>1, <2>2 DEF Attachment!Forward
<1>5. ASSUME c = current PROVE RequestInv' /\ StreamInv'
  <2>1. RequestInv'
    BY <1>1, <1>2, <1>4, <1>5 DEF AttachmentInv, RequestInv
  <2>2. Subscribed' => Subscribed
    BY <1>1, <1>2, <1>4, <1>5 DEF Subscribed
  <2>3. Base' = Base /\ Base \in Nat
    BY <1>1, <1>2, <1>4, <1>5, CurrentTyped DEF Base
  <2>4. ASSUME Subscribed PROVE Goes(n, Base, latest)
    <3>1. k.open /\ Goes(k, Base, latest)
      BY <1>1, <1>5, <2>4 DEF AttachmentInv, StreamInv, Subscribed
    <3> QED BY <1>4, <2>3, <3>1
  <2>5. StreamInv'
    <3>1. Base' = Base /\ latest' = latest /\ conn'[current'] = n
      BY <1>2, <1>4, <1>5, <2>3
    <3> QED BY <2>2, <2>4, <3>1 DEF StreamInv
  <2> QED BY <2>1, <2>5
<1> QED BY <1>1, <1>2, <1>4, <1>5, ServerTouches

\* A connection that the server ends carries no more.
LEMMA EndsKeeps ==
  ASSUME AttachmentInv, UNCHANGED <<latest, Attachment!client>>, NEW c \in Connections, NEW n,
         DOMAIN conn' = Connections, conn'[c] = n, \A d \in Connections \ {c} : conn'[d] = conn[d],
         Connection(n), n.open = conn[c].open, n.request = conn[c].request,
         n.through = conn[c].through, n.wire = conn[c].wire, n.server # "open",
         \/ n.queue = conn[c].queue /\ n.overflow = conn[c].overflow
            /\ n.subscriber = conn[c].subscriber /\ n.registered = conn[c].registered
         \/ conn[c].registered # FALSE /\ n.subscriber = "closed"
  PROVE  AttachmentInv'
<1>1. UNCHANGED <<phase, current, cursor, latest>>
  BY DEF Attachment!client
<1>2. ASSUME c = current PROVE RequestInv' /\ StreamInv'
  <2>1. RequestInv'
    BY <1>1, <1>2 DEF AttachmentInv, RequestInv
  <2>2. (Subscribed' => Subscribed) /\ Base' = Base
    BY <1>1, <1>2 DEF Subscribed, Base
  <2>3. ASSUME Subscribed PROVE Goes(n, Base, latest)
    <3>1. Goes(conn[c], Base, latest)
      BY <1>2, <2>3 DEF AttachmentInv, StreamInv
    <3> QED BY <3>1, StreamStops
  <2>4. conn'[current'] = n /\ latest' = latest
    BY <1>1, <1>2
  <2>5. StreamInv'
    BY <2>2, <2>3, <2>4 DEF StreamInv
  <2> QED BY <2>1, <2>5
<1> QED BY <1>2, ServerTouches

\* The server notices that the client is gone.
LEMMA CloseConnectionKeeps ==
  ASSUME AttachmentInv, NEW c \in Connections, Attachment!CloseConnection(c)
  PROVE  AttachmentInv'
<1>1. PICK k, n : k = conn[c] /\ n = [k EXCEPT !.server = "closing"]
  OBVIOUS
<1>2. UNCHANGED <<latest, Attachment!client>> /\ conn' = [conn EXCEPT ![c] = n]
  BY <1>1 DEF Attachment!CloseConnection, Attachment!session
<1>3. Connection(k) /\ DOMAIN conn = Connections
  BY <1>1 DEF AttachmentInv, StreamTyped
<1>4. /\ DOMAIN n = ConnFields /\ n.server # "open" /\ n.open = k.open /\ n.request = k.request
      /\ n.through = k.through /\ n.wire = k.wire /\ n.queue = k.queue
      /\ n.overflow = k.overflow /\ n.subscriber = k.subscriber /\ n.registered = k.registered
  BY <1>1, <1>3 DEF Connection, ConnFields
<1>5. Connection(n)
  BY <1>3, <1>4 DEF Connection
<1>6. /\ DOMAIN conn' = Connections /\ conn'[c] = n
      /\ \A d \in Connections \ {c} : conn'[d] = conn[d]
  BY <1>2, <1>3
<1>7. /\ n.open = conn[c].open /\ n.request = conn[c].request /\ n.through = conn[c].through
      /\ n.wire = conn[c].wire /\ n.server # "open"
      /\ n.queue = conn[c].queue /\ n.overflow = conn[c].overflow
      /\ n.subscriber = conn[c].subscriber /\ n.registered = conn[c].registered
  BY <1>1, <1>4
<1> QED BY <1>2, <1>5, <1>6, <1>7, EndsKeeps

\* The detached attachment is closed with its connection.
LEMMA DetachKeeps ==
  ASSUME AttachmentInv, NEW c \in Connections, Attachment!Detach(c)
  PROVE  AttachmentInv'
<1>1. PICK k : k = conn[c] /\ Connection(k)
  BY DEF AttachmentInv, StreamTyped
<1>2. UNCHANGED <<latest, Attachment!client>> /\ DOMAIN conn = Connections
  BY DEF Attachment!Detach, AttachmentInv, StreamTyped
<1>3. CASE k.registered
  <2>1. PICK u : u = Attachment!Unsubscribed(k)
    OBVIOUS
  <2>2. /\ Connection(u) /\ u.open = k.open /\ u.request = k.request /\ u.through = k.through
        /\ u.wire = k.wire /\ u.subscriber = "closed"
    BY <1>1, <2>1, UnsubscribedKeeps
  <2>3. PICK n : n = [u EXCEPT !.server = "closed", !.registered = FALSE]
    OBVIOUS
  <2>4. conn' = [conn EXCEPT ![c] = n]
    BY <1>1, <1>3, <2>1, <2>3 DEF Attachment!Detach
  <2>5. /\ DOMAIN n = ConnFields /\ n.server # "open" /\ n.open = u.open /\ n.request = u.request
        /\ n.through = u.through /\ n.wire = u.wire /\ n.queue = u.queue
        /\ n.overflow = u.overflow /\ n.subscriber = u.subscriber
    BY <2>2, <2>3 DEF Connection, ConnFields
  <2>6. Connection(n)
    BY <2>2, <2>5 DEF Connection
  <2>7. /\ DOMAIN conn' = Connections /\ conn'[c] = n
        /\ \A d \in Connections \ {c} : conn'[d] = conn[d]
    BY <1>2, <2>4
  <2>8. /\ n.open = conn[c].open /\ n.request = conn[c].request /\ n.through = conn[c].through
        /\ n.wire = conn[c].wire /\ conn[c].registered # FALSE /\ n.subscriber = "closed"
    BY <1>1, <1>3, <2>2, <2>5
  <2> QED BY <1>2, <2>5, <2>6, <2>7, <2>8, EndsKeeps
<1>4. CASE ~k.registered
  <2>1. PICK n : n = [k EXCEPT !.server = "closed"]
    OBVIOUS
  <2>2. conn' = [conn EXCEPT ![c] = n]
    BY <1>1, <1>4, <2>1 DEF Attachment!Detach
  <2>3. /\ DOMAIN n = ConnFields /\ n.server # "open" /\ n.open = k.open /\ n.request = k.request
        /\ n.through = k.through /\ n.wire = k.wire /\ n.queue = k.queue
        /\ n.overflow = k.overflow /\ n.subscriber = k.subscriber /\ n.registered = k.registered
    BY <1>1, <2>1 DEF Connection, ConnFields
  <2>4. Connection(n)
    BY <1>1, <2>3 DEF Connection
  <2>5. /\ DOMAIN conn' = Connections /\ conn'[c] = n
        /\ \A d \in Connections \ {c} : conn'[d] = conn[d]
    BY <1>2, <2>2
  <2> QED BY <1>1, <1>2, <2>3, <2>4, <2>5, EndsKeeps
<1> QED BY <1>3, <1>4

\* An event goes behind the last one, or marks that it did not fit.
LEMMA PublishedGoes ==
  ASSUME NEW k, Connection(k), NEW event \in Nat
  PROVE  /\ Connection(Attachment!Published(k, event))
         /\ Attachment!Published(k, event).open = k.open
         /\ Attachment!Published(k, event).request = k.request
         /\ Attachment!Published(k, event).through = k.through
         /\ Attachment!Published(k, event).server = k.server
         /\ Attachment!Published(k, event).registered = k.registered
         /\ Attachment!Published(k, event).subscriber = k.subscriber
         /\ Attachment!Published(k, event).wire = k.wire
         /\ k.subscriber = "none" => Attachment!Published(k, event) = k
         /\ \A base \in Nat : \A last \in Nat :
              event = last + 1 /\ Goes(k, base, last) =>
                Goes(Attachment!Published(k, event), base, event)
<1>1. CASE k.subscriber # "live"
  <2>1. Attachment!Published(k, event) = k
    BY <1>1 DEF Attachment!Published
  <2>2. \A base, last : Goes(k, base, last) => Goes(k, base, event)
    BY <1>1 DEF Goes
  <2> QED BY <2>1, <2>2
<1>2. CASE k.subscriber = "live" /\ Len(k.queue) < SubscriberCapacity
  <2>1. PICK n : n = [k EXCEPT !.queue = Append(@, event)]
    OBVIOUS
  <2>2. PICK q, t : q \in Seq(Nat) /\ q = k.queue /\ t = Append(q, event)
    BY DEF Connection
  <2>3. /\ t \in Seq(Nat) /\ Len(q) \in Nat /\ Len(t) = Len(q) + 1
        /\ DOMAIN q = 1..Len(q) /\ DOMAIN t = 1..(Len(q) + 1)
        /\ \A i \in 1..Len(q) : t[i] = q[i]
        /\ t[Len(q) + 1] = event
    BY <2>2, AppendFacts
  <2>4. /\ DOMAIN n = ConnFields /\ n.wire = k.wire /\ n.server = k.server /\ n.open = k.open
        /\ n.through = k.through /\ n.subscriber = k.subscriber /\ n.queue = t
        /\ n.overflow = k.overflow /\ n.request = k.request /\ n.registered = k.registered
    BY <2>1, <2>2 DEF Connection, ConnFields
  <2>5. Connection(n)
    BY <2>3, <2>4 DEF Connection
  <2>6. Attachment!Published(k, event) = n
    BY <1>2, <2>1 DEF Attachment!Published
  <2>7. k.subscriber # "none"
    BY <1>2
  <2>8. ASSUME NEW base \in Nat, NEW last \in Nat, event = last + 1, Goes(k, base, last)
        PROVE  Goes(n, base, event)
    <3>1. PICK wire : wire = k.wire /\ wire = n.wire /\ Len(wire) \in Nat
      BY <2>4 DEF Connection
    <3>2. /\ \A i \in DOMAIN wire :
               wire[i] = base + i \/ (wire[i] = Attachment!StreamError /\ i = Len(wire))
          /\ ~\E i \in DOMAIN wire : wire[i] = Attachment!StreamError
      BY <1>2, <2>8, <3>1 DEF Goes
    <3>3. ASSUME n.server = "open"
          PROVE  /\ n.overflow = FALSE
                 /\ \A i \in DOMAIN t : t[i] = base + Len(wire) + i
                 /\ base + Len(wire) + Len(t) = event
      <4>1. /\ \A i \in DOMAIN q : q[i] = base + Len(wire) + i
            /\ k.overflow => ~(Len(q) < SubscriberCapacity)
            /\ k.overflow \/ base + Len(wire) + Len(q) = last
        BY <2>2, <2>4, <2>8, <3>1, <3>2, <3>3 DEF Goes
      <4>2. ~k.overflow /\ k.overflow \in BOOLEAN
        BY <1>2, <2>2, <4>1 DEF Connection
      <4>3. base + Len(wire) + Len(q) = last
        BY <4>1, <4>2
      <4>4. base + Len(wire) + Len(t) = event
        <5>1. /\ Len(q) \in Nat /\ Len(t) = Len(q) + 1 /\ Len(wire) \in Nat
              /\ base \in Nat /\ last \in Nat /\ event = last + 1
          BY <2>3, <2>8, <3>1
        <5> QED BY ONLY <4>3, <5>1
      <4>5. ASSUME NEW i \in 1..(Len(q) + 1) PROVE t[i] = base + Len(wire) + i
        <5>1. CASE i \in 1..Len(q)
          BY <2>3, <4>1, <5>1
        <5>2. CASE i = Len(q) + 1
          <6>1. /\ Len(q) \in Nat /\ Len(wire) \in Nat /\ t[Len(q) + 1] = event
                /\ base \in Nat /\ last \in Nat /\ event = last + 1
            BY <2>3, <2>8, <3>1
          <6> QED BY ONLY <4>3, <5>2, <6>1
        <5> QED BY <2>3, <5>1, <5>2
      <4> QED BY <2>3, <2>4, <4>2, <4>4, <4>5
    <3> QED BY <1>2, <2>4, <3>1, <3>2, <3>3 DEF Goes
  <2> QED BY <2>4, <2>5, <2>6, <2>7, <2>8
<1>3. CASE k.subscriber = "live" /\ ~(Len(k.queue) < SubscriberCapacity)
  <2>1. PICK n : n = [k EXCEPT !.overflow = TRUE]
    OBVIOUS
  <2>2. /\ DOMAIN n = ConnFields /\ n.wire = k.wire /\ n.server = k.server /\ n.open = k.open
        /\ n.through = k.through /\ n.subscriber = k.subscriber /\ n.queue = k.queue
        /\ n.overflow = TRUE /\ n.request = k.request /\ n.registered = k.registered
    BY <2>1 DEF Connection, ConnFields
  <2>3. Connection(n)
    BY <2>2 DEF Connection
  <2>4. Attachment!Published(k, event) = n
    BY <1>3, <2>1 DEF Attachment!Published
  <2>5. k.subscriber # "none"
    BY <1>3
  <2>6. \A base, last : Goes(k, base, last) => Goes(n, base, event)
    BY <1>3, <2>2 DEF Goes
  <2> QED BY <2>2, <2>3, <2>4, <2>5, <2>6
<1> QED BY <1>1, <1>2, <1>3

\* A transition of the session reaches the subscribers and moves nothing else.
LEMMA CommitKeeps == ASSUME AttachmentInv, Attachment!Commit PROVE AttachmentInv'
<1>1. /\ latest' = latest + 1 /\ latest \in Nat /\ latest' \in Nat
      /\ UNCHANGED <<phase, current, cursor, closed>>
  BY DEF Attachment!Commit, AttachmentInv, StreamTyped, Attachment!client
<1>2. /\ DOMAIN conn' = Connections
      /\ \A c \in Connections : conn'[c] = Attachment!Published(conn[c], latest')
  BY DEF Attachment!Commit
<1>3. PICK event : event = latest'
  OBVIOUS
<1>4. \A c \in Connections : Connection(conn[c])
  BY DEF AttachmentInv, StreamTyped
<1>5. ASSUME NEW c \in Connections
      PROVE  /\ Connection(conn'[c])
             /\ conn'[c].open = conn[c].open /\ conn'[c].request = conn[c].request
             /\ conn'[c].through = conn[c].through /\ conn'[c].registered = conn[c].registered
             /\ conn'[c].subscriber = conn[c].subscriber /\ conn'[c].wire = conn[c].wire
             /\ conn[c].subscriber = "none" => conn'[c] = conn[c]
             /\ \A base \in Nat : Goes(conn[c], base, latest) => Goes(conn'[c], base, event)
  <2>1. PICK k, n : k = conn[c] /\ n = conn'[c] /\ n = Attachment!Published(k, event) /\ Connection(k)
    BY <1>2, <1>3, <1>4
  <2>2. /\ Connection(n) /\ n.open = k.open /\ n.request = k.request /\ n.through = k.through
        /\ n.registered = k.registered /\ n.subscriber = k.subscriber /\ n.wire = k.wire
        /\ k.subscriber = "none" => n = k
        /\ \A base \in Nat : \A last \in Nat :
             event = last + 1 /\ Goes(k, base, last) => Goes(n, base, event)
    BY <1>1, <1>3, <2>1, PublishedGoes
  <2>3. \A base \in Nat : Goes(k, base, latest) => Goes(n, base, event)
    BY <1>1, <1>3, <2>2
  <2> QED BY <2>1, <2>2, <2>3
<1>6. current \in Connections
  BY DEF AttachmentInv, StreamTyped
<1>7. StreamTyped'
  BY <1>1, <1>2, <1>5 DEF AttachmentInv, StreamTyped
<1>8. OpenInv'
  BY <1>1, <1>5, <1>6 DEF AttachmentInv, OpenInv
<1>9. RequestInv'
  BY <1>1, <1>5, <1>6 DEF AttachmentInv, RequestInv
<1>10. StreamInv'
  <2>1. (Subscribed' => Subscribed) /\ Base' = Base /\ Base \in Nat
    BY <1>1, <1>5, <1>6, CurrentTyped DEF Subscribed, Base
  <2>2. Subscribed => Goes(conn'[current], Base, event)
    BY <1>5, <1>6, <2>1 DEF AttachmentInv, StreamInv
  <2>3. conn'[current'] = conn'[current]
    BY <1>1
  <2> QED BY <1>3, <2>1, <2>2, <2>3 DEF StreamInv
<1> QED BY <1>7, <1>8, <1>9, <1>10 DEF AttachmentInv

\* After a restart no connection goes on.
LEMMA RestartKeeps == ASSUME AttachmentInv, Attachment!Restart PROVE AttachmentInv'
<1>1. UNCHANGED <<latest, phase, current, cursor, closed>>
  BY DEF Attachment!Restart, Attachment!client
<1>2. PICK lost :
        lost = [c \in Connections |-> [Attachment!Unused EXCEPT !.server = "closed",
                                                               !.open = conn[c].open,
                                                               !.request = "lost"]]
  OBVIOUS
<1>3. DOMAIN conn' = Connections /\ \A c \in Connections : conn'[c] \in {conn[c], lost[c]}
  BY <1>2 DEF Attachment!Restart
<1>4. \A c \in Connections : Connection(conn[c])
  BY DEF AttachmentInv, StreamTyped
<1>5. ASSUME NEW c \in Connections
      PROVE  /\ Connection(lost[c]) /\ lost[c].open = conn[c].open /\ lost[c].request = "lost"
             /\ lost[c].wire = << >> /\ lost[c].server # "open"
  <2>1. PICK n : n = lost[c]
    OBVIOUS
  <2>2. n = [Attachment!Unused EXCEPT !.server = "closed", !.open = conn[c].open, !.request = "lost"]
    BY <1>2, <2>1
  <2>3. /\ DOMAIN n = ConnFields /\ n.open = conn[c].open /\ n.request = "lost"
        /\ n.wire = << >> /\ n.queue = << >> /\ n.through = 0 /\ n.overflow = FALSE
        /\ n.server = "closed"
    BY <2>2 DEF Attachment!Unused, ConnFields
  <2>4. Connection(n)
    <3>1. << >> \in Seq(Nat) /\ n.open \in BOOLEAN
      BY <1>4, <2>3 DEF Connection
    <3>2. n.wire \in Seq(Nat) /\ n.queue \in Seq(Nat)
      BY <2>3, <3>1
    <3>3. n.through \in Nat
      BY <2>3
    <3>4. n.overflow \in BOOLEAN
      BY <2>3, Zenon
    <3> QED BY <2>3, <3>1, <3>2, <3>3, <3>4 DEF Connection
  <2> QED BY <2>1, <2>3, <2>4
<1>6. current \in Connections
  BY DEF AttachmentInv, StreamTyped
<1>7. StreamTyped'
  <2>1. \A c \in Connections : Connection(conn'[c])
    BY <1>3, <1>4, <1>5
  <2> QED BY <1>1, <1>3, <2>1 DEF AttachmentInv, StreamTyped
<1>8. OpenInv'
  <2>1. \A c \in Connections : conn'[c].open = conn[c].open
    BY <1>3, <1>5
  <2> QED BY <1>1, <1>6, <2>1 DEF AttachmentInv, OpenInv
<1>9. RequestInv' /\ StreamInv'
  <2>1. CASE conn'[current] = conn[current]
    <3>1. RequestInv'
      BY <1>1, <2>1 DEF AttachmentInv, RequestInv
    <3>2. StreamInv'
      BY <1>1, <2>1 DEF AttachmentInv, StreamInv, Subscribed, Base, Goes
    <3> QED BY <3>1, <3>2
  <2>2. CASE conn'[current] = lost[current]
    <3>1. RequestInv'
      BY <1>1, <1>5, <1>6, <2>2 DEF RequestInv
    <3>2. PICK n : n = conn'[current'] /\ n.wire = << >> /\ n.server # "open"
      BY <1>1, <1>5, <1>6, <2>2
    <3>3. \A base, last : Goes(n, base, last)
      BY <3>2 DEF Goes
    <3> QED BY <3>1, <3>2, <3>3 DEF StreamInv
  <2> QED BY <1>3, <1>6, <2>1, <2>2
<1> QED BY <1>7, <1>8, <1>9 DEF AttachmentInv

\* The client gives up the current connection, unless it just goes on.
LEMMA DropKeeps ==
  ASSUME AttachmentInv, UNCHANGED <<latest, current>>, conn' = Attachment!Dropped(current),
         cursor' \in Nat, closed' \in BOOLEAN,
         phase' \in {phase, "waiting", "failed", "ended"}
  PROVE  AttachmentInv'
<1>1. PICK k, n : k = conn[current] /\ n = [k EXCEPT !.open = FALSE]
  OBVIOUS
<1>2. DOMAIN conn = Connections /\ current \in Connections /\ Connection(k)
  BY <1>1 DEF AttachmentInv, StreamTyped
<1>3. conn' = [conn EXCEPT ![current] = n]
  BY <1>1 DEF Attachment!Dropped
<1>4. /\ DOMAIN conn' = Connections /\ conn'[current] = n
      /\ \A d \in Connections \ {current} : conn'[d] = conn[d]
  BY <1>2, <1>3
<1>5. /\ DOMAIN n = ConnFields /\ n.open = FALSE /\ n.request = k.request
      /\ n.wire = k.wire /\ n.queue = k.queue /\ n.overflow = k.overflow
      /\ n.subscriber = k.subscriber /\ n.registered = k.registered /\ n.through = k.through
  BY <1>1, <1>2 DEF Connection, ConnFields
<1>6. n.open \in BOOLEAN /\ n.overflow \in BOOLEAN
  BY <1>2, <1>5, Zenon DEF Connection
<1>7. Connection(n)
  BY <1>2, <1>5, <1>6 DEF Connection
<1>8. StreamTyped'
  <2>1. \A c \in Connections : Connection(conn'[c])
    BY <1>4, <1>7 DEF AttachmentInv, StreamTyped
  <2> QED BY <1>4, <2>1 DEF AttachmentInv, StreamTyped
<1>9. \A c \in Connections : conn'[c].open = FALSE
  BY <1>2, <1>4, <1>5 DEF AttachmentInv, OpenInv, StreamTyped, Connection
<1>10. OpenInv'
  BY <1>2, <1>9 DEF OpenInv
<1>11. RequestInv'
  BY <1>1, <1>4, <1>5 DEF AttachmentInv, RequestInv
<1>12. StreamInv'
  BY <1>2, <1>9 DEF StreamInv, Subscribed
<1> QED BY <1>8, <1>10, <1>11, <1>12 DEF AttachmentInv

\* The client waits, or notices that its stream is over.
LEMMA RestKeeps ==
  ASSUME AttachmentInv, UNCHANGED <<latest, conn, current, cursor, closed>>,
         phase' \in {"broken", "waiting", "connecting", "ended"},
         conn[current].open => phase' = "broken" /\ ~closed
  PROVE  AttachmentInv'
<1>1. StreamTyped'
  BY DEF AttachmentInv, StreamTyped
<1>2. OpenInv'
  BY DEF AttachmentInv, OpenInv
<1>3. RequestInv' /\ StreamInv'
  BY DEF RequestInv, StreamInv, Subscribed
<1> QED BY <1>1, <1>2, <1>3 DEF AttachmentInv

\* The monitor moves between its steps.
LEMMA WaitKeeps ==
  ASSUME AttachmentInv,
         \/ Attachment!StreamEnds \/ Attachment!Monitor \/ Attachment!End
         \/ Attachment!Backoff \/ Attachment!ConnectFails
  PROVE  AttachmentInv'
<1>1. cursor \in Nat /\ closed \in BOOLEAN
  BY DEF AttachmentInv, StreamTyped
<1>2. CASE Attachment!StreamEnds
  BY <1>2, RestKeeps DEF Attachment!StreamEnds, Attachment!session, AttachmentInv, OpenInv
<1>3. CASE Attachment!Monitor
  BY <1>1, <1>3, DropKeeps DEF Attachment!Monitor, Attachment!session
<1>4. CASE Attachment!End
  BY <1>4, RestKeeps DEF Attachment!End, Attachment!session, AttachmentInv, OpenInv
<1>5. CASE Attachment!Backoff
  BY <1>5, RestKeeps DEF Attachment!Backoff, Attachment!session, AttachmentInv, OpenInv
<1>6. CASE Attachment!ConnectFails
  BY <1>6, RestKeeps DEF Attachment!ConnectFails, Attachment!session, AttachmentInv, OpenInv
<1> QED BY <1>2, <1>3, <1>4, <1>5, <1>6

\* An event that is next moves the cursor with it; the rest goes on from there.
LEMMA ReceiveKeeps == ASSUME AttachmentInv, Attachment!Receive PROVE AttachmentInv'
<1>1. /\ phase = "attached" /\ UNCHANGED <<latest, current, closed>>
      /\ current \in Connections /\ DOMAIN conn = Connections /\ cursor \in Nat /\ latest \in Nat
  BY DEF Attachment!Receive, Attachment!session, AttachmentInv, StreamTyped
<1>2. PICK k, w, t : k = conn[current] /\ w = k.wire /\ t = Tail(w)
  OBVIOUS
<1>3. Connection(k) /\ w # << >>
  BY <1>2 DEF Attachment!Receive, AttachmentInv, StreamTyped
<1>4. w \in Seq(Nat)
  BY <1>2, <1>3 DEF Connection
<1>5. /\ t \in Seq(Nat) /\ Len(w) \in Nat \ {0} /\ Len(t) = Len(w) - 1
      /\ DOMAIN w = 1..Len(w) /\ DOMAIN t = 1..(Len(w) - 1)
      /\ \A i \in 1..(Len(w) - 1) : t[i] = w[i + 1]
      /\ Head(w) = w[1]
  BY <1>2, <1>3, <1>4, TailFacts
<1>6. PICK n : n = [k EXCEPT !.wire = t]
  OBVIOUS
<1>7. conn' = [conn EXCEPT ![current] = n]
  BY <1>2, <1>6 DEF Attachment!Receive
<1>8. /\ DOMAIN conn' = Connections /\ conn'[current] = n
      /\ \A d \in Connections \ {current} : conn'[d] = conn[d]
  BY <1>1, <1>7
<1>9. /\ DOMAIN n = ConnFields /\ n.wire = t /\ n.open = k.open /\ n.request = k.request
      /\ n.queue = k.queue /\ n.overflow = k.overflow /\ n.server = k.server
      /\ n.subscriber = k.subscriber /\ n.through = k.through
  BY <1>2, <1>3, <1>6 DEF Connection, ConnFields
<1>10. Connection(n)
  BY <1>2, <1>3, <1>5, <1>9 DEF Connection
<1>11. cursor' \in Nat /\ phase' \in {"attached", "broken"}
  BY <1>1 DEF Attachment!Receive
<1>12. StreamTyped'
  <2>1. \A c \in Connections : Connection(conn'[c])
    BY <1>8, <1>10 DEF AttachmentInv, StreamTyped
  <2> QED BY <1>1, <1>8, <1>11, <2>1 DEF AttachmentInv, StreamTyped
<1>13. OpenInv'
  <2>1. \A c \in Connections : conn'[c].open = conn[c].open
    BY <1>2, <1>8, <1>9
  <2> QED BY <1>1, <1>11, <2>1 DEF AttachmentInv, OpenInv
<1>14. RequestInv'
  BY <1>1, <1>2, <1>8, <1>9, <1>11 DEF AttachmentInv, RequestInv
<1>15. StreamInv'
  <2> SUFFICES ASSUME phase' = "attached", Subscribed' PROVE Goes(n, cursor', latest)
    BY <1>1, <1>8, <1>11 DEF StreamInv, Base, Subscribed
  <2>1. k.open
    BY <1>1, <1>8, <1>9 DEF Subscribed
  <2>2. Goes(k, cursor, latest)
    BY <1>1, <1>2, <2>1 DEF AttachmentInv, StreamInv, Subscribed, Base
  <2>3. w[1] = cursor + 1 /\ cursor' = cursor + 1
    BY <1>2, <1>5 DEF Attachment!Receive
  <2>4. \A i \in 1..Len(w) : w[i] = cursor + i \/ (w[i] = Attachment!StreamError /\ i = Len(w))
    BY <1>2, <1>5, <2>2 DEF Goes
  <2>5. ASSUME NEW i \in DOMAIN t
        PROVE  t[i] = cursor' + i \/ (t[i] = Attachment!StreamError /\ i = Len(t))
    <3>1. t[i] = w[i + 1] /\ i + 1 \in 1..Len(w)
      BY <1>5
    <3>2. w[i + 1] = cursor + (i + 1) \/ (w[i + 1] = Attachment!StreamError /\ i + 1 = Len(w))
      BY <2>4, <3>1
    <3>3. i \in Nat /\ Len(w) \in Nat /\ Len(t) = Len(w) - 1
      BY <1>5
    <3>4. CASE w[i + 1] = cursor + (i + 1)
      <4>1. t[i] = (cursor + 1) + i
        BY ONLY <1>1, <3>1, <3>3, <3>4
      <4> QED BY <2>3, <4>1
    <3>5. CASE w[i + 1] = Attachment!StreamError /\ i + 1 = Len(w)
      <4>1. i = Len(t)
        BY ONLY <3>3, <3>5
      <4> QED BY <3>1, <3>5, <4>1
    <3> QED BY <3>2, <3>4, <3>5
  <2>6. (\E i \in DOMAIN t : t[i] = Attachment!StreamError) <=>
          (\E i \in DOMAIN w : w[i] = Attachment!StreamError)
    <3>1. ASSUME NEW i \in DOMAIN t, t[i] = Attachment!StreamError
          PROVE  \E j \in DOMAIN w : w[j] = Attachment!StreamError
      <4>1. t[i] = w[i + 1] /\ i + 1 \in DOMAIN w
        BY <1>5
      <4> QED BY <3>1, <4>1
    <3>2. ASSUME NEW j \in DOMAIN w, w[j] = Attachment!StreamError
          PROVE  \E i \in DOMAIN t : t[i] = Attachment!StreamError
      <4>1. j # 1 /\ j \in 1..Len(w)
        BY <1>1, <1>5, <2>3, <3>2 DEF Attachment!StreamError
      <4>2. j - 1 \in DOMAIN t /\ t[j - 1] = w[(j - 1) + 1] /\ (j - 1) + 1 = j
        BY <1>5, <4>1
      <4> QED BY <3>2, <4>2
    <3> QED BY <3>1, <3>2
  <2>7. /\ (\E i \in DOMAIN w : w[i] = Attachment!StreamError) => k.subscriber # "live"
        /\ k.server = "open" /\ ~(\E i \in DOMAIN w : w[i] = Attachment!StreamError) =>
             /\ k.subscriber = "live"
             /\ \A i \in DOMAIN k.queue : k.queue[i] = cursor + Len(w) + i
             /\ k.overflow => ~(Len(k.queue) < SubscriberCapacity)
             /\ k.overflow \/ cursor + Len(w) + Len(k.queue) = latest
    BY <1>2, <2>2 DEF Goes
  <2>8. cursor' + Len(t) = cursor + Len(w)
    BY <1>1, <1>5, <2>3
  <2> QED BY <1>9, <2>5, <2>6, <2>7, <2>8 DEF Goes
<1> QED BY <1>12, <1>13, <1>14, <1>15 DEF AttachmentInv

\* With the reply the projection is where the subscription begins, or the handle goes.
LEMMA ReplyKeeps == ASSUME AttachmentInv, Attachment!Reply PROVE AttachmentInv'
<1>1. /\ phase = "attaching" /\ conn[current].request = "answered" /\ conn[current].open
      /\ UNCHANGED <<latest, current, closed>> /\ cursor \in Nat /\ closed \in BOOLEAN
      /\ conn[current].through \in Nat
  BY DEF Attachment!Reply, Attachment!session, AttachmentInv, StreamTyped, Connection
<1>2. CASE /\ cursor' = cursor /\ conn' = Attachment!Dropped(current)
           /\ phase' \in {"waiting", "failed", "ended"}
  BY <1>1, <1>2, DropKeeps
<1>3. CASE cursor' = conn[current].through /\ Attachment!Install
  <2>1. CASE closed
    BY <1>1, <1>3, <2>1, DropKeeps DEF Attachment!Install
  <2>2. CASE ~closed
    <3>1. phase' = "attached" /\ conn' = conn
      BY <1>3, <2>2 DEF Attachment!Install
    <3>2. StreamTyped'
      BY <1>1, <1>3, <3>1 DEF AttachmentInv, StreamTyped
    <3>3. OpenInv'
      BY <1>1, <2>2, <3>1 DEF AttachmentInv, OpenInv
    <3>4. RequestInv'
      BY <1>1, <3>1 DEF RequestInv
    <3>5. Goes(conn[current], conn[current].through, latest)
      BY <1>1 DEF AttachmentInv, StreamInv, Subscribed, Base
    <3>6. StreamInv'
      BY <1>1, <1>3, <3>1, <3>5 DEF StreamInv, Base
    <3> QED BY <3>2, <3>3, <3>4, <3>6 DEF AttachmentInv
  <2> QED BY <1>1, <2>1, <2>2
<1> QED BY <1>2, <1>3 DEF Attachment!Reply, Attachment!GiveUp

\* Where the connection fails or is closed the stream is over.
LEMMA LoseKeeps == ASSUME AttachmentInv, Attachment!Lose PROVE AttachmentInv'
<1>1. UNCHANGED <<latest, phase, current, cursor, closed>> /\ current \in Connections
      /\ DOMAIN conn = Connections
  BY DEF Attachment!Lose, Attachment!session, Attachment!client, AttachmentInv, StreamTyped
<1>2. PICK k, w : k = conn[current] /\ w = k.wire
  OBVIOUS
<1>3. Connection(k) /\ w \in Seq(Nat)
  BY <1>2 DEF AttachmentInv, StreamTyped, Connection
<1>4. PICK m \in 0..Len(w) : conn' = [conn EXCEPT ![current].open = FALSE,
                                                  ![current].wire = SubSeq(k.wire, 1, m)]
  BY <1>2 DEF Attachment!Lose
<1>5. PICK t : t = SubSeq(w, 1, m) /\ t \in Seq(Nat) /\ (w = << >> => t = << >>)
  <2>1. Len(w) \in Nat /\ DOMAIN w = 1..Len(w) /\ \A i \in 1..Len(w) : w[i] \in Nat
    BY <1>3
  <2>2. m \in Nat /\ \A i \in 1..m : w[i] \in Nat
    BY <2>1
  <2>3. SubSeq(w, 1, m) \in Seq(Nat) /\ Len(SubSeq(w, 1, m)) = m
    BY <2>2
  <2>4. w = << >> => SubSeq(w, 1, m) = << >>
    BY <2>1, <2>3
  <2> QED BY <2>3, <2>4
<1>6. PICK n : n = [k EXCEPT !.open = FALSE, !.wire = t]
  OBVIOUS
<1>7. /\ DOMAIN conn' = Connections /\ conn'[current] = n
      /\ \A d \in Connections \ {current} : conn'[d] = conn[d]
  BY <1>1, <1>2, <1>4, <1>5, <1>6
<1>8. /\ DOMAIN n = ConnFields /\ n.open = FALSE /\ n.wire = t /\ n.request = k.request
      /\ n.queue = k.queue /\ n.overflow = k.overflow
      /\ n.subscriber = k.subscriber /\ n.registered = k.registered /\ n.through = k.through
  BY <1>2, <1>3, <1>6 DEF Connection, ConnFields
<1>9. n.open \in BOOLEAN
  BY <1>8, Zenon
<1>10. Connection(n)
  BY <1>2, <1>3, <1>5, <1>8, <1>9 DEF Connection
<1>11. StreamTyped'
  <2>1. \A c \in Connections : Connection(conn'[c])
    BY <1>7, <1>10 DEF AttachmentInv, StreamTyped
  <2> QED BY <1>1, <1>7, <2>1 DEF AttachmentInv, StreamTyped
<1>12. \A c \in Connections : conn'[c].open = FALSE
  BY <1>1, <1>7, <1>8 DEF AttachmentInv, OpenInv, StreamTyped, Connection
<1>13. OpenInv' /\ StreamInv'
  BY <1>1, <1>12 DEF OpenInv, StreamInv, Subscribed
<1>14. RequestInv'
  BY <1>1, <1>2, <1>5, <1>7, <1>8 DEF AttachmentInv, RequestInv
<1> QED BY <1>11, <1>13, <1>14 DEF AttachmentInv

\* Both leave the client without its connection.
LEMMA GiveUpKeeps ==
  ASSUME AttachmentInv, Attachment!AttachFails \/ Attachment!Close
  PROVE  AttachmentInv'
<1>1. cursor \in Nat /\ closed \in BOOLEAN
  BY DEF AttachmentInv, StreamTyped
<1>2. CASE Attachment!AttachFails
  BY <1>1, <1>2, DropKeeps DEF Attachment!AttachFails, Attachment!session
<1>3. CASE Attachment!Close
  BY <1>1, <1>3, DropKeeps DEF Attachment!Close, Attachment!session
<1> QED BY <1>2, <1>3

\* The order of the naturals, as a relation.
Below == {p \in Nat \X Nat : p[1] < p[2]}

\* A set of naturals has a least element, and Min is it.
LEMMA MinOf ==
  ASSUME NEW S, S \subseteq Nat, S # {}
  PROVE  Attachment!Min(S) \in S
<1>1. IsWellFoundedOn(Below, Nat)
  BY NatLessThanWellFounded DEF OpToRel, Below
<1>2. PICK x \in S : \A y \in S : ~(<<y, x>> \in Below)
  BY <1>1, WFMin
<1>3. ASSUME NEW y \in S PROVE x <= y
  <2>1. x \in Nat /\ y \in Nat /\ ~(<<y, x>> \in Below)
    BY <1>2
  <2> QED BY <2>1 DEF Below
<1> QED BY <1>3 DEF Attachment!Min

\* A candidate begins with nothing; a barred one is not left open.
LEMMA ConnectKeeps == ASSUME AttachmentInv, Attachment!Connect PROVE AttachmentInv'
<1>1. /\ phase = "connecting" /\ UNCHANGED <<latest, cursor, closed>>
      /\ latest \in Nat /\ cursor \in Nat /\ closed \in BOOLEAN /\ DOMAIN conn = Connections
  BY DEF Attachment!Connect, Attachment!session, AttachmentInv, StreamTyped
<1>2. PICK c \in Connections : c = Attachment!Min(Attachment!Free)
  <2>1. Attachment!Free \subseteq Nat /\ Attachment!Free \subseteq Connections /\ Attachment!Free # {}
    BY ConnectionsAssumption DEF Attachment!Free, Attachment!Connect
  <2> QED BY <2>1, MinOf
<1>3. PICK candidate :
        candidate = [Attachment!Unused EXCEPT !.server = "open", !.open = ~unresolved]
  OBVIOUS
<1>4. /\ DOMAIN candidate = ConnFields /\ candidate.open = ~unresolved
      /\ candidate.request = "none" /\ candidate.registered = FALSE
      /\ candidate.subscriber = "none" /\ candidate.queue = << >>
      /\ candidate.overflow = FALSE /\ candidate.wire = << >> /\ candidate.through = 0
  BY <1>3 DEF Attachment!Unused, ConnFields
<1>5. PICK n : /\ n = IF unresolved THEN candidate
                      ELSE [candidate EXCEPT
                              !.request = "sent",
                              !.after = IF force THEN Attachment!NoCursor ELSE cursor]
  OBVIOUS
<1>6. current' = c /\ conn' = [conn EXCEPT ![c] = n]
  BY <1>2, <1>3, <1>5 DEF Attachment!Connect
<1>7. /\ DOMAIN conn' = Connections /\ conn'[c] = n
      /\ \A d \in Connections \ {c} : conn'[d] = conn[d]
  BY <1>1, <1>6
<1>8. /\ DOMAIN n = ConnFields /\ n.open = candidate.open /\ n.registered = FALSE
      /\ n.subscriber = "none" /\ n.queue = << >> /\ n.overflow = FALSE /\ n.wire = << >>
      /\ n.through = 0 /\ (~unresolved => n.request = "sent")
  BY <1>4, <1>5 DEF ConnFields
<1>9. n.open \in BOOLEAN /\ n.overflow \in BOOLEAN /\ (n.open => ~unresolved)
  BY <1>4, <1>8, Zenon
<1>10. Connection(n)
  <2>1. << >> \in Seq(Nat)
    OBVIOUS
  <2> QED BY <1>8, <1>9, <2>1 DEF Connection
<1>11. IF unresolved THEN phase' \in {"failed", "ended"} ELSE phase' = "attaching"
  BY <1>2 DEF Attachment!Connect, Attachment!GiveUp
<1>12. StreamTyped'
  <2>1. \A d \in Connections : Connection(conn'[d])
    BY <1>7, <1>10 DEF AttachmentInv, StreamTyped
  <2> QED BY <1>1, <1>6, <1>7, <2>1 DEF StreamTyped
<1>13. OpenInv'
  <2>1. \A d \in Connections : conn[d].open = FALSE
    BY <1>1 DEF AttachmentInv, OpenInv, StreamTyped, Connection
  <2>2. \A d \in Connections : conn'[d].open => d = c
    BY <1>7, <2>1
  <2>3. conn'[current'].open => phase' = "attaching"
    BY <1>6, <1>7, <1>9, <1>11
  <2> QED BY <1>6, <2>2, <2>3 DEF OpenInv
<1>14. RequestInv'
  BY <1>6, <1>7, <1>8, <1>11 DEF RequestInv
<1>15. StreamInv'
  <2>1. ~Subscribed'
    BY <1>6, <1>7, <1>8, <1>9, <1>11 DEF Subscribed
  <2> QED BY <2>1 DEF StreamInv
<1> QED BY <1>12, <1>13, <1>14, <1>15 DEF AttachmentInv

\* Every step keeps the invariant.
LEMMA AttachmentStep == AttachmentInv /\ [Attachment!Next]_(Attachment!vars) => AttachmentInv'
<1> SUFFICES ASSUME AttachmentInv, [Attachment!Next]_(Attachment!vars) PROVE AttachmentInv'
  OBVIOUS
<1>1. CASE UNCHANGED Attachment!vars
  BY <1>1 DEF Attachment!vars, Attachment!session, Attachment!client, AttachmentInv,
              StreamTyped, OpenInv, RequestInv, StreamInv, Subscribed, Base, Goes
<1>2. CASE Attachment!Commit
  BY <1>2, CommitKeeps
<1>3. CASE Attachment!Restart
  BY <1>3, RestartKeeps
<1>4. CASE Attachment!Lose
  BY <1>4, LoseKeeps
<1>5. CASE Attachment!Close \/ Attachment!AttachFails
  BY <1>5, GiveUpKeeps
<1>6. CASE \/ Attachment!StreamEnds \/ Attachment!Monitor \/ Attachment!End
           \/ Attachment!Backoff \/ Attachment!ConnectFails
  BY <1>6, WaitKeeps
<1>7. CASE Attachment!Receive
  BY <1>7, ReceiveKeeps
<1>8. CASE Attachment!Reply
  BY <1>8, ReplyKeeps
<1>9. CASE Attachment!Connect
  BY <1>9, ConnectKeeps
<1>10. ASSUME NEW c \in Connections,
              \/ Attachment!Attach(c) \/ Attachment!Answer(c) \/ Attachment!Forward(c)
              \/ Attachment!CloseConnection(c) \/ Attachment!Detach(c)
       PROVE  AttachmentInv'
  <2>1. CASE Attachment!Attach(c)
    BY <2>1, AttachKeeps
  <2>2. CASE Attachment!Answer(c)
    BY <2>2, AnswerKeeps
  <2>3. CASE Attachment!Forward(c)
    BY <2>3, ForwardKeeps
  <2>4. CASE Attachment!CloseConnection(c)
    BY <2>4, CloseConnectionKeeps
  <2>5. CASE Attachment!Detach(c)
    BY <2>5, DetachKeeps
  <2> QED BY <1>10, <2>1, <2>2, <2>3, <2>4, <2>5
<1> QED BY <1>1, <1>2, <1>3, <1>4, <1>5, <1>6, <1>7, <1>8, <1>9, <1>10
        DEF Attachment!Next, Attachment!ClientStep, Attachment!ServerStep

\* An attached client with an open connection is subscribed from its cursor on.
LEMMA StreamFollows == AttachmentInv => Attachment!StreamContinues
<1> SUFFICES ASSUME AttachmentInv, phase = "attached", conn[current].open
             PROVE  Attachment!StreamContinues
  BY DEF Attachment!StreamContinues
<1>1. Goes(conn[current], cursor, latest)
  BY DEF AttachmentInv, StreamInv, Subscribed, Base
<1> QED BY <1>1 DEF Goes, Attachment!StreamContinues

\* What is open is current, and the monitor has not ended.
LEMMA ClosesFollows == AttachmentInv => Attachment!ClosesWhatItOpened
BY DEF AttachmentInv, OpenInv, Attachment!ClosesWhatItOpened

\* The steps of the module's other parts leave the attachment as it is.
LEMMA AttachmentCorrect == MCSpec => []AttachmentInv
<1>1. MCInit => AttachmentInv
  BY AttachmentInit DEF MCInit
<1>2. [MCNext]_allVars => [Attachment!Next]_(Attachment!vars)
  BY DEF MCNext, allVars, attachmentVars, Attachment!vars, Attachment!session,
         Attachment!client, Attachment!bounds
<1>3. AttachmentInv /\ [MCNext]_allVars => AttachmentInv'
  BY <1>2, AttachmentStep
<1> QED BY <1>1, <1>3, PTL DEF MCSpec

\* Whatever the window, the queues, the losses and the restarts are, an attached
\* client's stream goes on where its projection ends, or says that it does not.
THEOREM StreamCorrect == MCSpec => []StreamContinues
<1>1. AttachmentInv => StreamContinues
  BY StreamFollows DEF StreamContinues
<1> QED BY <1>1, AttachmentCorrect, PTL

\* No connection but the current one is open, and none when the monitor has ended.
THEOREM ClosesCorrect == MCSpec => []ClosesWhatItOpened
<1>1. AttachmentInv => ClosesWhatItOpened
  BY ClosesFollows DEF ClosesWhatItOpened
<1> QED BY <1>1, AttachmentCorrect, PTL

-----------------------------------------------------------------------------
(* The repeated commands. *)

\* The steps of the module's other parts leave the commands as they are.
LEMMA CommandsBehave == MCSpec => Commands!Spec
<1>1. MCInit => Commands!Init
  BY DEF MCInit
<1>2. [MCNext]_allVars => [Commands!Next]_(Commands!vars)
  BY DEF MCNext, allVars, commandVars, Commands!vars, Commands!log, Commands!store
<1> QED BY <1>1, <1>2, PTL DEF MCSpec, Commands!Spec

\* In the server's run too, a request changes its session once and its answers are true,
THEOREM CommandsCorrect == MCSpec => []OnceAndTrue
BY CommandsBehave, Commands!RequestsOnceAndTrue, PTL DEF OnceAndTrue

\* and the session can be opened again.
THEOREM ReconcilesCorrect == MCSpec => []Reconciles
BY CommandsBehave, Commands!SessionsReconcile, ClassesAssumption, PTL DEF Reconciles

-----------------------------------------------------------------------------
(* The search dialog and the development server. *)

\* The steps of the module's other parts leave the dialog as it is,
LEMMA DialogBehaves == MCSpec => Website!Spec
<1>1. MCInit => Website!Init
  BY DEF MCInit
<1>2. [MCNext]_allVars => [Website!Next]_(Website!vars)
  BY DEF MCNext, allVars, searchVars, Website!vars
<1> QED BY <1>1, <1>2, PTL DEF MCSpec, Website!Spec

\* and the development server.
LEMMA DevBehaves == MCSpec => Website!DevSpec
<1>1. MCInit => Website!Dev!Init
  BY DEF MCInit
<1>2. [MCNext]_allVars => [Website!Dev!Next]_(Website!Dev!vars)
  BY DEF MCNext, allVars, devVars, Website!Dev!vars
<1> QED BY <1>1, <1>2, PTL DEF MCSpec, Website!DevSpec

\* Whatever is typed, retried, lost or late, the dialog shows the first hits of the text
\* in its input, whole and in order, or nothing (website/src/scripts/search.ts),
THEOREM ScreenShown == MCSpec => []ScreenIsTheAnswer
BY DialogBehaves, Website!ScreenCorrect, SearchAssumption, PTL DEF ScreenIsTheAnswer

\* a search worker that runs is the one the next failure destroys (search.ts:133-143),
THEOREM WorkersOwned == MCSpec => []NoLeakedWorker
BY DialogBehaves, Website!WorkersCorrect, SearchAssumption, PTL DEF NoLeakedWorker

\* and a page is read from its own results (pagefind-worker.ts:47-50).
THEOREM ResultsKept == MCSpec => []NeverObsolete
BY DialogBehaves, Website!ResultsCorrect, SearchAssumption, PTL DEF NeverObsolete

\* A reader never runs beside another, nor beside a generation (website/scripts/dev.mjs).
THEOREM ReaderServes == MCSpec => []ReaderIsAlone
BY DevBehaves, Website!ReaderAlone, SearchAssumption, PTL DEF ReaderIsAlone
=============================================================================
