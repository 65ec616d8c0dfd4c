---------------------------- MODULE CommitWriter ----------------------------
(***************************************************************************)
(* The persist-before-publish writer of one loaded session: a fiber that   *)
(* takes requests from a bounded queue, one at a time, and any number of   *)
(* fibers that commit to it or close it.  Fibers are cooperative: a step   *)
(* ends where the code suspends, at the queue, a promise or file I/O.      *)
(*                                                                         *)
(*   requests   every call so far with its promise and what its caller was *)
(*              told; a request's index stands for its transaction's hash  *)
(*   queue      the items of the Eio stream; blocked are the calls waiting *)
(*              to add one                                                 *)
(*   taken      the request the worker holds                               *)
(*   head       next_sequence - 1 and previous_hash                        *)
(*   journal    the frames Journal.append wrote, 0 for an incomplete one   *)
(*   cancelled  the context that owns the worker was cancelled             *)
(***************************************************************************)
EXTENDS Integers, Sequences, SequencesExt

CONSTANTS
    Capacity,       \* queue_capacity
    MaxSequence,    \* Int64.max_value, small
    MaxRequests     \* bound: calls of commit and close

ASSUME CapacityAssumption == Capacity \in Nat \ {0}
ASSUME SequenceAssumption == MaxSequence \in Nat \ {0}
ASSUME BoundAssumption == MaxRequests \in Nat

VARIABLES availability, requests, queue, blocked, worker, taken, head, journal,
          cancelled

vars == <<availability, requests, queue, blocked, worker, taken, head, journal,
          cancelled>>

Ids == Nat \ {0}
NoRequest == 0
TornFrame == 0
Start == [seq |-> 0, hash |-> 0]

Promises == {"pending", "ok", "refused", "failed", "raised"}
Answers == (Promises \ {"pending"}) \cup {"nothing", "closed", "cancelled"}

Requests ==
    [kind: {"commit", "close"}, seq: 0..MaxSequence, prev: Nat,
     promise: Promises, told: Answers]

Init ==
    /\ availability = "available"
    /\ requests = << >> /\ queue = << >> /\ blocked = << >>
    /\ worker = "waiting" /\ taken = NoRequest
    /\ head = Start /\ journal = << >>
    /\ cancelled = FALSE

-----------------------------------------------------------------------------
(* Calls. *)

Unanswered(kind, seq, prev) ==
    [kind |-> kind, seq |-> seq, prev |-> prev, promise |-> "pending",
     told |-> "nothing"]

\* Eio.Stream.add: hand the item to a waiting worker, queue it, or block.
Enqueue(request) ==
    LET id == Len(requests) + 1 IN
    /\ requests' = Append(requests, request)
    /\ \/ /\ worker = "waiting"
          /\ worker' = "taken" /\ taken' = id
          /\ UNCHANGED <<queue, blocked>>
       \/ /\ worker # "waiting" /\ Len(queue) < Capacity
          /\ queue' = Append(queue, id)
          /\ UNCHANGED <<blocked, worker, taken>>
       \/ /\ worker # "waiting" /\ Len(queue) >= Capacity
          /\ blocked' = Append(blocked, id)
          /\ UNCHANGED <<queue, worker, taken>>

Answered(request, answer) ==
    /\ requests' = Append(requests, [request EXCEPT !.told = answer])
    /\ UNCHANGED <<queue, blocked, worker, taken>>

\* A transaction extends the session's start or one proposed before it.
Points ==
    {Start} \cup {[seq |-> requests[i].seq, hash |-> i] :
                    i \in {j \in DOMAIN requests : requests[j].kind = "commit"}}

Commit ==
    /\ Len(requests) < MaxRequests
    /\ \E p \in Points :
          /\ p.seq < MaxSequence
          /\ LET request == Unanswered("commit", p.seq + 1, p.hash) IN
             IF availability = "available"
             THEN Enqueue(request)
             ELSE Answered(request, "refused")
    /\ UNCHANGED <<availability, head, journal, cancelled>>

Close ==
    /\ Len(requests) < MaxRequests
    /\ LET request == Unanswered("close", 0, 0) IN
       IF availability = "closed"
       THEN Answered(request, "closed")
       ELSE Enqueue(request)
    /\ UNCHANGED <<availability, head, journal, cancelled>>

-----------------------------------------------------------------------------
(* The worker. *)

Resolve(reply) == requests' = [requests EXCEPT ![taken].promise = reply]

\* The worker's finally clause: closed, and stopped is resolved.
Stop ==
    /\ worker' = "ended" /\ availability' = "closed"
    /\ taken' = NoRequest
    /\ UNCHANGED <<queue, blocked>>

\* Eio.Stream.take removes an item and lets the first blocked call add its own.
TakeQueued ==
    /\ worker' = "taken" /\ taken' = Head(queue)
    /\ IF blocked = << >>
       THEN queue' = Tail(queue) /\ UNCHANGED blocked
       ELSE /\ queue' = Append(Tail(queue), Head(blocked))
            /\ blocked' = Tail(blocked)

\* The worker goes on with the availability it leaves; a wait with nothing
\* queued ends at once in a cancelled context.
Continue(left) ==
    \/ /\ queue # << >>
       /\ TakeQueued /\ availability' = left
    \/ /\ queue = << >> /\ cancelled
       /\ Stop
    \/ /\ queue = << >> /\ ~cancelled
       /\ worker' = "waiting" /\ taken' = NoRequest /\ availability' = left
       /\ UNCHANGED <<queue, blocked>>

Valid(request) ==
    /\ request.seq = head.seq + 1
    /\ request.prev = head.hash

HandleClose ==
    /\ worker = "taken" /\ requests[taken].kind = "close"
    /\ Resolve("ok")
    /\ Stop
    /\ UNCHANGED <<head, journal, cancelled>>

Refuse ==
    /\ worker = "taken" /\ requests[taken].kind = "commit"
    /\ availability # "available"
    /\ Resolve("refused")
    /\ Continue(availability)
    /\ UNCHANGED <<head, journal, cancelled>>

Reject ==
    /\ worker = "taken" /\ requests[taken].kind = "commit"
    /\ availability = "available" /\ ~Valid(requests[taken])
    /\ Resolve("failed")
    /\ Continue("unavailable")
    /\ UNCHANGED <<head, journal, cancelled>>

\* Mutant: the availability is checked by the caller only.
StartUnchecked ==
    /\ worker = "taken" /\ requests[taken].kind = "commit"
    /\ Valid(requests[taken])
    /\ worker' = "appending"
    /\ UNCHANGED <<availability, requests, queue, blocked, taken, head, journal,
                   cancelled>>

StartAppend ==
    /\ worker = "taken" /\ requests[taken].kind = "commit"
    /\ availability = "available" /\ Valid(requests[taken])
    /\ worker' = "appending"
    /\ UNCHANGED <<availability, requests, queue, blocked, taken, head, journal,
                   cancelled>>

\* The bytes of the frame reach the file, all of them or not.
WriteFrame ==
    /\ worker = "appending"
    /\ \/ worker' = "appended" /\ journal' = Append(journal, taken)
       \/ worker' = "torn" /\ journal' = Append(journal, TornFrame)
    /\ UNCHANGED <<availability, requests, queue, blocked, taken, head, cancelled>>

Finish ==
    /\ worker = "appended"
    /\ head' = [seq |-> requests[taken].seq, hash |-> taken]
    /\ Resolve("ok")
    /\ Continue(IF requests[taken].seq = MaxSequence THEN "unavailable" ELSE "available")
    /\ UNCHANGED <<journal, cancelled>>

\* Mutant: an append error leaves the writer available.
FailAvailable ==
    /\ worker \in {"appending", "appended", "torn"}
    /\ Resolve("failed")
    /\ Continue("available")
    /\ UNCHANGED <<head, journal, cancelled>>

\* Journal.append returns an error: before, during or after the frame's bytes.
Fail ==
    /\ worker \in {"appending", "appended", "torn"}
    /\ Resolve("failed")
    /\ Continue("unavailable")
    /\ UNCHANGED <<head, journal, cancelled>>

\* Journal.append raises; Fiber.check then ends a worker whose own context is
\* cancelled, and no other.
Raise ==
    /\ worker \in {"appending", "appended", "torn"}
    /\ Resolve("raised")
    /\ IF cancelled THEN Stop ELSE Continue("unavailable")
    /\ UNCHANGED <<head, journal, cancelled>>

\* The owning switch is cancelled: a worker waiting for an item ends.
CancelOwner ==
    /\ ~cancelled /\ worker # "ended"
    /\ cancelled' = TRUE
    /\ IF worker = "waiting"
       THEN Stop
       ELSE UNCHANGED <<availability, queue, blocked, worker, taken>>
    /\ UNCHANGED <<requests, head, journal>>

-----------------------------------------------------------------------------
(* Answers. *)

\* Cancelling a call that waits to add its item takes it off the wait list.
Unblock(id) ==
    \/ /\ \A i \in DOMAIN blocked : blocked[i] # id
       /\ UNCHANGED blocked
    \/ \E i \in DOMAIN blocked :
          /\ blocked[i] = id
          /\ blocked' = RemoveAt(blocked, i)

Tell(id, answer) ==
    /\ requests[id].told = "nothing"
    /\ requests' = [requests EXCEPT ![id].told = answer]

Return(id) ==
    /\ requests[id].promise # "pending"
    /\ Tell(id, requests[id].promise)
    /\ UNCHANGED <<availability, queue, blocked, worker, taken, head, journal, cancelled>>

\* Mutant: the stopped branch answers without looking at the promise.
ReturnClosedUnpeeked(id) ==
    /\ worker = "ended"
    /\ Tell(id, "closed")
    /\ Unblock(id)
    /\ UNCHANGED <<availability, queue, worker, taken, head, journal, cancelled>>

\* Mutant: a call still waiting to add its item does not watch stopped.
ReturnClosedQueued(id) ==
    /\ worker = "ended" /\ requests[id].promise = "pending"
    /\ ~\E i \in DOMAIN blocked : blocked[i] = id
    /\ Tell(id, "closed")
    /\ UNCHANGED <<availability, queue, blocked, worker, taken, head, journal, cancelled>>

\* The stopped branch of await_reply: a resolved promise wins over it.
ReturnClosed(id) ==
    /\ worker = "ended" /\ requests[id].promise = "pending"
    /\ Tell(id, "closed")
    /\ Unblock(id)
    /\ UNCHANGED <<availability, queue, worker, taken, head, journal, cancelled>>

\* The caller's own context is cancelled; an item already queued stays there.
Abandon(id) ==
    /\ Tell(id, "cancelled")
    /\ Unblock(id)
    /\ UNCHANGED <<availability, queue, worker, taken, head, journal, cancelled>>

-----------------------------------------------------------------------------

Worker ==
    \/ HandleClose \/ Refuse \/ Reject \/ StartAppend \/ WriteFrame
    \/ Finish \/ Fail \/ Raise

Next ==
    \/ Commit \/ Close \/ Worker \/ CancelOwner
    \/ \E id \in DOMAIN requests : Return(id) \/ ReturnClosed(id) \/ Abandon(id)

Answer == \E id \in DOMAIN requests : Return(id) \/ ReturnClosed(id)

Spec == Init /\ [][Next]_vars

\* The scheduler resumes every runnable fiber and file operations return.
FairSpec ==
    /\ Spec
    /\ WF_vars(Worker)
    /\ WF_vars(Answer)

-----------------------------------------------------------------------------
(* Properties. *)

\* Every field of the writer and of its requests has its type.
TypeOK ==
    /\ availability \in {"available", "unavailable", "closed"}
    /\ requests \in Seq(Requests)
    /\ queue \in Seq(Ids) /\ blocked \in Seq(Ids)
    /\ worker \in {"waiting", "taken", "appending", "appended", "torn", "ended"}
    /\ taken \in Nat
    /\ head \in [seq: 0..MaxSequence, hash: Nat]
    /\ journal \in Seq(Nat)
    /\ cancelled \in BOOLEAN

\* The journal is one chain of whole frames from the session's start, whatever
\* order calls arrive in and however appends fail; only its last frame can be
\* incomplete.  Every frame extends the frame right before it.
JournalChain ==
    \A i \in DOMAIN journal : journal[i] # TornFrame =>
        LET request == requests[journal[i]] IN
        IF i = 1
        THEN request.seq = 1 /\ request.prev = 0
        ELSE /\ journal[i - 1] # TornFrame
             /\ request.prev = journal[i - 1]
             /\ request.seq = requests[journal[i - 1]].seq + 1

\* What a caller hears is exact: success means the transaction is in the
\* journal; refused or closed means it is not and never will be.
AnswersAreExact ==
    \A id \in DOMAIN requests :
        requests[id].kind = "commit" =>
            /\ requests[id].told = "ok" => \E i \in DOMAIN journal : journal[i] = id
            /\ requests[id].told \in {"refused", "closed"} =>
                  ~\E i \in DOMAIN journal : journal[i] = id

\* A call waits outside the queue only while the queue is full, and the worker
\* waits for items only while there are none.
NoLostWakeup ==
    /\ blocked # << >> => Len(queue) = Capacity
    /\ worker = "waiting" => queue = << >> /\ blocked = << >>

\* A writer that stopped being available never is again, and never starts
\* another append: only reopening the journal makes a new one.
UnavailabilityIsFinal ==
    [][availability # "available" =>
         /\ availability' # "available"
         /\ journal' = journal]_vars

\* Every commit and every close is answered, also when the worker ends with
\* requests queued or calls blocked on the full queue.
EveryCallAnswered ==
    \A id \in 1..MaxRequests :
        id \in DOMAIN requests ~> id \in DOMAIN requests /\ requests[id].told # "nothing"
=============================================================================
