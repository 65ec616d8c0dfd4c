------------------------- MODULE SessionAttachment -------------------------
(***************************************************************************)
(* A client that follows the events of one session                         *)
(* (lib/agent_client/reconnect.ml and session_handle.ml) over the           *)
(* connections of a transport server, and what the server keeps for each   *)
(* of them: the attachment, its subscriber, the bounded queues and the     *)
(* replay of the retained window (durable_event_log.ml).                   *)
(*                                                                         *)
(* Events are their sequence numbers.  A connection's number is reused     *)
(* when nothing of its former use is left.  A wire is the server's         *)
(* outgoing queue, the event stream and the client's queue together.       *)
(***************************************************************************)
EXTENDS Integers, Sequences, FiniteSetsExt

CONSTANTS
  Connections,  \* bound: connections in use at a time, 1..n
  Window,       \* event_replay_capacity
  Capacity,     \* subscriber_capacity
  Outgoing,     \* outgoing_capacity
  MaxEvents,    \* bound: durable events of the session
  MaxLosses,    \* bound: connections that fail under the client
  MaxRestarts   \* bound: restarts of the daemon

VARIABLES
  latest,      \* counters.event_sequence
  oldest,      \* the first retained event; latest + 1 when none is
  attached,    \* the connections with an attachment in the session's state
  conn,        \* what both ends hold of each connection
  phase,       \* where the client's monitor is
  current,     \* t.connection
  cursor,      \* latest_event_sequence of t.projection
  force,       \* force_snapshot
  unresolved,  \* an attach of unknown outcome is retained and passed on
  closed,      \* t.closed
  losses, restarts

session == <<latest, oldest, attached>>
client == <<phase, current, cursor, force, unresolved, closed>>
bounds == <<losses, restarts>>
vars == <<session, conn, client, bounds>>

StreamError == 0
NoCursor == -1
NoReply == [kind |-> "none", first |-> 1, last |-> 0]
SnapshotReply == [kind |-> "snapshot", first |-> 1, last |-> 0]
EventsReply(first, last) == [kind |-> "events", first |-> first, last |-> last]

Unused ==
  [server |-> "none", open |-> FALSE,
   request |-> "none", after |-> NoCursor, through |-> 0, reply |-> NoReply,
   registered |-> FALSE, subscriber |-> "none", queue |-> << >>, overflow |-> FALSE,
   wire |-> << >>]

InFlight(c) == conn[c].request \in {"sent", "attached"}

\* The client attached when the session had no events yet.
Init ==
  /\ latest = 0 /\ oldest = 1 /\ attached = {1}
  /\ conn = [c \in Connections |->
               IF c = 1
               THEN [Unused EXCEPT !.server = "open", !.open = TRUE, !.request = "answered",
                                   !.registered = TRUE, !.subscriber = "live"]
               ELSE Unused]
  /\ phase = "attached" /\ current = 1 /\ cursor = 0
  /\ force = FALSE /\ unresolved = FALSE /\ closed = FALSE
  /\ losses = 0 /\ restarts = 0

-----------------------------------------------------------------------------
(* The server. *)

\* Mutant: an event that does not fit is dropped and forgotten.
PublishedSilently(k, event) ==
  IF k.subscriber = "live" /\ Len(k.queue) < Capacity
  THEN [k EXCEPT !.queue = Append(@, event)]
  ELSE k

\* Subscriber.publish_durable: an event that does not fit leaves a mark.
Published(k, event) ==
  IF k.subscriber # "live" THEN k
  ELSE IF Len(k.queue) < Capacity THEN [k EXCEPT !.queue = Append(@, event)]
  ELSE [k EXCEPT !.overflow = TRUE]

\* A transition is persisted: published to the subscribers, then retained.
Commit ==
  /\ latest < MaxEvents
  /\ latest' = latest + 1
  /\ oldest' = IF latest' - oldest < Window THEN oldest ELSE oldest + 1
  /\ conn' = [c \in Connections |-> Published(conn[c], latest')]
  /\ UNCHANGED <<attached, client, bounds>>

\* The actor adds the attachment, its subscriber and a snapshot in one command.
Attach(c) ==
  /\ conn[c].request = "sent"
  /\ attached' = attached \cup {c}
  /\ conn' = [conn EXCEPT ![c].request = "attached", ![c].through = latest,
                          ![c].subscriber = "live"]
  /\ UNCHANGED <<latest, oldest, client, bounds>>

\* Durable_event_log.replay; oldest is beyond through when nothing is retained.
Replay(after, through) ==
  IF after >= through THEN EventsReply(1, 0)
  ELSE IF after + 1 < oldest THEN SnapshotReply
  ELSE EventsReply(after + 1, through)

\* The handler goes on: it registers the attachment with the connection, open
\* or not, starts the forwarder and computes the replay from the window of now.
Answer(c) ==
  /\ conn[c].request = "attached"
  /\ conn' = [conn EXCEPT ![c].request = "answered", ![c].registered = TRUE,
                          ![c].reply = IF conn[c].after = NoCursor
                                       THEN SnapshotReply
                                       ELSE Replay(conn[c].after, conn[c].through)]
  /\ UNCHANGED <<session, client, bounds>>

\* publish_notification: a full outgoing queue closes the connection.
Pushed(k, item) ==
  IF k.server # "open" \/ ~k.open THEN k
  ELSE IF Len(k.wire) < Outgoing THEN [k EXCEPT !.wire = Append(@, item)]
  ELSE [k EXCEPT !.server = "closing"]

Unsubscribed(k) ==
  [k EXCEPT !.subscriber = "closed", !.queue = << >>, !.overflow = FALSE]

Dequeued(k) == [k EXCEPT !.queue = Tail(@)]

Forwarding(k) == k.request = "answered" /\ k.subscriber = "live"

\* Mutant: a subscriber that fell behind is closed without a word.
ForwardMutely(c) ==
  /\ Forwarding(conn[c])
  /\ \/ conn[c].overflow /\ conn' = [conn EXCEPT ![c] = Unsubscribed(@)]
     \/ /\ ~conn[c].overflow /\ conn[c].queue # << >>
        /\ conn' = [conn EXCEPT ![c] = Pushed(Dequeued(@), Head(conn[c].queue))]
  /\ UNCHANGED <<session, client, bounds>>

\* forward_subscriber: the mark comes before the events still in the queue.
Forward(c) ==
  /\ Forwarding(conn[c])
  /\ \/ /\ conn[c].overflow
        /\ conn' = [conn EXCEPT ![c] = Pushed(Unsubscribed(@), StreamError)]
     \/ /\ ~conn[c].overflow /\ conn[c].queue # << >>
        /\ conn' = [conn EXCEPT ![c] = Pushed(Dequeued(@), Head(conn[c].queue))]
  /\ UNCHANGED <<session, client, bounds>>

\* The client's DELETE, or the reaper of idle connections.
CloseConnection(c) ==
  /\ conn[c].server = "open" /\ ~conn[c].open
  /\ conn' = [conn EXCEPT ![c].server = "closing"]
  /\ UNCHANGED <<session, client, bounds>>

\* close_connection detaches the attachments registered by now.
Detach(c) ==
  /\ conn[c].server = "closing"
  /\ IF conn[c].registered
     THEN /\ attached' = attached \ {c}
          /\ conn' = [conn EXCEPT ![c] = [Unsubscribed(@) EXCEPT !.server = "closed",
                                                                  !.registered = FALSE]]
     ELSE /\ conn' = [conn EXCEPT ![c].server = "closed"]
          /\ UNCHANGED attached
  /\ UNCHANGED <<latest, oldest, client, bounds>>

\* What the daemon held in memory is gone; recovery removes the attachments
\* and retains the events behind the checkpoint it started from.
Restart ==
  /\ restarts < MaxRestarts
  /\ restarts' = restarts + 1
  /\ attached' = {}
  /\ oldest' \in Max({1, latest - Window + 1})..(latest + 1)
  /\ conn' = [c \in Connections |->
                IF conn[c].server = "none" THEN conn[c]
                ELSE [Unused EXCEPT !.server = "closed", !.open = conn[c].open,
                                    !.request = "lost"]]
  /\ UNCHANGED <<latest, client, losses>>

-----------------------------------------------------------------------------
(* The client. *)

Dropped(c) == [conn EXCEPT ![c].open = FALSE]

\* apply_notification: the next event, or the stream is broken.
Receive ==
  /\ phase = "attached" /\ conn[current].wire # << >>
  /\ conn' = [conn EXCEPT ![current].wire = Tail(@)]
  /\ IF Head(conn[current].wire) = cursor + 1
     THEN cursor' = cursor + 1 /\ UNCHANGED <<phase, force>>
     ELSE phase' = "broken" /\ force' = TRUE /\ UNCHANGED cursor
  /\ UNCHANGED <<session, current, unresolved, closed, bounds>>

StreamEnds ==
  /\ phase = "attached" /\ conn[current].wire = << >>
  /\ conn[current].server # "open" \/ ~conn[current].open
  /\ phase' = "broken" /\ force' = FALSE
  /\ UNCHANGED <<session, conn, current, cursor, unresolved, closed, bounds>>

\* The handle is closed: so is its connection.
Monitor ==
  /\ phase = "broken"
  /\ phase' = "waiting" /\ conn' = Dropped(current)
  /\ UNCHANGED <<session, current, cursor, force, unresolved, closed, bounds>>

\* closed_signal ends the monitor, or the wait before an attempt.
End ==
  /\ closed /\ phase \in {"attached", "broken", "waiting"}
  /\ phase' = "ended"
  /\ UNCHANGED <<session, conn, current, cursor, force, unresolved, closed, bounds>>

Backoff ==
  /\ phase = "waiting" /\ ~closed
  /\ phase' = "connecting"
  /\ UNCHANGED <<session, conn, current, cursor, force, unresolved, closed, bounds>>

ConnectFails ==
  /\ phase = "connecting"
  /\ phase' = "waiting"
  /\ UNCHANGED <<session, conn, current, cursor, force, unresolved, closed, bounds>>

Free == {c \in Connections :
           conn[c].server \in {"none", "closed"} /\ ~conn[c].open /\ ~InFlight(c)
             /\ c \notin attached}

GiveUp == phase' = IF closed THEN "ended" ELSE "failed"

\* A candidate is connected and initialized, adopts the unresolved commands and
\* becomes t.connection; an equivalent unresolved attach bars another one.
Connect ==
  /\ phase = "connecting" /\ Free # {}
  /\ LET c == Min(Free)
         candidate == [Unused EXCEPT !.server = "open", !.open = ~unresolved] IN
     /\ current' = c
     /\ IF unresolved
        THEN GiveUp /\ conn' = [conn EXCEPT ![c] = candidate]
        ELSE /\ phase' = "attaching"
             /\ conn' = [conn EXCEPT ![c] =
                           [candidate EXCEPT !.request = "sent",
                                             !.after = IF force THEN NoCursor ELSE cursor]]
  /\ UNCHANGED <<session, cursor, force, unresolved, closed, bounds>>

\* Where the reply brings the projection: initial_projection applies the events
\* one by one from the cursor, the first of them or none at all.
Reached(k) ==
  IF k.reply.kind = "snapshot" THEN k.through
  ELSE IF k.reply.first > k.reply.last THEN cursor
  ELSE k.reply.last

Gap(k) ==
  /\ k.reply.kind = "events" /\ k.reply.first <= k.reply.last
  /\ k.reply.first # cursor + 1

\* Mutant: the handle is installed without another look at t.closed.
InstallAnyway == phase' = "attached" /\ UNCHANGED conn

\* The handle is installed, unless close came while it was made.
Install ==
  IF closed
  THEN phase' = "ended" /\ conn' = Dropped(current)
  ELSE phase' = "attached" /\ UNCHANGED conn

\* The reply arrives: its projection must end where the subscription begins.
Reply ==
  /\ phase = "attaching" /\ conn[current].request = "answered" /\ conn[current].open
  /\ LET k == conn[current] IN
     \/ /\ Gap(k)
        /\ phase' = "waiting" /\ force' = TRUE /\ conn' = Dropped(current)
        /\ UNCHANGED cursor
     \/ /\ ~Gap(k) /\ Reached(k) # k.through
        /\ GiveUp /\ conn' = Dropped(current)
        /\ UNCHANGED <<cursor, force>>
     \/ /\ ~Gap(k) /\ Reached(k) = k.through
        /\ cursor' = k.through /\ Install
        /\ UNCHANGED force
  /\ UNCHANGED <<session, current, unresolved, closed, bounds>>

\* The reply is lost: the outcome of the attach stays unknown.
AttachFails ==
  /\ phase = "attaching"
  /\ ~conn[current].open \/ conn[current].request = "lost"
  /\ phase' = "waiting" /\ unresolved' = TRUE /\ conn' = Dropped(current)
  /\ UNCHANGED <<session, current, cursor, force, closed, bounds>>

\* The connection fails under the client, which has read a part of its wire.
Lose ==
  /\ losses < MaxLosses /\ conn[current].open
  /\ losses' = losses + 1
  /\ \E n \in 0..Len(conn[current].wire) :
        conn' = [conn EXCEPT ![current].open = FALSE,
                             ![current].wire = SubSeq(@, 1, n)]
  /\ UNCHANGED <<session, client, restarts>>

\* Reconnect.close.
Close ==
  /\ ~closed /\ phase \notin {"failed", "ended"}
  /\ closed' = TRUE /\ conn' = Dropped(current)
  /\ UNCHANGED <<session, phase, current, cursor, force, unresolved, bounds>>

-----------------------------------------------------------------------------

ServerStep ==
  \E c \in Connections :
    Attach(c) \/ Answer(c) \/ Forward(c) \/ CloseConnection(c) \/ Detach(c)

ClientStep == Receive \/ StreamEnds \/ Monitor \/ End \/ Backoff \/ Reply \/ AttachFails

Next ==
  \/ Commit \/ Restart \/ Lose \/ Close
  \/ ClientStep \/ ConnectFails \/ Connect \/ ServerStep

Spec == Init /\ [][Next]_vars

\* Fibers that can run do, and a client that keeps connecting succeeds.
Fairness ==
  /\ WF_vars(ClientStep) /\ SF_vars(Connect) /\ WF_vars(ServerStep)

FairSpec == Spec /\ Fairness

-----------------------------------------------------------------------------
(* Properties. *)

\* What is on its way to an attached client goes on where its projection ends,
\* event by event, and reaches the session's last event; a stream that cannot
\* do so says it with an error, or ends with its connection.
StreamContinues ==
  LET k == conn[current]
      behind == cursor + Len(k.wire)
      told == \E i \in DOMAIN k.wire : k.wire[i] = StreamError IN
  phase = "attached" /\ k.open =>
    /\ \A i \in DOMAIN k.wire :
         k.wire[i] = cursor + i \/ (k.wire[i] = StreamError /\ i = Len(k.wire))
    /\ k.server = "open" /\ ~told =>
         /\ k.subscriber = "live"
         /\ \A i \in DOMAIN k.queue : k.queue[i] = behind + i
         /\ k.overflow \/ behind + Len(k.queue) = latest

\* Whenever close arrives, while connecting and attaching too, no connection
\* but the current one is left open, and none once the monitor has ended.
ClosesWhatItOpened ==
  \A c \in Connections :
    conn[c].open => c = current /\ phase \notin {"failed", "ended"}

\* Unless it is closed, a client ends up attached with all events: a window that
\* moved, an overflow, a lost connection or a restart only delays it, and it
\* gives up for good over nothing but an attach whose outcome it never learned.
CatchesUp ==
  <>[](\/ phase = "attached" /\ cursor = latest
       \/ phase = "failed" /\ unresolved
       \/ phase = "ended" /\ closed)

\* "connection teardown detaches every connection-owned attachment"
\* (docs-src/design/ochat-agent-server-implementation-spec.md:3191): nothing of
\* a connection that was torn down stays in the session's state.
TeardownDetaches ==
  \A c \in Connections : conn[c].server = "closed" /\ ~InFlight(c) => c \notin attached
=============================================================================
