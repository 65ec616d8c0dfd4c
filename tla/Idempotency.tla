---------------------------- MODULE Idempotency ----------------------------
(***************************************************************************)
(* The idempotency records of a session's commands                         *)
(* (lib/agent_store/idempotency_store.ml) around their execution            *)
(* (with_idempotency_owner in lib/agent_server/command_handler.ml), and     *)
(* their reconciliation with the audits in the session's journal whenever  *)
(* the session is opened.                                                  *)
(*                                                                         *)
(* A key stands for principal, session, method and idempotency key; its    *)
(* method decides whether its record is protected.  Stored results are     *)
(* their tags, time is counted in lifetimes of a record (one day).  The     *)
(* audit of a transaction also carries, as history, when its record was    *)
(* created and whether its commit was answered.  Lifecycle and seed        *)
(* commands have protocols of their own.                                   *)
(***************************************************************************)
EXTENDS Naturals, Sequences

CONSTANTS
  Standard,    \* keys whose records expire
  Protected,   \* keys whose records do not
  Digests,     \* what a key may be used for
  MayReuse,    \* may an expired key come back for another request?
  MaxCalls,    \* bound: requests received
  MaxDays      \* bound: days that pass

Keys == Standard \cup Protected

VARIABLES
  records,    \* t.records
  index,      \* the index file
  journal,    \* the audits of the session's transactions
  retained,   \* the first transaction that is still in the journal
  session,    \* closed, open, or stopped by a failed commit
  step,       \* where the owner of idempotency_mutex is
  command,    \* and its command
  told,       \* history: the outcomes clients were given
  today, calls

store == <<records, index>>
log == <<journal, retained>>
vars == <<store, log, session, step, command, told, today, calls>>

Record(outcome, digest, accepted, born) ==
  [outcome |-> outcome, digest |-> digest, accepted |-> accepted, born |-> born]

Missing == Record("missing", "none", 0, 0)
NoCommand == [key |-> "none", digest |-> "none", born |-> 0, result |-> "none"]

Present(k) == records[k] # Missing

Init ==
  /\ records = [k \in Keys |-> Missing] /\ index = records
  /\ journal = << >> /\ retained = 1
  /\ session = "open" /\ step = "idle" /\ command = NoCommand
  /\ told = {} /\ today = 0 /\ calls = 0

-----------------------------------------------------------------------------
(* The index: a file that is replaced, and then its copy in memory. *)

Saved(new) == records' = new /\ index' = new

\* An error before or after the rename; the copy in memory stays.
SaveFails(new) == index' \in {index, new} /\ UNCHANGED records

\* Mutant: an expired record is removed whatever its retention.
ExpiredOfAnyRetention(k) == Present(k) /\ records[k].born < today

\* is_expired: pending records too.
IsExpired(k) == k \in Standard /\ Present(k) /\ records[k].born < today

\* prune_expired, from maintenance; it does not wait for the command.
Prune ==
  /\ \E k \in Keys : IsExpired(k)
  /\ LET kept == [k \in Keys |-> IF IsExpired(k) THEN Missing ELSE records[k]]
     IN Saved(kept) \/ SaveFails(kept)
  /\ UNCHANGED <<log, session, step, command, told, today, calls>>

-----------------------------------------------------------------------------
(* A command, under idempotency_mutex. *)

Tell(k, digest, born, answer) ==
  told' = told \cup {[key |-> k, digest |-> digest, born |-> born, answer |-> answer]}

Received == step = "idle" /\ calls < MaxCalls /\ calls' = calls + 1

\* Mutant: a pending record is answered like a failed one.
ReplayGuessing(k, digest) ==
  /\ Received /\ Present(k)
  /\ IF records[k].digest = digest
     THEN Tell(k, digest, records[k].born,
               IF records[k].outcome = "pending" THEN "failure" ELSE records[k].outcome)
     ELSE UNCHANGED told
  /\ UNCHANGED <<store, log, session, step, command, today>>

\* Replay of the stored outcome.  A pending record is answered "Interrupted"
\* and another request's with a conflict, which say nothing of the outcome.
Replay(k, digest) ==
  /\ Received /\ Present(k)
  /\ IF records[k].digest = digest /\ records[k].outcome # "pending"
     THEN Tell(k, digest, records[k].born, records[k].outcome)
     ELSE UNCHANGED told
  /\ UNCHANGED <<store, log, session, step, command, today>>

\* The command is prepared (or refused, and nothing happens).
Prepare(k, digest) ==
  /\ Received /\ ~Present(k)
  /\ MayReuse \/ \A i \in DOMAIN journal : journal[i].key = k => journal[i].digest = digest
  /\ \/ /\ step' = "record"
        /\ command' = [key |-> k, digest |-> digest, born |-> 0, result |-> "none"]
     \/ UNCHANGED <<step, command>>
  /\ UNCHANGED <<store, log, session, told, today>>

\* Mutant: the command is executed although its record was not saved.
RecordIgnored ==
  /\ step = "record"
  /\ LET new == [records EXCEPT ![command.key] = Record("pending", command.digest, 0, today)]
     IN Saved(new) \/ SaveFails(new)
  /\ step' = "execute" /\ command' = [command EXCEPT !.born = today]
  /\ UNCHANGED <<log, session, told, today, calls>>

\* pending_record.
RecordPending ==
  /\ step = "record"
  /\ LET new == [records EXCEPT ![command.key] = Record("pending", command.digest, 0, today)]
     IN \/ /\ Saved(new)
           /\ step' = "execute" /\ command' = [command EXCEPT !.born = today]
        \/ SaveFails(new) /\ step' = "idle" /\ command' = NoCommand
  /\ UNCHANGED <<log, session, told, today, calls>>

Committed(answered) ==
  journal' = Append(journal, [key |-> command.key, digest |-> command.digest,
                              born |-> command.born, answered |-> answered])

\* persist_transition commits the transition with its audit.
Execute ==
  /\ step = "execute" /\ session = "open"
  /\ Committed(TRUE)
  /\ step' = "accept" /\ command' = [command EXCEPT !.result = "success"]
  /\ UNCHANGED <<store, retained, session, told, today, calls>>

\* An append fails, whatever of it is in the journal, and stops the writer.
ExecuteFails ==
  /\ step = "execute" /\ session = "open"
  /\ Committed(FALSE) \/ UNCHANGED journal
  /\ session' = "stopped"
  /\ step' = "complete" /\ command' = [command EXCEPT !.result = "failure"]
  /\ UNCHANGED <<store, retained, told, today, calls>>

\* The session does not take the command, or cannot be loaded.
Reject ==
  /\ step = "execute"
  /\ step' = "complete" /\ command' = [command EXCEPT !.result = "failure"]
  /\ UNCHANGED <<store, log, session, told, today, calls>>

\* mark_command_accepted, whose error is ignored.
Accept ==
  /\ step = "accept" /\ step' = "complete"
  /\ IF Present(command.key)
     THEN LET new == [records EXCEPT ![command.key].accepted = Len(journal)]
          IN Saved(new) \/ SaveFails(new)
     ELSE UNCHANGED store
  /\ UNCHANGED <<log, session, command, told, today, calls>>

\* store_outcome; a record that was pruned meanwhile, or an error of the index,
\* is answered with an error.
Complete ==
  /\ step = "complete" /\ step' = "idle" /\ command' = NoCommand
  /\ LET new == [records EXCEPT ![command.key].outcome = command.result]
     IN \/ /\ Present(command.key) /\ Saved(new)
           /\ Tell(command.key, command.digest, command.born, command.result)
        \/ Present(command.key) /\ SaveFails(new) /\ UNCHANGED told
        \/ ~Present(command.key) /\ UNCHANGED <<store, told>>
  /\ UNCHANGED <<log, session, today, calls>>

\* A run that may have been admitted although its commit failed keeps its
\* pending record (Run_admission_outcome.Uncertain).
Uncertain ==
  /\ step = "complete" /\ command.result = "failure"
  /\ step' = "idle" /\ command' = NoCommand
  /\ UNCHANGED <<store, log, session, told, today, calls>>

-----------------------------------------------------------------------------
(* The session and the daemon. *)

Audits(k) == {i \in retained..Len(journal) : journal[i].key = k}

\* reconcile_one refuses an audit.
Refused(table, k) ==
  \E i \in Audits(k) :
    IF table[k] = Missing THEN k \in Protected ELSE table[k].digest # journal[i].digest

\* The last audit of a key that has a record.
Reconciled(k) ==
  IF records[k] # Missing /\ Audits(k) # {}
  THEN LET last == CHOOSE i \in Audits(k) : \A j \in Audits(k) : j <= i
       IN [records[k] EXCEPT !.accepted = IF @ < last THEN last ELSE @]
  ELSE records[k]

\* recover_open_handle: reconcile_accepted, or the session is not opened.
Open ==
  /\ session = "closed"
  /\ ~\E k \in Keys : Refused(records, k)
  /\ LET new == [k \in Keys |-> Reconciled(k)]
     IN \/ new = records /\ session' = "open" /\ UNCHANGED store
        \/ new # records /\ session' = "open" /\ Saved(new)
        \/ new # records /\ SaveFails(new) /\ UNCHANGED session
  /\ UNCHANGED <<log, step, command, told, today, calls>>

\* A checkpoint lets the journal's beginning go.
PruneJournal ==
  /\ session = "open"
  /\ \E first \in retained + 1 .. Len(journal) + 1 : retained' = first
  /\ UNCHANGED <<store, journal, session, step, command, told, today, calls>>

\* Maintenance unloads an inactive session, which waits for its actor.
Unload ==
  /\ session # "closed" /\ step # "accept"
  /\ session' = "closed"
  /\ UNCHANGED <<store, log, step, command, told, today, calls>>

\* The daemon dies, between any two steps, and starts again (open_or_create).
Restart ==
  /\ records' = index
  /\ session' = "closed" /\ step' = "idle" /\ command' = NoCommand
  /\ UNCHANGED <<index, log, told, today, calls>>

Day ==
  /\ today < MaxDays /\ today' = today + 1
  /\ UNCHANGED <<store, log, session, step, command, told, calls>>

Next ==
  \/ \E k \in Keys, digest \in Digests : Replay(k, digest) \/ Prepare(k, digest)
  \/ RecordPending \/ Execute \/ ExecuteFails \/ Reject \/ Accept \/ Complete \/ Uncertain
  \/ Prune \/ Open \/ PruneJournal \/ Unload \/ Restart \/ Day

Spec == Init /\ [][Next]_vars

-----------------------------------------------------------------------------
(* Properties *)

\* However often a client repeats a request, and wherever the daemon dies or the
\* index or the journal fails, the request changes the session once; a standard
\* key again only after its record's day is over (docs-src/agent-server/protocol.md:
\* 449-451, uncertain outcomes suppress duplicate execution).
AtMostOnce ==
  \A i, j \in DOMAIN journal :
    i < j /\ journal[i].key = journal[j].key =>
      journal[i].key \in Standard /\ journal[i].born < journal[j].born

\* The commits an answer speaks of.
Commits(a) ==
  {i \in DOMAIN journal :
    journal[i].key = a.key /\ journal[i].digest = a.digest /\ journal[i].born = a.born}

\* An answer that names an outcome is true, now and whenever it is repeated: what
\* is said to have succeeded was committed, and what is said to have failed was
\* not, unless its commit itself was answered with an error; a command that was
\* interrupted is never called failed (protocol.md:403-406).
AnswersAreTrue ==
  \A a \in told :
    /\ a.answer = "success" => Commits(a) # {}
    /\ a.answer = "failure" => \A i \in Commits(a) : ~journal[i].answered

\* Both, of every request and answer.
OnceAndTrue == AtMostOnce /\ AnswersAreTrue

\* Whenever the daemon dies or unloads a session, the records it starts from
\* reconcile with what the journal still has: the session can be opened again.
Reconciles ==
  \A k \in Keys : ~Refused(records, k) /\ ~Refused(index, k)
=============================================================================
