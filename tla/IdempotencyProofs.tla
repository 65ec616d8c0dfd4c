------------------------- MODULE IdempotencyProofs -------------------------
(***************************************************************************)
(* A request changes its session once, its answers are true, and the       *)
(* records reconcile with the journal: theorems about Idempotency, for any *)
(* number of keys, requests, days, crashes and failures.                   *)
(***************************************************************************)
EXTENDS Idempotency, TLAPS

(* The inductive invariant *)

IsRecord(r) ==
  \/ r = Missing
  \/ /\ r = Record(r.outcome, r.digest, r.accepted, r.born)
     /\ r.outcome \in {"pending", "success", "failure"}
     /\ r.digest \in Digests /\ r.born \in Nat

IsTable(table) ==
  table = [k \in Keys |-> table[k]] /\ \A k \in Keys : IsRecord(table[k])

Entries == [key : Keys, digest : Digests, born : Nat, answered : BOOLEAN]
Answers == [key : Keys, digest : Digests, born : Nat, answer : {"success", "failure"}]
CommandsOfKeys == [key : Keys, digest : Digests, born : Nat,
                   result : {"none", "success", "failure"}]

\* What the variables may hold, as far as the proof needs it.
TypeInv ==
  /\ IsTable(records) /\ IsTable(index)
  /\ journal \in Seq(Entries) /\ told \subseteq Answers /\ today \in Nat
  /\ step \in {"idle", "record", "execute", "accept", "complete"}
  /\ step # "idle" => command \in CommandsOfKeys

\* A table remembers that k was used by a record of that age.
Remembers(table, k, born) ==
  IF table[k] = Missing THEN k \in Standard /\ born < today ELSE born <= table[k].born

\* An outcome of a request, told or recorded, agrees with the journal.
IsTrue(k, digest, born, answer) ==
  LET commits(i) == journal[i].key = k /\ journal[i].digest = digest /\ journal[i].born = born
  IN /\ answer = "success" => \E i \in DOMAIN journal : commits(i)
     /\ answer = "failure" => \A i \in DOMAIN journal : commits(i) => ~journal[i].answered

\* The journal's requests of a key, unless keys are used again.
SameRequest(k, digest) ==
  ~MayReuse => \A i \in DOMAIN journal : journal[i].key = k => journal[i].digest = digest

TableInv(table) ==
  /\ \A i \in DOMAIN journal : Remembers(table, journal[i].key, journal[i].born)
  /\ \A a \in told : Remembers(table, a.key, a.born)
  /\ \A k \in Keys : table[k] # Missing =>
       /\ SameRequest(k, table[k].digest)
       /\ IsTrue(k, table[k].digest, table[k].born, table[k].outcome)

\* The index remembers what the memory does.
IndexFollows ==
  \A k \in Keys : records[k] # Missing => Remembers(index, k, records[k].born)

\* Before its record is saved, a command's key has none.
BeforeRecord ==
  step = "record" =>
    records[command.key] = Missing /\ SameRequest(command.key, command.digest)

\* Its record pends while it is executed, and it is the first of its age.
Pends(table) ==
  IF table[command.key] = Missing
  THEN command.key \in Standard /\ command.born < today
  ELSE /\ table[command.key].outcome = "pending"
       /\ table[command.key].digest = command.digest
       /\ table[command.key].born = command.born

BeforeCommit ==
  step = "execute" =>
    /\ Pends(records) /\ Pends(index)
    /\ SameRequest(command.key, command.digest)
    /\ \A i \in DOMAIN journal : journal[i].key = command.key =>
         command.key \in Standard /\ journal[i].born < command.born
    /\ \A a \in told : a.key = command.key => a.born < command.born

\* Then its result is true, and its record still its own.
AfterCommit ==
  step \in {"accept", "complete"} =>
    /\ command.result \in {"success", "failure"}
    /\ step = "accept" => command.result = "success"
    /\ IsTrue(command.key, command.digest, command.born, command.result)
    /\ records[command.key] # Missing =>
         /\ records[command.key].digest = command.digest
         /\ records[command.key].born = command.born

\* Every answer is true.
ToldInv == \A a \in told : IsTrue(a.key, a.digest, a.born, a.answer)

\* All of it.
IInv ==
  /\ TypeInv /\ TableInv(records) /\ TableInv(index) /\ IndexFollows
  /\ BeforeRecord /\ BeforeCommit /\ AfterCommit
  /\ AtMostOnce /\ ToldInv

-----------------------------------------------------------------------------
(* Saves that forget only what expired *)

\* Of each record, new keeps what the invariant speaks of, or it has expired.
Kept(old, new) ==
  \A k \in Keys :
    IF old[k] = Missing THEN new[k] = Missing
    ELSE \/ new[k] = Missing /\ k \in Standard /\ old[k].born < today
         \/ /\ new[k] # Missing
            /\ new[k].digest = old[k].digest /\ new[k].born = old[k].born
            /\ new[k].outcome = old[k].outcome

\* What a table remembers of a key, it still remembers.
LEMMA KeptRemembers ==
  ASSUME NEW old, NEW new, IsTable(old), Kept(old, new), today \in Nat,
         NEW k \in Keys, NEW born \in Nat, Remembers(old, k, born)
  PROVE  Remembers(new, k, born)
BY DEF Kept, Remembers, IsTable, IsRecord

\* A table that kept its records keeps its part of the invariant.
LEMMA KeptTable ==
  ASSUME NEW old, NEW new, TypeInv, IsTable(old), Kept(old, new), TableInv(old)
  PROVE  TableInv(new)
<1>1. \A i \in DOMAIN journal : journal[i] \in Entries
  BY DEF TypeInv
<1>2. \A i \in DOMAIN journal : Remembers(new, journal[i].key, journal[i].born)
  BY <1>1, KeptRemembers DEF TypeInv, TableInv, Entries
<1>3. \A a \in told : Remembers(new, a.key, a.born)
  BY KeptRemembers DEF TypeInv, TableInv, Answers
<1>4. ASSUME NEW k \in Keys, new[k] # Missing
      PROVE  /\ SameRequest(k, new[k].digest)
             /\ IsTrue(k, new[k].digest, new[k].born, new[k].outcome)
  BY <1>4 DEF Kept, TableInv
<1> QED BY <1>2, <1>3, <1>4 DEF TableInv

\* The record of a command that is executed still pends.
LEMMA KeptPends ==
  ASSUME NEW old, NEW new, IsTable(old), Kept(old, new), command.key \in Keys, Pends(old)
  PROVE  Pends(new)
BY DEF Kept, Pends

\* A table keeps its own records.
LEMMA KeptSelf ==
  ASSUME NEW table
  PROVE  Kept(table, table)
BY DEF Kept

\* Such a save keeps every part of the invariant that speaks of tables.
LEMMA KeepingSave ==
  ASSUME IInv, NEW new, IsTable(new), Kept(records, new),
         Saved(new) \/ SaveFails(new), UNCHANGED <<journal, told, today, calls>>
  PROVE  /\ IsTable(records') /\ IsTable(index')
         /\ TableInv(records)' /\ TableInv(index)' /\ IndexFollows'
         /\ Kept(records, records')
         /\ index' = index \/ index' = new
<1>1. TypeInv /\ IsTable(records) /\ IsTable(index)
  BY DEF IInv, TypeInv
<1>2. Kept(records, records') /\ IsTable(records')
  BY <1>1, KeptSelf DEF Saved, SaveFails
<1>3. (index' = index \/ index' = new) /\ IsTable(index')
  BY <1>1 DEF Saved, SaveFails
<1>4. TableInv(records') /\ TableInv(new) /\ TableInv(index')
  BY <1>1, <1>2, <1>3, KeptTable DEF IInv
<1>5. TableInv(records)' /\ TableInv(index)'
  BY <1>4 DEF TableInv, Remembers, SameRequest, IsTrue
<1>6. IndexFollows'
  <2> SUFFICES ASSUME NEW k \in Keys, records'[k] # Missing
               PROVE  Remembers(index, k, records[k].born)'
    BY DEF IndexFollows
  <2>1. records[k] # Missing /\ records'[k].born = records[k].born /\ records[k].born \in Nat
    BY <1>1, <1>2 DEF Kept, IsTable, IsRecord
  <2>2. Remembers(records, k, records[k].born) /\ Remembers(index, k, records[k].born)
    BY <2>1, <1>1 DEF IInv, IndexFollows, Remembers, IsTable, IsRecord
  <2>3. Remembers(new, k, records[k].born)
    BY <2>1, <2>2, <1>1, KeptRemembers DEF TypeInv
  <2> QED BY <2>1, <2>2, <2>3, <1>3 DEF Remembers
<1> QED BY <1>2, <1>3, <1>5, <1>6

-----------------------------------------------------------------------------
(* Each action keeps the invariant *)

\* Steps that change neither the tables nor the history.
LEMMA SameHistory ==
  ASSUME IInv, UNCHANGED <<store, journal, told, today>>
  PROVE  TableInv(records)' /\ TableInv(index)' /\ IndexFollows' /\ AtMostOnce' /\ ToldInv'
BY DEF IInv, TableInv, Remembers, SameRequest, IsTrue, IndexFollows, AtMostOnce, ToldInv, store

\* Another accepted transaction leaves a record what it was.
LEMMA AcceptedRecord ==
  ASSUME NEW r, IsRecord(r), r # Missing, NEW n
  PROVE  [r EXCEPT !.accepted = n] = Record(r.outcome, r.digest, n, r.born)
<1>1. r = [outcome |-> r.outcome, digest |-> r.digest, accepted |-> r.accepted, born |-> r.born]
  BY DEF IsRecord, Record
<1> QED BY <1>1 DEF Record

\* store_outcome changes the outcome of a record only.
LEMMA CompletedRecord ==
  ASSUME NEW r, IsRecord(r), r # Missing, NEW outcome
  PROVE  [r EXCEPT !.outcome = outcome] = Record(outcome, r.digest, r.accepted, r.born)
<1>1. r = [outcome |-> r.outcome, digest |-> r.digest, accepted |-> r.accepted, born |-> r.born]
  BY DEF IsRecord, Record
<1> QED BY <1>1 DEF Record

\* A record with another accepted transaction, field by field.
LEMMA SameRecord ==
  ASSUME NEW r, IsRecord(r), r # Missing, NEW n, NEW s,
         s = Record(r.outcome, r.digest, n, r.born)
  PROVE  /\ IsRecord(s) /\ s # Missing
         /\ s.digest = r.digest /\ s.born = r.born /\ s.outcome = r.outcome
BY DEF IsRecord, Record, Missing

\* An empty store satisfies the invariant.
LEMMA InitIInv == Init => IInv
BY DEF Init, IInv, TypeInv, IsTable, IsRecord, TableInv, IndexFollows, BeforeRecord,
       BeforeCommit, AfterCommit, AtMostOnce, ToldInv

\* prune_expired forgets only what is over.
LEMMA PruneKeeps ==
  ASSUME IInv, Prune
  PROVE  IInv'
<1> DEFINE kept == [k \in Keys |-> IF IsExpired(k) THEN Missing ELSE records[k]]
<1>1. IsTable(kept) /\ Kept(records, kept)
  BY DEF IInv, TypeInv, IsTable, IsRecord, Kept, IsExpired, Present
<1>2. (Saved(kept) \/ SaveFails(kept)) /\ UNCHANGED <<journal, told, today, calls>>
  BY DEF Prune, log
<1> HIDE DEF kept
<1>3. /\ IsTable(records') /\ IsTable(index')
      /\ TableInv(records)' /\ TableInv(index)' /\ IndexFollows'
      /\ Kept(records, records') /\ (index' = index \/ index' = kept)
  BY <1>1, <1>2, KeepingSave
<1>4. UNCHANGED <<journal, told, today, step, command>>
  BY DEF Prune, log
<1>5. TypeInv'
  BY <1>3, <1>4 DEF IInv, TypeInv
<1>6. BeforeRecord'
  BY <1>3, <1>4 DEF IInv, TypeInv, CommandsOfKeys, BeforeRecord, Kept, SameRequest
<1>7. BeforeCommit'
  <2>1. ASSUME step = "execute" PROVE Pends(records') /\ Pends(index')
    BY <2>1, <1>1, <1>3, KeptPends DEF IInv, TypeInv, CommandsOfKeys, BeforeCommit
  <2> QED BY <2>1, <1>4 DEF IInv, BeforeCommit, Pends, SameRequest
<1>8. AfterCommit'
  BY <1>3, <1>4 DEF IInv, TypeInv, CommandsOfKeys, AfterCommit, Kept, IsTrue
<1>9. AtMostOnce' /\ ToldInv'
  BY <1>4 DEF IInv, AtMostOnce, ToldInv, IsTrue
<1> QED BY <1>3, <1>5, <1>6, <1>7, <1>8, <1>9 DEF IInv

\* mark_command_accepted, whether or not its save succeeds.
LEMMA AcceptKeeps ==
  ASSUME IInv, Accept
  PROVE  IInv'
<1> DEFINE new == [records EXCEPT ![command.key].accepted = Len(journal)]
<1>1. UNCHANGED <<journal, told, today, calls, command>> /\ step' = "complete"
  BY DEF Accept, log
<1>2. command.key \in Keys /\ command \in CommandsOfKeys
  BY DEF IInv, TypeInv, Accept, CommandsOfKeys
<1>3. /\ IsTable(records') /\ IsTable(index')
      /\ TableInv(records)' /\ TableInv(index)' /\ IndexFollows'
      /\ Kept(records, records')
  <2>1. CASE Present(command.key)
    <3>1. IsTable(records)
      BY DEF IInv, TypeInv
    <3>2. new = [k \in Keys |->
                   IF k = command.key THEN [records[k] EXCEPT !.accepted = Len(journal)]
                   ELSE records[k]]
      BY <3>1, Zenon DEF IsTable
    <3>3. /\ IsRecord(new[command.key]) /\ new[command.key] # Missing
          /\ new[command.key].digest = records[command.key].digest
          /\ new[command.key].born = records[command.key].born
          /\ new[command.key].outcome = records[command.key].outcome
      <4>1. new[command.key] = [records[command.key] EXCEPT !.accepted = Len(journal)]
        BY <3>2, <1>2, Zenon
      <4>2. IsRecord(records[command.key]) /\ records[command.key] # Missing
        BY <2>1, <1>2, <3>1 DEF IsTable, Present
      <4> DEFINE r == records[command.key]
      <4>3. new[command.key] = Record(r.outcome, r.digest, Len(journal), r.born)
        BY <4>1, <4>2, AcceptedRecord, Zenon
      <4> HIDE DEF new
      <4> QED BY <4>2, <4>3, SameRecord
    <3>4. \A k \in Keys : k # command.key => new[k] = records[k]
      BY <3>2, Zenon
    <3>5. Saved(new) \/ SaveFails(new)
      BY <2>1 DEF Accept
    <3>6. new = [k \in Keys |-> new[k]]
      BY <3>2, Zenon
    <3> HIDE DEF new
    <3>7. IsTable(new) /\ Kept(records, new)
      BY <1>2, <2>1, <3>1, <3>3, <3>4, <3>6 DEF IsTable, Kept, Present
    <3> QED BY <3>5, <3>7, <1>1, KeepingSave
  <2>2. CASE ~Present(command.key)
    <3>1. UNCHANGED store
      BY <2>2 DEF Accept
    <3> QED BY <3>1, <1>1, SameHistory, KeptSelf DEF IInv, TypeInv, store
  <2> QED BY <2>1, <2>2
<1>4. TypeInv'
  BY <1>1, <1>2, <1>3 DEF IInv, TypeInv
<1>5. BeforeRecord' /\ BeforeCommit'
  BY <1>1 DEF BeforeRecord, BeforeCommit
<1>6. AfterCommit'
  BY <1>1, <1>2, <1>3 DEF IInv, AfterCommit, Kept, IsTrue, Accept
<1>7. AtMostOnce' /\ ToldInv'
  BY <1>1 DEF IInv, AtMostOnce, ToldInv, IsTrue
<1> QED BY <1>3, <1>4, <1>5, <1>6, <1>7 DEF IInv

\* reconcile_accepted, when it accepts the journal.
LEMMA OpenKeeps ==
  ASSUME IInv, Open
  PROVE  IInv'
<1> DEFINE new == [k \in Keys |-> Reconciled(k)]
<1>1. UNCHANGED <<journal, told, today, calls, command, step>>
  BY DEF Open, log
<1>2. IsTable(new) /\ Kept(records, new)
  <2>1. ASSUME NEW k \in Keys
        PROVE  /\ IsRecord(Reconciled(k))
               /\ records[k] = Missing => Reconciled(k) = Missing
               /\ records[k] # Missing =>
                    /\ Reconciled(k) # Missing /\ Reconciled(k).digest = records[k].digest
                    /\ Reconciled(k).born = records[k].born
                    /\ Reconciled(k).outcome = records[k].outcome
    <3>1. IsRecord(records[k])
      BY DEF IInv, TypeInv, IsTable
    <3> DEFINE last == CHOOSE i \in Audits(k) : \A j \in Audits(k) : j <= i
               n == IF records[k].accepted < last THEN last ELSE records[k].accepted
    <3>2. \/ Reconciled(k) = records[k]
          \/ records[k] # Missing /\ Reconciled(k) = [records[k] EXCEPT !.accepted = n]
      BY Zenon DEF Reconciled
    <3> HIDE DEF n
    <3>3. CASE Reconciled(k) = records[k]
      BY <3>1, <3>3
    <3>4. CASE records[k] # Missing /\ Reconciled(k) = [records[k] EXCEPT !.accepted = n]
      <4> DEFINE r == records[k]
      <4>1. Reconciled(k) = Record(r.outcome, r.digest, n, r.born)
        BY <3>1, <3>4, AcceptedRecord, Zenon
      <4> QED BY <3>1, <3>4, <4>1, SameRecord
    <3> QED BY <3>2, <3>3, <3>4
  <2> QED BY <2>1 DEF IsTable, Kept
<1>3. /\ IsTable(records') /\ IsTable(index')
      /\ TableInv(records)' /\ TableInv(index)' /\ IndexFollows'
      /\ Kept(records, records') /\ (index' = index \/ index' = new)
  <2>1. CASE UNCHANGED store
    BY <2>1, <1>1, SameHistory, KeptSelf DEF IInv, TypeInv, store
  <2>2. CASE Saved(new) \/ SaveFails(new)
    <3> HIDE DEF new
    <3> QED BY <2>2, <1>1, <1>2, KeepingSave
  <2> QED BY <2>1, <2>2 DEF Open
<1> HIDE DEF new
<1>4. TypeInv'
  BY <1>1, <1>3 DEF IInv, TypeInv
<1>5. BeforeRecord'
  BY <1>1, <1>3 DEF IInv, TypeInv, CommandsOfKeys, BeforeRecord, Kept, SameRequest
<1>6. BeforeCommit'
  <2>1. ASSUME step = "execute" PROVE Pends(records') /\ Pends(index')
    BY <2>1, <1>2, <1>3, KeptPends DEF IInv, TypeInv, CommandsOfKeys, BeforeCommit
  <2> QED BY <2>1, <1>1 DEF IInv, BeforeCommit, Pends, SameRequest
<1>7. AfterCommit'
  BY <1>1, <1>3 DEF IInv, TypeInv, CommandsOfKeys, AfterCommit, Kept, IsTrue
<1>8. AtMostOnce' /\ ToldInv'
  BY <1>1 DEF IInv, AtMostOnce, ToldInv, IsTrue
<1> QED BY <1>3, <1>4, <1>5, <1>6, <1>7, <1>8 DEF IInv

\* pending_record: what the table had forgotten of the key is older.
LEMMA RecordPendingKeeps ==
  ASSUME IInv, RecordPending
  PROVE  IInv'
<1> DEFINE k0 == command.key
           pending == Record("pending", command.digest, 0, today)
           new == [records EXCEPT ![k0] = pending]
<1>1. /\ UNCHANGED <<journal, told, today>> /\ step = "record"
      /\ \/ Saved(new) /\ step' = "execute" /\ command' = [command EXCEPT !.born = today]
         \/ SaveFails(new) /\ step' = "idle"
  BY DEF RecordPending, log
<1>2. /\ command \in CommandsOfKeys /\ k0 \in Keys /\ records[k0] = Missing
      /\ SameRequest(k0, command.digest) /\ today \in Nat /\ IsTable(records) /\ IsTable(index)
  BY <1>1 DEF IInv, TypeInv, BeforeRecord, CommandsOfKeys
<1>3. /\ pending.outcome = "pending" /\ pending.digest = command.digest
      /\ pending.born = today /\ pending # Missing /\ IsRecord(pending)
  BY <1>2 DEF Record, Missing, IsRecord, CommandsOfKeys
<1>4. new[k0] = pending /\ (\A k \in Keys : k # k0 => new[k] = records[k])
  BY <1>2 DEF IsTable
<1>5. new = [k \in Keys |-> new[k]]
  BY <1>2 DEF IsTable
<1> HIDE DEF new, pending
<1>6. IsTable(new)
  BY <1>2, <1>3, <1>4, <1>5 DEF IsTable
<1>7. TableInv(new)
  <2>1. \A i \in DOMAIN journal : journal[i] \in Entries
    BY DEF IInv, TypeInv
  <2>2. \A i \in DOMAIN journal : Remembers(new, journal[i].key, journal[i].born)
    BY <1>2, <1>3, <1>4, <2>1 DEF IInv, TableInv, Remembers, Entries
  <2>3. \A a \in told : Remembers(new, a.key, a.born)
    BY <1>2, <1>3, <1>4 DEF IInv, TypeInv, Answers, TableInv, Remembers
  <2>4. ASSUME NEW k \in Keys, new[k] # Missing
        PROVE  /\ SameRequest(k, new[k].digest)
               /\ IsTrue(k, new[k].digest, new[k].born, new[k].outcome)
    <3>1. CASE k = k0
      BY <3>1, <1>2, <1>3, <1>4 DEF IsTrue
    <3>2. CASE k # k0
      BY <3>2, <2>4, <1>4 DEF IInv, TableInv
    <3> QED BY <3>1, <3>2
  <2> QED BY <2>2, <2>3, <2>4 DEF TableInv
<1>8. /\ TableInv(records)' /\ TableInv(index)' /\ AtMostOnce' /\ ToldInv'
  <2>1. TableInv(records') /\ TableInv(index')
    BY <1>1, <1>7 DEF IInv, Saved, SaveFails
  <2> QED BY <2>1, <1>1 DEF IInv, TableInv, Remembers, SameRequest, IsTrue, AtMostOnce, ToldInv
<1>9. TypeInv'
  <2>1. IsTable(records') /\ IsTable(index')
    BY <1>1, <1>2, <1>6 DEF Saved, SaveFails
  <2>2. step' = "execute" => command' \in CommandsOfKeys
    BY <1>1, <1>2 DEF CommandsOfKeys
  <2> QED BY <1>1, <2>1, <2>2 DEF IInv, TypeInv
<1>10. IndexFollows'
  <2> SUFFICES ASSUME NEW k \in Keys, records'[k] # Missing
               PROVE  Remembers(index, k, records[k].born)'
    BY DEF IndexFollows
  <2>1. CASE Saved(new)
    BY <2>1, <1>6 DEF Saved, Remembers, IsTable, IsRecord
  <2>2. CASE SaveFails(new)
    <3>1. records[k] # Missing /\ k # k0 /\ records' = records
      BY <2>2, <1>2 DEF SaveFails
    <3>2. Remembers(index, k, records[k].born) /\ records[k].born \in Nat
      BY <3>1, <1>2 DEF IInv, IndexFollows, IsTable, IsRecord
    <3>3. Remembers(new, k, records[k].born)
      BY <3>1, <3>2, <1>4 DEF Remembers
    <3> QED BY <2>2, <1>1, <3>1, <3>2, <3>3 DEF SaveFails, Remembers
  <2> QED BY <1>1, <2>1, <2>2
<1>11. BeforeRecord' /\ AfterCommit'
  BY <1>1 DEF BeforeRecord, AfterCommit
<1>12. BeforeCommit'
  <2> SUFFICES ASSUME step' = "execute" PROVE BeforeCommit'
    BY DEF BeforeCommit
  <2>1. /\ records' = new /\ index' = new
        /\ command'.key = k0 /\ command'.digest = command.digest /\ command'.born = today
    BY <1>1, <1>2 DEF Saved, CommandsOfKeys
  <2>2. Pends(records)' /\ Pends(index)'
    BY <2>1, <1>3, <1>4 DEF Pends
  <2>3. \A i \in DOMAIN journal : journal[i].key = k0 => k0 \in Standard /\ journal[i].born < today
    BY <1>2 DEF IInv, TableInv, Remembers
  <2>4. \A a \in told : a.key = k0 => a.born < today
    BY <1>2 DEF IInv, TableInv, Remembers
  <2> QED BY <2>1, <2>2, <2>3, <2>4, <1>1, <1>2 DEF BeforeCommit, SameRequest
<1> QED BY <1>8, <1>9, <1>10, <1>11, <1>12 DEF IInv

\* A replayed outcome is as true as the record's.
LEMMA ReplayKeeps ==
  ASSUME IInv, NEW k \in Keys, NEW digest \in Digests, Replay(k, digest)
  PROVE  IInv'
<1>1. CASE UNCHANGED told
  <2>1. TableInv(records)' /\ TableInv(index)' /\ IndexFollows' /\ AtMostOnce' /\ ToldInv'
    BY <1>1, SameHistory DEF Replay, log
  <2>2. TypeInv' /\ BeforeRecord' /\ BeforeCommit' /\ AfterCommit'
    BY <1>1 DEF IInv, Replay, Received, store, log, TypeInv, BeforeRecord, BeforeCommit, AfterCommit
  <2> QED BY <2>1, <2>2 DEF IInv
<1>2. CASE Tell(k, digest, records[k].born, records[k].outcome)
           /\ records[k].digest = digest /\ records[k].outcome # "pending"
  <2> DEFINE a0 == [key |-> k, digest |-> digest, born |-> records[k].born,
                    answer |-> records[k].outcome]
  <2>1. /\ UNCHANGED <<records, index, journal, today, step, command>>
        /\ step = "idle" /\ told' = told \cup {a0} /\ records[k] # Missing
    BY <1>2 DEF Replay, Received, Tell, store, log, Present
  <2>2. /\ a0 \in Answers /\ a0.key = k /\ a0.born = records[k].born
        /\ a0.digest = records[k].digest /\ a0.answer = records[k].outcome
    BY <1>2, <2>1 DEF IInv, TypeInv, IsTable, IsRecord, Answers
  <2> HIDE DEF a0
  <2>3. Remembers(records, k, a0.born) /\ Remembers(index, k, a0.born)
    BY <2>1, <2>2 DEF IInv, IndexFollows, Remembers, Answers
  <2>4. IsTrue(k, a0.digest, a0.born, a0.answer)
    BY <2>1, <2>2 DEF IInv, TableInv
  <2>5. TypeInv'
    BY <2>1, <2>2 DEF IInv, TypeInv
  <2>6. TableInv(records)' /\ TableInv(index)'
    BY <2>1, <2>2, <2>3 DEF IInv, TableInv, Remembers, SameRequest, IsTrue
  <2>7. ToldInv'
    BY <2>1, <2>2, <2>4 DEF IInv, ToldInv, IsTrue
  <2>8. IndexFollows' /\ BeforeRecord' /\ BeforeCommit' /\ AfterCommit' /\ AtMostOnce'
    BY <2>1 DEF IInv, IndexFollows, Remembers, BeforeRecord, BeforeCommit, AfterCommit, AtMostOnce
  <2> QED BY <2>5, <2>6, <2>7, <2>8 DEF IInv
<1> QED BY <1>1, <1>2 DEF Replay

\* A command is prepared when its key has no record.
LEMMA PrepareKeeps ==
  ASSUME IInv, NEW k \in Keys, NEW digest \in Digests, Prepare(k, digest)
  PROVE  IInv'
<1>1. /\ UNCHANGED <<records, index, journal, told, today>> /\ records[k] = Missing
      /\ SameRequest(k, digest) /\ step = "idle"
      /\ \/ step' = "record"
            /\ command' = [key |-> k, digest |-> digest, born |-> 0, result |-> "none"]
         \/ step' = "idle"
  BY DEF Prepare, Received, Present, store, log, SameRequest
<1>2. TableInv(records)' /\ TableInv(index)' /\ IndexFollows' /\ AtMostOnce' /\ ToldInv'
  BY <1>1, SameHistory DEF store
<1>3. TypeInv'
  BY <1>1 DEF IInv, TypeInv, CommandsOfKeys
<1>4. BeforeRecord' /\ BeforeCommit' /\ AfterCommit'
  BY <1>1 DEF BeforeRecord, BeforeCommit, AfterCommit, SameRequest
<1> QED BY <1>2, <1>3, <1>4 DEF IInv

\* The commit of a command, answered or not: no earlier one is of its age.
LEMMA CommitKeeps ==
  ASSUME IInv, step = "execute", NEW answered \in BOOLEAN, Committed(answered),
         UNCHANGED <<records, index, told, today>>,
         command'.key = command.key, command'.digest = command.digest,
         command'.born = command.born
  PROVE  /\ journal' \in Seq(Entries)
         /\ TableInv(records)' /\ TableInv(index)' /\ IndexFollows'
         /\ AtMostOnce' /\ ToldInv'
         /\ IsTrue(command.key, command.digest, command.born, "success")'
         /\ ~answered => IsTrue(command.key, command.digest, command.born, "failure")'
<1> DEFINE e == [key |-> command.key, digest |-> command.digest,
                 born |-> command.born, answered |-> answered]
           n == Len(journal) + 1
<1>1. command \in CommandsOfKeys /\ journal \in Seq(Entries) /\ told \subseteq Answers
  BY DEF IInv, TypeInv
<1>2. e \in Entries /\ e.key = command.key /\ e.digest = command.digest
      /\ e.born = command.born /\ e.answered = answered
  BY <1>1 DEF CommandsOfKeys, Entries
<1>3. journal' = Append(journal, e)
  BY DEF Committed
<1> HIDE DEF e
<1>4. /\ journal' \in Seq(Entries) /\ n \in DOMAIN journal' /\ journal'[n] = e
      /\ \A i \in DOMAIN journal' : i = n \/ (i \in DOMAIN journal /\ journal'[i] = journal[i])
      /\ \A i \in DOMAIN journal : i \in DOMAIN journal' /\ journal'[i] = journal[i] /\ i < n
      /\ DOMAIN journal' \subseteq Nat
  BY <1>1, <1>2, <1>3
<1>5. \A i \in DOMAIN journal : journal[i] \in Entries
  BY <1>1
<1> HIDE DEF n
<1>6. /\ Pends(records) /\ Pends(index) /\ SameRequest(command.key, command.digest)
      /\ \A i \in DOMAIN journal : journal[i].key = command.key =>
           command.key \in Standard /\ journal[i].born < command.born
      /\ \A a \in told : a.key = command.key => a.born < command.born
  BY DEF IInv, BeforeCommit
<1>7. ASSUME NEW table, TableInv(table), Pends(table)
      PROVE  /\ \A i \in DOMAIN journal' : Remembers(table, journal'[i].key, journal'[i].born)
             /\ \A k \in Keys : table[k] # Missing =>
                  /\ ~MayReuse => \A i \in DOMAIN journal' :
                                   journal'[i].key = k => journal'[i].digest = table[k].digest
                  /\ IsTrue(k, table[k].digest, table[k].born, table[k].outcome)'
  <2>1. \A i \in DOMAIN journal' : Remembers(table, journal'[i].key, journal'[i].born)
    <3>1. Remembers(table, e.key, e.born)
      BY <1>1, <1>2, <1>7 DEF Pends, Remembers, CommandsOfKeys
    <3> QED BY <3>1, <1>4, <1>7 DEF TableInv
  <2>2. ASSUME NEW k \in Keys, table[k] # Missing
        PROVE  /\ ~MayReuse => \A i \in DOMAIN journal' :
                                journal'[i].key = k => journal'[i].digest = table[k].digest
               /\ IsTrue(k, table[k].digest, table[k].born, table[k].outcome)'
    <3>1. CASE k = command.key
      BY <3>1, <2>2, <1>2, <1>4, <1>6, <1>7 DEF Pends, IsTrue, SameRequest
    <3>2. CASE k # command.key
      BY <3>2, <2>2, <1>2, <1>4, <1>7 DEF TableInv, IsTrue, SameRequest
    <3> QED BY <3>1, <3>2
  <2> QED BY <2>1, <2>2
<1>8. TableInv(records)' /\ TableInv(index)'
  BY <1>6, <1>7 DEF IInv, TableInv, Remembers, SameRequest, IsTrue
<1>9. IndexFollows'
  BY DEF IInv, IndexFollows, Remembers
<1>10. AtMostOnce'
  BY <1>2, <1>4, <1>6 DEF IInv, AtMostOnce
<1>11. ToldInv'
  <2> SUFFICES ASSUME NEW a \in told PROVE IsTrue(a.key, a.digest, a.born, a.answer)'
    BY DEF ToldInv
  <2>1. IsTrue(a.key, a.digest, a.born, a.answer)
    BY DEF IInv, ToldInv
  <2>2. a \in Answers /\ (a.key = command.key => a.born < command.born)
    BY <1>1, <1>6
  <2>3. ~(e.key = a.key /\ e.born = a.born)
    BY <2>2, <1>1, <1>2 DEF Answers, CommandsOfKeys
  <2> QED BY <2>1, <2>3, <1>4 DEF IsTrue
<1>12. IsTrue(command.key, command.digest, command.born, "success")'
  BY <1>2, <1>4 DEF IsTrue
<1>13. ~answered => IsTrue(command.key, command.digest, command.born, "failure")'
  <2>1. \A i \in DOMAIN journal : ~(journal[i].key = command.key /\ journal[i].born = command.born)
    BY <1>1, <1>5, <1>6 DEF CommandsOfKeys, Entries
  <2> QED BY <2>1, <1>2, <1>4 DEF IsTrue
<1> QED BY <1>4, <1>8, <1>9, <1>10, <1>11, <1>12, <1>13

\* A commit that is answered.
LEMMA ExecuteKeeps ==
  ASSUME IInv, Execute
  PROVE  IInv'
<1>1. /\ UNCHANGED <<records, index, told, today>> /\ step = "execute" /\ step' = "accept"
      /\ Committed(TRUE) /\ command' = [command EXCEPT !.result = "success"]
  BY DEF Execute, store
<1>2. command \in CommandsOfKeys
  BY <1>1 DEF IInv, TypeInv
<1>3. /\ command' \in CommandsOfKeys /\ command'.key = command.key
      /\ command'.digest = command.digest /\ command'.born = command.born
      /\ command'.result = "success"
  BY <1>1, <1>2 DEF CommandsOfKeys
<1>4. /\ journal' \in Seq(Entries)
      /\ TableInv(records)' /\ TableInv(index)' /\ IndexFollows' /\ AtMostOnce' /\ ToldInv'
      /\ IsTrue(command.key, command.digest, command.born, "success")'
  BY <1>1, <1>3, CommitKeeps
<1>5. TypeInv'
  BY <1>1, <1>3, <1>4 DEF IInv, TypeInv
<1>6. BeforeRecord' /\ BeforeCommit'
  BY <1>1 DEF BeforeRecord, BeforeCommit
<1>7. AfterCommit'
  BY <1>1, <1>2, <1>3, <1>4 DEF IInv, BeforeCommit, Pends, AfterCommit
<1> QED BY <1>4, <1>5, <1>6, <1>7 DEF IInv

\* A commit that fails, with or without its transaction in the journal.
LEMMA ExecuteFailsKeeps ==
  ASSUME IInv, ExecuteFails
  PROVE  IInv'
<1>1. /\ UNCHANGED <<records, index, told, today>> /\ step = "execute" /\ step' = "complete"
      /\ Committed(FALSE) \/ UNCHANGED journal
      /\ command' = [command EXCEPT !.result = "failure"]
  BY DEF ExecuteFails, store
<1>2. command \in CommandsOfKeys
  BY <1>1 DEF IInv, TypeInv
<1>3. /\ command' \in CommandsOfKeys /\ command'.key = command.key
      /\ command'.digest = command.digest /\ command'.born = command.born
      /\ command'.result = "failure"
  BY <1>1, <1>2 DEF CommandsOfKeys
<1>4. /\ journal' \in Seq(Entries)
      /\ TableInv(records)' /\ TableInv(index)' /\ IndexFollows' /\ AtMostOnce' /\ ToldInv'
      /\ IsTrue(command.key, command.digest, command.born, "failure")'
  <2>1. CASE Committed(FALSE)
    BY <2>1, <1>1, <1>3, CommitKeeps
  <2>2. CASE UNCHANGED journal
    <3>1. TableInv(records)' /\ TableInv(index)' /\ IndexFollows' /\ AtMostOnce' /\ ToldInv'
      BY <2>2, <1>1, SameHistory DEF store
    <3>2. journal' \in Seq(Entries)
      BY <2>2 DEF IInv, TypeInv
    <3>3. \A i \in DOMAIN journal : journal[i] \in Entries
      BY DEF IInv, TypeInv
    <3>4. \A i \in DOMAIN journal : journal[i].key = command.key => journal[i].born < command.born
      BY <1>1 DEF IInv, BeforeCommit
    <3>5. IsTrue(command.key, command.digest, command.born, "failure")'
      BY <2>2, <1>2, <1>3, <3>3, <3>4 DEF IsTrue, CommandsOfKeys, Entries
    <3> QED BY <3>1, <3>2, <3>5
  <2> QED BY <1>1, <2>1, <2>2
<1>5. TypeInv'
  BY <1>1, <1>3, <1>4 DEF IInv, TypeInv
<1>6. BeforeRecord' /\ BeforeCommit'
  BY <1>1 DEF BeforeRecord, BeforeCommit
<1>7. AfterCommit'
  BY <1>1, <1>2, <1>3, <1>4 DEF IInv, BeforeCommit, Pends, AfterCommit
<1> QED BY <1>4, <1>5, <1>6, <1>7 DEF IInv

\* A command that is not committed: nothing of its age is in the journal.
LEMMA RejectKeeps ==
  ASSUME IInv, Reject
  PROVE  IInv'
<1>1. /\ UNCHANGED <<records, index, journal, told, today>>
      /\ step = "execute" /\ step' = "complete"
      /\ command' = [command EXCEPT !.result = "failure"]
  BY DEF Reject, store, log
<1>2. command \in CommandsOfKeys /\ \A i \in DOMAIN journal : journal[i] \in Entries
  BY <1>1 DEF IInv, TypeInv
<1>3. /\ command' \in CommandsOfKeys /\ command'.key = command.key
      /\ command'.digest = command.digest /\ command'.born = command.born
      /\ command'.result = "failure"
  BY <1>1, <1>2 DEF CommandsOfKeys
<1>4. TableInv(records)' /\ TableInv(index)' /\ IndexFollows' /\ AtMostOnce' /\ ToldInv'
  BY <1>1, SameHistory DEF store
<1>5. TypeInv'
  BY <1>1, <1>3 DEF IInv, TypeInv
<1>6. BeforeRecord' /\ BeforeCommit'
  BY <1>1 DEF BeforeRecord, BeforeCommit
<1>7. AfterCommit'
  <2>1. \A i \in DOMAIN journal : journal[i].key = command.key => journal[i].born < command.born
    BY <1>1 DEF IInv, BeforeCommit
  <2>2. IsTrue(command.key, command.digest, command.born, "failure")'
    BY <2>1, <1>1, <1>2, <1>3 DEF IsTrue, CommandsOfKeys, Entries
  <2> QED BY <2>2, <1>1, <1>2, <1>3 DEF IInv, BeforeCommit, Pends, AfterCommit
<1> QED BY <1>4, <1>5, <1>6, <1>7 DEF IInv

\* store_outcome, whether or not its save succeeds.
LEMMA CompleteKeeps ==
  ASSUME IInv, Complete
  PROVE  IInv'
<1> DEFINE k0 == command.key
           new == [records EXCEPT ![k0].outcome = command.result]
           a0 == [key |-> k0, digest |-> command.digest, born |-> command.born,
                  answer |-> command.result]
<1>1. /\ UNCHANGED <<journal, today>> /\ step = "complete" /\ step' = "idle"
      /\ \/ Present(k0) /\ Saved(new) /\ told' = told \cup {a0}
         \/ Present(k0) /\ SaveFails(new) /\ UNCHANGED told
         \/ UNCHANGED <<store, told>>
  BY DEF Complete, Tell, log
<1>2. /\ command \in CommandsOfKeys /\ k0 \in Keys /\ command.result \in {"success", "failure"}
      /\ IsTrue(k0, command.digest, command.born, command.result)
      /\ records[k0] # Missing =>
           records[k0].digest = command.digest /\ records[k0].born = command.born
      /\ IsTable(records) /\ IsTable(index)
  BY <1>1 DEF IInv, TypeInv, AfterCommit, CommandsOfKeys
<1>3. BeforeRecord' /\ BeforeCommit' /\ AfterCommit'
  BY <1>1 DEF BeforeRecord, BeforeCommit, AfterCommit
<1>4. AtMostOnce'
  BY <1>1 DEF IInv, AtMostOnce
<1>5. CASE UNCHANGED <<store, told>>
  <2>1. TableInv(records)' /\ TableInv(index)' /\ IndexFollows' /\ ToldInv'
    BY <1>1, <1>5, SameHistory
  <2>2. TypeInv'
    BY <1>1, <1>5 DEF IInv, TypeInv, store
  <2> QED BY <2>1, <2>2, <1>3, <1>4 DEF IInv
<1>6. CASE /\ Present(k0)
           /\ \/ Saved(new) /\ told' = told \cup {a0}
              \/ SaveFails(new) /\ UNCHANGED told
  <2>1. IsRecord(records[k0]) /\ records[k0] # Missing
    BY <1>2, <1>6 DEF IsTable, Present
  <2>2. /\ IsRecord(new[k0]) /\ new[k0] # Missing /\ new[k0].digest = command.digest
        /\ new[k0].born = command.born /\ new[k0].outcome = command.result
    <3> DEFINE r == records[k0]
    <3>1. new[k0] = [r EXCEPT !.outcome = command.result]
      BY <1>2, Zenon DEF IsTable
    <3>2. [r EXCEPT !.outcome = command.result]
            = Record(command.result, r.digest, r.accepted, r.born)
      BY <2>1, CompletedRecord, Zenon
    <3>3. new[k0] = Record(command.result, r.digest, r.accepted, r.born)
      BY <3>1, <3>2
    <3> HIDE DEF new
    <3> QED BY <3>3, <2>1, <1>2 DEF IsRecord, Record, Missing
  <2>3. new = [k \in Keys |-> new[k]] /\ \A k \in Keys : k # k0 => new[k] = records[k]
    BY <1>2, Zenon DEF IsTable
  <2>4. a0 \in Answers /\ a0.key = k0 /\ a0.digest = command.digest
        /\ a0.born = command.born /\ a0.answer = command.result
    BY <1>2 DEF CommandsOfKeys, Answers
  <2> HIDE DEF new, a0
  <2>5. IsTable(new)
    BY <1>2, <2>2, <2>3 DEF IsTable
  <2>6. TableInv(new)
    <3>1. \A k \in Keys, born \in Nat : Remembers(records, k, born) => Remembers(new, k, born)
      BY <1>2, <2>1, <2>2, <2>3 DEF Remembers
    <3>2. \A i \in DOMAIN journal : journal[i] \in Entries
      BY DEF IInv, TypeInv
    <3>3. \A i \in DOMAIN journal : Remembers(new, journal[i].key, journal[i].born)
      BY <3>1, <3>2 DEF IInv, TableInv, Entries
    <3>4. \A a \in told : Remembers(new, a.key, a.born)
      BY <3>1 DEF IInv, TypeInv, TableInv, Answers
    <3>5. ASSUME NEW k \in Keys, new[k] # Missing
          PROVE  /\ SameRequest(k, new[k].digest)
                 /\ IsTrue(k, new[k].digest, new[k].born, new[k].outcome)
      <4>1. CASE k = k0
        BY <4>1, <1>2, <2>1, <2>2 DEF IInv, TableInv
      <4>2. CASE k # k0
        BY <4>2, <3>5, <2>3 DEF IInv, TableInv
      <4> QED BY <4>1, <4>2
    <3> QED BY <3>3, <3>4, <3>5 DEF TableInv
  <2>7. TableInv(records') /\ TableInv(index') /\ IsTable(records') /\ IsTable(index')
    BY <1>2, <1>6, <2>5, <2>6 DEF IInv, Saved, SaveFails
  <2>8. told' \in SUBSET Answers /\ ToldInv'
    <3>1. told' \subseteq told \cup {a0}
      BY <1>6
    <3> QED BY <3>1, <1>1, <1>2, <2>4 DEF IInv, TypeInv, ToldInv, IsTrue
  <2>9. TableInv(records)' /\ TableInv(index)'
    <3>1. CASE UNCHANGED told
      BY <3>1, <1>1, <2>7 DEF TableInv, Remembers, SameRequest, IsTrue
    <3>2. CASE Saved(new) /\ told' = told \cup {a0}
      <4>1. Remembers(new, a0.key, a0.born)
        BY <1>2, <2>2, <2>4 DEF Remembers, CommandsOfKeys
      <4> QED BY <3>2, <4>1, <1>1, <2>6 DEF Saved, TableInv, Remembers, SameRequest, IsTrue
    <3> QED BY <1>6, <3>1, <3>2
  <2>10. IndexFollows'
    <3> SUFFICES ASSUME NEW k \in Keys, records'[k] # Missing
                 PROVE  Remembers(index, k, records[k].born)'
      BY DEF IndexFollows
    <3>1. CASE Saved(new)
      BY <3>1, <2>5 DEF Saved, Remembers, IsTable, IsRecord
    <3>2. CASE SaveFails(new)
      <4>1. records[k] # Missing /\ records' = records /\ records[k].born \in Nat
        BY <3>2, <1>2 DEF SaveFails, IsTable, IsRecord
      <4>2. Remembers(index, k, records[k].born)
        BY <4>1 DEF IInv, IndexFollows
      <4>3. Remembers(new, k, records[k].born)
        BY <4>1, <1>2, <2>2, <2>3 DEF Remembers
      <4> QED BY <3>2, <4>1, <4>2, <4>3, <1>1 DEF SaveFails, Remembers
    <3> QED BY <1>6, <3>1, <3>2
  <2>11. TypeInv'
    BY <1>1, <2>7, <2>8 DEF IInv, TypeInv
  <2> QED BY <2>8, <2>9, <2>10, <2>11, <1>3, <1>4 DEF IInv
<1> HIDE DEF new, a0
<1> QED BY <1>1, <1>5, <1>6

\* After a restart the index alone is known.
LEMMA RestartKeeps ==
  ASSUME IInv, Restart
  PROVE  IInv'
<1>1. /\ UNCHANGED <<journal, told, today>> /\ records' = index /\ index' = index /\ step' = "idle"
  BY DEF Restart, log
<1>2. TypeInv'
  BY <1>1 DEF IInv, TypeInv
<1>3. TableInv(records)' /\ TableInv(index)' /\ AtMostOnce' /\ ToldInv'
  BY <1>1 DEF IInv, TableInv, Remembers, SameRequest, IsTrue, AtMostOnce, ToldInv
<1>4. IndexFollows'
  BY <1>1 DEF IInv, TypeInv, IsTable, IsRecord, IndexFollows, Remembers
<1>5. BeforeRecord' /\ BeforeCommit' /\ AfterCommit'
  BY <1>1 DEF BeforeRecord, BeforeCommit, AfterCommit
<1> QED BY <1>2, <1>3, <1>4, <1>5 DEF IInv

\* A day that passes lets no more be forgotten.
LEMMA DayKeeps ==
  ASSUME IInv, Day
  PROVE  IInv'
<1>1. /\ UNCHANGED <<records, index, journal, told, step, command>>
      /\ today \in Nat /\ today' = today + 1
  BY DEF Day, IInv, TypeInv, store, log
<1>2. TypeInv'
  BY <1>1 DEF IInv, TypeInv
<1>3. ASSUME NEW table, NEW k, NEW born \in Nat, Remembers(table, k, born)
      PROVE  IF table[k] = Missing THEN k \in Standard /\ born < today' ELSE born <= table[k].born
  BY <1>1, <1>3 DEF Remembers
<1>4. /\ \A i \in DOMAIN journal : journal[i].born \in Nat
      /\ \A a \in told : a.born \in Nat
      /\ \A k \in Keys : records[k] # Missing => records[k].born \in Nat
  <2>1. \A i \in DOMAIN journal : journal[i] \in Entries
    BY DEF IInv, TypeInv
  <2>2. \A k \in Keys : records[k] # Missing => records[k].born \in Nat
    BY DEF IInv, TypeInv, IsTable, IsRecord
  <2> QED BY <2>1, <2>2 DEF IInv, TypeInv, Entries, Answers
<1>5. TableInv(records)' /\ TableInv(index)'
  BY <1>1, <1>3, <1>4 DEF IInv, TableInv, Remembers, SameRequest, IsTrue
<1>6. IndexFollows'
  BY <1>1, <1>3, <1>4 DEF IInv, IndexFollows, Remembers
<1>7. BeforeRecord' /\ AfterCommit' /\ AtMostOnce' /\ ToldInv'
  BY <1>1 DEF IInv, BeforeRecord, AfterCommit, AtMostOnce, ToldInv, SameRequest, IsTrue
<1>8. BeforeCommit'
  <2>1. step = "execute" => command.born \in Nat
    BY DEF IInv, TypeInv, CommandsOfKeys
  <2> QED BY <2>1, <1>1 DEF IInv, BeforeCommit, Pends, SameRequest
<1> QED BY <1>2, <1>5, <1>6, <1>7, <1>8 DEF IInv

\* The other actions change none of the invariant's variables, or end the command.
LEMMA OthersKeep ==
  ASSUME IInv, Uncertain \/ PruneJournal \/ Unload \/ UNCHANGED vars
  PROVE  IInv'
<1>1. /\ UNCHANGED <<store, journal, told, today>>
      /\ UNCHANGED <<step, command>> \/ step' = "idle"
  BY DEF Uncertain, PruneJournal, Unload, vars, log
<1>2. TableInv(records)' /\ TableInv(index)' /\ IndexFollows' /\ AtMostOnce' /\ ToldInv'
  BY <1>1, SameHistory
<1>3. TypeInv'
  BY <1>1 DEF IInv, TypeInv, store
<1>4. BeforeRecord' /\ BeforeCommit' /\ AfterCommit'
  BY <1>1 DEF IInv, BeforeRecord, BeforeCommit, AfterCommit, Pends, SameRequest, IsTrue, store
<1> QED BY <1>2, <1>3, <1>4 DEF IInv

\* The invariant holds in every state.
THEOREM IdempotencyInvariant == Spec => []IInv
<1>1. Init => IInv
  BY InitIInv
<1>2. IInv /\ [Next]_vars => IInv'
  <2> SUFFICES ASSUME IInv, [Next]_vars PROVE IInv'
    OBVIOUS
  <2>1. ASSUME NEW k \in Keys, NEW digest \in Digests, Replay(k, digest) \/ Prepare(k, digest)
        PROVE  IInv'
    BY <2>1, ReplayKeeps, PrepareKeeps
  <2>2. CASE RecordPending \/ Accept \/ Complete
    BY <2>2, RecordPendingKeeps, AcceptKeeps, CompleteKeeps
  <2>3. CASE Execute \/ ExecuteFails \/ Reject
    BY <2>3, ExecuteKeeps, ExecuteFailsKeeps, RejectKeeps
  <2>4. CASE Prune \/ Open \/ Restart \/ Day
    BY <2>4, PruneKeeps, OpenKeeps, RestartKeeps, DayKeeps
  <2>5. CASE Uncertain \/ PruneJournal \/ Unload \/ UNCHANGED vars
    BY <2>5, OthersKeep
  <2> QED BY <2>1, <2>2, <2>3, <2>4, <2>5 DEF Next
<1> QED BY <1>1, <1>2, PTL DEF Spec

\* However often requests are repeated, and whatever fails or dies in between, a
\* request changes the session once and every answer about it is true.
THEOREM RequestsOnceAndTrue == Spec => []OnceAndTrue
<1>1. IInv => OnceAndTrue
  <2> SUFFICES ASSUME IInv PROVE AnswersAreTrue
    BY DEF IInv, OnceAndTrue
  <2> SUFFICES ASSUME NEW a \in told
               PROVE  /\ a.answer = "success" => Commits(a) # {}
                      /\ a.answer = "failure" => \A i \in Commits(a) : ~journal[i].answered
    BY DEF AnswersAreTrue
  <2> QED BY DEF IInv, ToldInv, IsTrue, Commits
<1> QED BY <1>1, IdempotencyInvariant, PTL

\* PruneJournal's bound.
RetainedInv == retained \in Nat \ {0}

\* The journal starts at its first transaction or later.
LEMMA RetainedFromFirst == Spec => []RetainedInv
<1>1. Init => RetainedInv
  BY DEF Init, RetainedInv
<1>2. RetainedInv /\ [Next]_vars => RetainedInv'
  <2> SUFFICES ASSUME RetainedInv, [Next]_vars PROVE RetainedInv'
    OBVIOUS
  <2> USE DEF RetainedInv
  <2>1. CASE PruneJournal
    BY <2>1 DEF PruneJournal
  <2>2. CASE UNCHANGED retained
    BY <2>2
  <2>3. PruneJournal \/ UNCHANGED retained
    BY DEF Next, vars, log, Replay, Prepare, RecordPending, Execute, ExecuteFails, Reject,
                Accept, Complete, Uncertain, Prune, Open, Unload, Restart, Day, Committed
  <2> QED BY <2>1, <2>2, <2>3
<1> QED BY <1>1, <1>2, PTL DEF Spec

\* Where no key is both, and none is used again for another request, the records
\* and the index always reconcile with the journal: reconcile_accepted refuses
\* neither the session that is opened now nor one after a restart.
THEOREM SessionsReconcile ==
  ASSUME Standard \cap Protected = {}, ~MayReuse
  PROVE  Spec => []Reconciles
<1>1. IInv /\ RetainedInv => Reconciles
  <2> SUFFICES ASSUME IInv, RetainedInv, NEW k \in Keys, NEW table \in {records, index}
               PROVE  ~Refused(table, k)
    BY DEF Reconciles
  <2>1. TableInv(table) /\ \A i \in Audits(k) : journal[i].key = k
    BY DEF IInv, Audits
  <2>2. Audits(k) \subseteq DOMAIN journal
    BY DEF IInv, TypeInv, RetainedInv, Audits
  <2>3. ASSUME NEW i \in Audits(k)
        PROVE  IF table[k] = Missing THEN k \notin Protected ELSE table[k].digest = journal[i].digest
    BY <2>1, <2>2 DEF TableInv, Remembers, SameRequest
  <2> QED BY <2>3 DEF Refused
<1> QED BY <1>1, IdempotencyInvariant, RetainedFromFirst, PTL
=============================================================================
