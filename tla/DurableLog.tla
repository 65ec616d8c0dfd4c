----------------------------- MODULE DurableLog -----------------------------
(***************************************************************************)
(* What a session's store promises, without files: a log of transactions   *)
(* and the part of it that has been acknowledged.  The log grows at its    *)
(* end, an acknowledgement covers the whole log, and a failure may take     *)
(* back only transactions after the last acknowledged one.                 *)
(***************************************************************************)
EXTENDS Integers, Sequences, Functions

CONSTANT Hash

VARIABLES log, acked

logVars == <<log, acked>>

Init ==
    /\ log \in {<<h>> : h \in Hash}
    /\ acked = log

Persist ==
    /\ \E h \in Hash \ Range(log) : log' = Append(log, h)
    /\ UNCHANGED acked

Acknowledge ==
    /\ Len(acked) < Len(log)
    /\ acked' = log
    /\ UNCHANGED log

Lose ==
    /\ \E n \in Len(acked)..(Len(log) - 1) : log' = SubSeq(log, 1, n)
    /\ UNCHANGED acked

Next == Persist \/ Acknowledge \/ Lose

Spec == Init /\ [][Next]_logVars
=============================================================================
