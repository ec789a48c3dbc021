------------------------------ MODULE EventLog ------------------------------
(***************************************************************************)
(* What the writers promise together to those who submit events: one log   *)
(* for all processes, whatever shards it is spread over.  An event is      *)
(* recorded at most once and in the order its trace submitted it, is       *)
(* acknowledged only when it is recorded, is never found in the log after  *)
(* it was rejected, and leaves the log only when it has expired.           *)
(***************************************************************************)
EXTENDS Integers

CONSTANTS
    LogEvent,     \* records with a caller, a sequence and a date
    Retention     \* the days an event is kept, 0 for ever

VARIABLES
    recorded,     \* the events that are in the log
    acked,        \* the events whose submission succeeded
    rejected,     \* the events whose submission failed
    today

logVars == <<recorded, acked, rejected, today>>

LogInit ==
    /\ recorded = {}
    /\ acked = {}
    /\ rejected = {}
    /\ today = 0

Expired(e) == Retention > 0 /\ e.date < today - Retention

Record(e) ==
    /\ e \notin recorded \cup acked \cup rejected
    /\ \A f \in recorded : f.caller = e.caller => f.sequence < e.sequence
    /\ recorded' = recorded \cup {e}
    /\ UNCHANGED <<acked, rejected, today>>

Acknowledge(e) ==
    /\ e \in recorded \ rejected
    /\ acked' = acked \cup {e}
    /\ UNCHANGED <<recorded, rejected, today>>

Reject(e) ==
    /\ e \notin recorded \cup acked
    /\ rejected' = rejected \cup {e}
    /\ UNCHANGED <<recorded, acked, today>>

Expire ==
    /\ \E old \in SUBSET {e \in recorded : Expired(e)} : recorded' = recorded \ old
    /\ UNCHANGED <<acked, rejected, today>>

NextDay == today' = today + 1 /\ UNCHANGED <<recorded, acked, rejected>>

LogNext ==
    \/ \E e \in LogEvent : Record(e) \/ Acknowledge(e) \/ Reject(e)
    \/ Expire
    \/ NextDay

LogSpec == LogInit /\ [][LogNext]_logVars

=============================================================================
