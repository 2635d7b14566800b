------------------------------ MODULE EventLog ------------------------------
(***************************************************************************)
(* What the store promises, without files, indexes or processes: a log that *)
(* only grows at its end, in which a request occurs at most once, unless it *)
(* is one that may be repeated.  A suffix of the log may be unsettled, and  *)
(* only that suffix can ever be lost.                                       *)
(***************************************************************************)
EXTENDS Integers, Sequences

CONSTANTS
    Events,     \* events: each has a hash and a request ID
    Repeatable  \* request IDs that several events may have

VARIABLES
    log,       \* the events, oldest first
    settled,   \* how many of them no fault can take away
    confirmed, \* hashes answered to the caller that appended them
    replayed   \* hashes answered to a caller that asked again

logVars == <<log, settled, confirmed, replayed>>

Logged(h) == \E i \in 1..Len(log) : log[i].hash = h

Requested(q) == \E i \in 1..Len(log) : log[i].rid = q

LogInit ==
    /\ log = <<>>
    /\ settled = 0
    /\ confirmed = {}
    /\ replayed = {}

Commit(e) ==
    /\ ~Logged(e.hash)
    /\ e.rid \in Repeatable \/ ~Requested(e.rid)
    /\ log' = Append(log, e)
    /\ UNCHANGED <<settled, confirmed, replayed>>

\* The whole log is settled, and the event at its end is confirmed.
Settle ==
    /\ log # <<>>
    /\ settled' = Len(log)
    /\ confirmed' = confirmed \cup {log[Len(log)].hash}
    /\ UNCHANGED <<log, replayed>>

\* Only an event of the log is ever answered to a retry.
ReplayAnswer ==
    /\ \E i \in 1..Len(log) : replayed' = replayed \cup {log[i].hash}
    /\ UNCHANGED <<log, settled, confirmed>>

LoseTail ==
    /\ \E k \in settled..Len(log) : log' = SubSeq(log, 1, k) /\ settled' = k
    /\ UNCHANGED <<confirmed, replayed>>

LogNext ==
    \/ \E e \in Events : Commit(e)
    \/ Settle
    \/ ReplayAnswer
    \/ LoseTail

LogSpec == LogInit /\ [][LogNext]_logVars
=============================================================================
