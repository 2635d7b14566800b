------------------------- MODULE FixedWindowLimiter -------------------------
(***************************************************************************)
(* fixedWindowLimiter of limiter.go: one counter per key and window.  The   *)
(* clock is time.Now, which never goes backwards within a process.          *)
(***************************************************************************)
EXTENDS Integers, Sequences, FiniteSets

CONSTANTS
    Keys,       \* principals, or the one key of failed authentications
    Limit,      \* calls admitted per window
    Window,     \* length of a window, in ticks
    MaxEntries, \* entries above which expired ones are evicted (4096)
    MaxTime,    \* bound: ticks
    MaxCalls    \* bound: calls counted in one window

ASSUME LimiterAssumption ==
    /\ Limit \in Nat
    /\ Window \in Nat \ {0}
    /\ MaxEntries \in Nat
    /\ MaxTime \in Nat
    /\ MaxCalls \in Nat

VARIABLES
    now,      \* the clock
    entries,  \* started and count of each key; count 0 when the map has no entry
    verdict,  \* the last answer
    admitted  \* the ticks at which calls of each key were admitted, oldest first

limVars == <<now, entries, verdict, admitted>>

Absent == [started |-> 0, count |-> 0]

Present(es) == {k \in Keys : es[k] # Absent}

LimInit ==
    /\ now = 0
    /\ entries = [k \in Keys |-> Absent]
    /\ verdict = [key |-> "none", ok |-> TRUE]
    /\ admitted = [k \in Keys |-> <<>>]

Tick ==
    /\ now < MaxTime
    /\ now' = now + 1
    /\ verdict' = [key |-> "none", ok |-> TRUE]
    /\ UNCHANGED <<entries, admitted>>

\* now.Sub(started) >= window
Expired(e) == now - e.started >= Window

\* A plausible bug: every call restarts the window.
CountedSliding(k) ==
    [started |-> now,
     count   |-> IF entries[k] = Absent \/ Expired(entries[k]) THEN 1
                 ELSE entries[k].count + 1]

\* The entry of k after a call: a new window, or one more in this window.
Counted(k) ==
    IF entries[k] = Absent \/ Expired(entries[k])
    THEN [started |-> now, count |-> 1]
    ELSE [entries[k] EXCEPT !.count = @ + 1]

\* A plausible bug: a full map drops its entries, expired or not.
EvictedAll(es) ==
    IF Cardinality(Present(es)) > MaxEntries THEN [k \in Keys |-> Absent] ELSE es

\* When the map is too large, the entries whose window is over are deleted.
Evicted(es) ==
    IF Cardinality(Present(es)) > MaxEntries
    THEN [k \in Keys |-> IF Expired(es[k]) THEN Absent ELSE es[k]]
    ELSE es

Admits(count) == count <= Limit

Allow(k) ==
    /\ Counted(k).count <= MaxCalls
    /\ entries' = Evicted([entries EXCEPT ![k] = Counted(k)])
    /\ verdict' = [key |-> k, ok |-> Admits(Counted(k).count)]
    /\ admitted' = IF Admits(Counted(k).count)
                   THEN [admitted EXCEPT ![k] = Append(@, now)]
                   ELSE admitted
    /\ UNCHANGED now

LimNext ==
    \/ Tick
    \/ \E k \in Keys : Allow(k)

LimSpec == LimInit /\ [][LimNext]_limVars

-----------------------------------------------------------------------------

\* How many calls of k were admitted at the ticks in T.
AdmittedIn(k, T) == Cardinality({i \in 1..Len(admitted[k]) : admitted[k][i] \in T})

\* However calls fall on window boundaries and whatever other keys do to the
\* map, no stretch of time as long as a window admits more than twice the limit,
\* and none that begins with a window admits more than the limit
\* (operations.md: "Defaults are 600 and 30 per minute").
AdmissionsBounded ==
    \A k \in Keys :
        /\ \A t \in 0..MaxTime : AdmittedIn(k, t..(t + Window - 1)) <= 2 * Limit
        /\ entries[k] # Absent =>
               AdmittedIn(k, entries[k].started..(entries[k].started + Window - 1)) <= Limit

\* A call is refused only when the key has had its full limit within one
\* window's length, so a caller that waits as long as Retry-After says is
\* admitted: refused calls do not prolong the window (writeRateLimit).
RefusalsDeserved ==
    verdict.key # "none" /\ ~verdict.ok =>
        AdmittedIn(verdict.key, (now - Window + 1)..now) >= Limit
=============================================================================
