--------------------------- MODULE GoRateLimiter ---------------------------
(***************************************************************************)
(* RateLimiter of dpi-evasion/server.go: a list of hits per client address *)
(* that Allow counts and appends to but never shortens, and that Cleanup,  *)
(* run by a ticker, shortens.  Each runs under the limiter's mutex and is  *)
(* one step.                                                               *)
(*                                                                         *)
(* The ticker fires every Period, which is fixed (60 s) and not tied to    *)
(* the configured window.  The clock does not pass the moment a tick is    *)
(* due before Cleanup has run: ticks are taken to be served promptly.      *)
(***************************************************************************)
EXTENDS Naturals, FiniteSets

CONSTANTS
    Keys, Window, MaxHits, MaxTime,  \* as in SlidingWindow
    Period     \* time between two ticks

ASSUME LimitsKnown == Window \in Nat \ {0} /\ MaxHits \in Nat /\ MaxTime \in Nat
ASSUME PeriodIsPos == Period \in Nat \ {0}

VARIABLES
    now,    \* time.Now()
    hits,   \* rl.hits; {} for a key without an entry
    due,    \* when the ticker fires next
    log,    \* history: every request ever accepted, per key
    last    \* history: the last verdict on each key

vars == <<now, hits, due, log, last>>

\* The abstract limiter, on the clock and the history kept here; the hits are
\* what implements it.
SW == INSTANCE SlidingWindow
        WITH Keys <- Keys, Window <- Window, MaxHits <- MaxHits, MaxTime <- MaxTime,
             now <- now, log <- log, last <- last

\* The type invariant, of what is remembered and of the history behind it.
TypeOK ==
    /\ SW!SWTypeOK
    /\ hits \in [Keys -> SUBSET SW!Hit]
    /\ due \in Nat

Init ==
    /\ SW!Init
    /\ hits = [k \in Keys |-> {}]
    /\ due = Period

Tick == now < due /\ SW!Tick /\ UNCHANGED <<hits, due>>

\* Mutant: everything remembered counts.
CountAll(k) == hits[k]

\* The hits the loop of Allow counts.
Recent(k) == {h \in hits[k] : h.t + Window > now}

AllowAccepts(k) ==
    /\ Cardinality(Recent(k)) < MaxHits
    /\ hits' = [hits EXCEPT ![k] = @ \cup {SW!NextHit(k)}]
    /\ log' = [log EXCEPT ![k] = @ \cup {SW!NextHit(k)}]
    /\ last' = [last EXCEPT ![k] = "accepted"]
    /\ UNCHANGED <<now, due>>

AllowRefuses(k) ==
    /\ Cardinality(Recent(k)) >= MaxHits
    /\ last' = [last EXCEPT ![k] = "refused"]
    /\ UNCHANGED <<now, hits, due, log>>

Allow(k) == AllowAccepts(k) \/ AllowRefuses(k)

\* Mutant: only lists without a valid hit are dropped, none is shortened.
CleanupDropsOnly ==
    /\ now >= due
    /\ hits' = [k \in Keys |-> IF Recent(k) = {} THEN {} ELSE hits[k]]
    /\ due' = due + Period
    /\ UNCHANGED <<now, log, last>>

\* One tick: every list is cut to its valid hits, and an empty one deleted.
Cleanup ==
    /\ now >= due
    /\ hits' = [k \in Keys |-> Recent(k)]
    /\ due' = due + Period
    /\ UNCHANGED <<now, log, last>>

Next == Tick \/ Cleanup \/ \E k \in Keys : Allow(k)

Spec == Init /\ [][Next]_vars

-----------------------------------------------------------------------------
\* What is remembered decides like what was accepted, although Allow never
\* shortens a list and Cleanup rewrites them all.
HitsTrackLog ==
    \A k \in Keys :
        /\ hits[k] \subseteq log[k]
        /\ \A h \in log[k] : h.t + Window > now => h \in hits[k]
        /\ \A h \in log[k] : h.n <= Cardinality(log[k])

\* What a key costs between two ticks: the hits of one window before the last
\* tick and of the Period since, MaxHits for each window begun.
PerKey == MaxHits * ((Period + 2 * Window - 1) \div Window)

GoMemoryBound == \A k \in Keys : Cardinality(hits[k]) <= PerKey

\* The limiter implements the sliding window.
Implements == SW!Spec

=============================================================================
