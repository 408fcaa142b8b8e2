---------------------------- MODULE RateLimiter ----------------------------
(***************************************************************************)
(* RateLimiter of "working server/main.py" with _normalize_ip: a list of   *)
(* recent hits per normalized client address, pruned on each request and   *)
(* dropped by a cleanup task when it has gone stale.                       *)
(*                                                                         *)
(* Both operations run under one asyncio lock and do not suspend while     *)
(* they hold it: each is one step.                                         *)
(***************************************************************************)
EXTENDS Naturals, FiniteSets

CONSTANTS
    Keys, Window, MaxHits, MaxTime,  \* as in SlidingWindow
    Addrs,     \* client addresses as the server is given them
    Form,      \* how each is written: "v4", "mapped", "v6" or "name"
    KeyOf      \* the key of each: the same host's v4 and mapped forms share it

ASSUME LimitsKnown == Window \in Nat \ {0} /\ MaxHits \in Nat /\ MaxTime \in Nat
ASSUME FormsKnown == Form \in [Addrs -> {"v4", "mapped", "v6", "name"}]
ASSUME KeysKnown == KeyOf \in [Addrs -> Keys]

VARIABLES
    now,     \* time.monotonic()
    hits,    \* self._hits: key -> the hits remembered
    known,   \* the keys self._hits has an entry for
    due,     \* when the cleanup task wakes up
    log,     \* history: every request ever accepted, per key
    last,    \* history: the last verdict on each key
    raised   \* history: addresses for which allow() raised

vars == <<now, hits, known, due, log, last, raised>>

\* The abstract limiter, on the clock and the history kept here; the hits are
\* what implements it.
SW == INSTANCE SlidingWindow
        WITH Keys <- Keys, Window <- Window, MaxHits <- MaxHits, MaxTime <- MaxTime,
             now <- now, log <- log, last <- last

\* The type invariant, of what is remembered and of the history behind it.
TypeOK ==
    /\ SW!SWTypeOK
    /\ hits \in [Keys -> SUBSET SW!Hit]
    /\ known \subseteq Keys
    /\ due \in Nat
    /\ raised \subseteq Addrs

Init ==
    /\ SW!Init
    /\ hits = [k \in Keys |-> {}]
    /\ known = {}
    /\ due = 2 * Window
    /\ raised = {}

Tick == SW!Tick /\ UNCHANGED <<hits, known, due, raised>>

\* Mutant: a hit still counts when it is as old as the window.
RecentInclusive(k) == {h \in hits[k] : h.t + Window >= now}

\* t > cutoff for the hits remembered under a key.
Recent(k) == {h \in hits[k] : h.t + Window > now}

Room(k) == Cardinality(Recent(k)) < MaxHits

\* _normalize_ip: an IPv6 address that is not IPv4-mapped has no attribute
\* ipv6_mapped, and the AttributeError is not the ValueError that is caught.
NormalizeRaises(a) == Form[a] = "v6"

AllowAccepts(a) ==
    LET k == KeyOf[a] IN
    /\ ~NormalizeRaises(a)
    /\ Room(k)
    /\ hits' = [hits EXCEPT ![k] = Recent(k) \cup {SW!NextHit(k)}]
    /\ log' = [log EXCEPT ![k] = @ \cup {SW!NextHit(k)}]
    /\ last' = [last EXCEPT ![k] = "accepted"]
    /\ known' = known \cup {k}
    /\ UNCHANGED <<now, due, raised>>

\* A refusal prunes too, and does not count.
AllowRefuses(a) ==
    LET k == KeyOf[a] IN
    /\ ~NormalizeRaises(a)
    /\ ~Room(k)
    /\ hits' = [hits EXCEPT ![k] = Recent(k)]
    /\ last' = [last EXCEPT ![k] = "refused"]
    /\ known' = known \cup {k}
    /\ UNCHANGED <<now, due, log, raised>>

AllowRaises(a) ==
    /\ NormalizeRaises(a)
    /\ raised' = raised \cup {a}
    /\ UNCHANGED <<now, hits, known, due, log, last>>

Allow(a) == AllowAccepts(a) \/ AllowRefuses(a) \/ AllowRaises(a)

\* times[-1]: hits are appended in order.
Newest(S) == CHOOSE h \in S : \A g \in S : g.n <= h.n

Stale(k) == hits[k] = {} \/ Newest(hits[k]).t + Window <= now

\* One round of cleanup(): forget the keys whose last hit has left the window.
Cleanup ==
    /\ now >= due
    /\ hits' = [k \in Keys |-> IF Stale(k) THEN {} ELSE hits[k]]
    /\ known' = {k \in known : ~Stale(k)}
    /\ due' = now + 2 * Window
    /\ UNCHANGED <<now, log, last, raised>>

Next == Tick \/ Cleanup \/ \E a \in Addrs : Allow(a)

Spec == Init /\ [][Next]_vars

-----------------------------------------------------------------------------
\* What is remembered decides like what was accepted: pruning and cleanup
\* never drop a hit that still counts, and nothing else is ever remembered.
HitsTrackLog ==
    \A k \in Keys :
        /\ hits[k] \subseteq log[k]
        /\ \A h \in log[k] : h.t + Window > now => h \in hits[k]
        /\ \A h \in log[k] : h.n <= Cardinality(log[k])
        /\ hits[k] # {} => \E h \in hits[k] : h.n = Cardinality(log[k])
        /\ \A g, h \in log[k] : g.n <= h.n => g.t <= h.t

\* The limiter's promise, over every window and for both spellings of an
\* address together.
WindowBound == SW!WindowBound

\* A key costs at most MaxHits entries, and one that is not known costs none.
MemoryBound ==
    \A k \in Keys :
        /\ Cardinality(hits[k]) <= MaxHits
        /\ k \notin known => hits[k] = {}

\* The limiter implements the sliding window: every verdict is the one the
\* whole history of accepted requests calls for.
Implements == SW!Spec

=============================================================================
