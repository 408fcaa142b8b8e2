------------------------- MODULE RateLimiterProofs -------------------------
(***************************************************************************)
(* RateLimiter implements SlidingWindow and keeps its memory bounded, for  *)
(* every set of addresses and keys, window and limit.  HitsTrackLog is the *)
(* invariant both rest on; that the newest accepted hit survives every     *)
(* pruning of a non-empty list is what makes the clean-up's look at the    *)
(* last element alone sufficient.                                          *)
(***************************************************************************)
EXTENDS RateLimiter, FiniteSetTheorems, TLAPS

\* The instance of SlidingWindow counts sets as this module does.
LEMMA SameNotions ==
    /\ \A S : SW!IsFiniteSet(S) <=> IsFiniteSet(S)
    /\ \A S : SW!Cardinality(S) = Cardinality(S)
  <1>1. \A S : SW!IsFiniteSet(S) <=> IsFiniteSet(S)
    BY Zenon DEF SW!IsFiniteSet, IsFiniteSet
  <1>2. \A S : SW!Cardinality(S) = Cardinality(S)
    BY Zenon DEF SW!Cardinality, Cardinality
  <1> QED
    BY <1>1, <1>2

\* What allow() counts is what the whole history has in the window.
LEMMA RecentIsInWindow ==
    ASSUME TypeOK, HitsTrackLog, NEW k \in Keys
    PROVE  Recent(k) = SW!InWindow(log[k], now)
  BY LimitsKnown DEF TypeOK, SW!SWTypeOK, HitsTrackLog, Recent, SW!InWindow, SW!Hit

\* What is remembered is finite, and so is what counts.
LEMMA Finite ==
    ASSUME TypeOK, HitsTrackLog, NEW k \in Keys
    PROVE  /\ IsFiniteSet(log[k]) /\ Cardinality(log[k]) \in Nat
           /\ IsFiniteSet(hits[k]) /\ Cardinality(hits[k]) \in Nat
           /\ IsFiniteSet(Recent(k)) /\ Cardinality(Recent(k)) \in Nat
           /\ Cardinality(Recent(k)) <= Cardinality(hits[k])
  <1>1. IsFiniteSet(log[k])
    BY SameNotions DEF TypeOK, SW!SWTypeOK
  <1>2. hits[k] \subseteq log[k] /\ Recent(k) \subseteq hits[k]
    BY DEF HitsTrackLog, Recent
  <1>3. IsFiniteSet(hits[k])
    BY <1>1, <1>2, FS_Subset
  <1>4. IsFiniteSet(Recent(k)) /\ Cardinality(Recent(k)) <= Cardinality(hits[k])
    BY <1>2, <1>3, FS_Subset
  <1> QED
    BY <1>1, <1>3, <1>4, FS_CardinalityType

\* The hit a request adds has the shape of a hit, the current time, and the
\* next number; the history grows by exactly one.
LEMMA NewHit ==
    ASSUME TypeOK, HitsTrackLog, NEW k \in Keys
    PROVE  /\ SW!NextHit(k) \in SW!Hit
           /\ SW!NextHit(k).t = now
           /\ SW!NextHit(k).n = Cardinality(log[k]) + 1
           /\ Cardinality(log[k] \cup {SW!NextHit(k)}) = Cardinality(log[k]) + 1
           /\ Cardinality(log[k]) \in Nat
  <1>1. Cardinality(log[k]) \in Nat /\ IsFiniteSet(log[k])
    BY Finite
  <1>2. /\ SW!NextHit(k) \in SW!Hit
        /\ SW!NextHit(k).t = now
        /\ SW!NextHit(k).n = Cardinality(log[k]) + 1
    BY <1>1, SameNotions DEF SW!NextHit, SW!Hit, TypeOK, SW!SWTypeOK
  <1>3. SW!NextHit(k) \notin log[k]
    <2>1. \A h \in log[k] : h \in SW!Hit /\ h.n <= Cardinality(log[k])
      BY DEF HitsTrackLog, TypeOK, SW!SWTypeOK
    <2> QED
      BY <1>1, <1>2, <2>1 DEF SW!Hit
  <1>4. Cardinality(log[k] \cup {SW!NextHit(k)}) = Cardinality(log[k]) + 1
    BY <1>1, <1>3, FS_AddElement
  <1> QED
    BY <1>1, <1>2, <1>4

\* A non-empty list has a newest hit, and no hit of it is later.
LEMMA NewestIsLatest ==
    ASSUME TypeOK, HitsTrackLog, NEW k \in Keys, hits[k] # {}
    PROVE  /\ Newest(hits[k]) \in hits[k]
           /\ \A h \in hits[k] : h.t <= Newest(hits[k]).t
  <1>1. PICK w \in hits[k] : w.n = Cardinality(log[k])
    BY DEF HitsTrackLog
  <1>2. \A g \in hits[k] : g \in log[k] /\ g.n <= w.n
    BY <1>1 DEF HitsTrackLog
  <1>3. /\ Newest(hits[k]) \in hits[k]
        /\ \A g \in hits[k] : g.n <= Newest(hits[k]).n
    BY <1>1, <1>2 DEF Newest
  <1> QED
    BY <1>2, <1>3 DEF HitsTrackLog

\* The clean-up forgets a key exactly when none of its hits counts any more.
LEMMA StaleIsNoRecent ==
    ASSUME TypeOK, HitsTrackLog, NEW k \in Keys, Stale(k)
    PROVE  \A h \in log[k] : ~(h.t + Window > now)
  <1>1. CASE hits[k] = {}
    BY <1>1 DEF HitsTrackLog
  <1>2. CASE hits[k] # {}
    <2>1. /\ Newest(hits[k]) \in hits[k]
          /\ \A h \in hits[k] : h.t <= Newest(hits[k]).t
      BY <1>2, NewestIsLatest
    <2>2. Newest(hits[k]).t + Window <= now
      BY <1>2 DEF Stale
    <2>3. \A h \in hits[k] : h.t \in Nat
      BY DEF TypeOK, SW!Hit
    <2> QED
      BY <2>1, <2>2, <2>3, LimitsKnown DEF HitsTrackLog, TypeOK, SW!SWTypeOK
  <1> QED
    BY <1>1, <1>2

\* Pruning a list keeps its newest hit if it keeps any.
LEMMA RecentKeepsNewest ==
    ASSUME TypeOK, HitsTrackLog, NEW k \in Keys, Recent(k) # {}
    PROVE  \E h \in Recent(k) : h.n = Cardinality(log[k])
  <1>1. PICK g \in hits[k] : g.t + Window > now
    BY DEF Recent
  <1>2. PICK w \in hits[k] : w.n = Cardinality(log[k])
    BY <1>1 DEF HitsTrackLog
  <1>3. g.t <= w.t
    BY <1>1, <1>2 DEF HitsTrackLog
  <1>4. g.t \in Nat /\ w.t \in Nat
    BY <1>1, <1>2 DEF TypeOK, SW!Hit
  <1>5. w \in Recent(k)
    BY <1>1, <1>2, <1>3, <1>4, LimitsKnown DEF Recent, TypeOK, SW!SWTypeOK
  <1> QED
    BY <1>2, <1>5

IInv == TypeOK /\ HitsTrackLog /\ MemoryBound

LEMMA InitEstablishes == Init => IInv
  BY SameNotions, FS_EmptySet, LimitsKnown
  DEF Init, SW!Init, IInv, TypeOK, SW!SWTypeOK, SW!Verdicts, HitsTrackLog, MemoryBound

LEMMA TickPreserves == IInv /\ Tick => IInv'
  BY LimitsKnown
  DEF IInv, Tick, SW!Tick, TypeOK, SW!SWTypeOK, HitsTrackLog, SW!Hit, MemoryBound

LEMMA CleanupPreserves == IInv /\ Cleanup => IInv'
  <1> SUFFICES ASSUME TypeOK, HitsTrackLog, MemoryBound, Cleanup PROVE IInv'
    BY DEF IInv
  <1>1. TypeOK'
    BY LimitsKnown DEF Cleanup, TypeOK, SW!SWTypeOK
  <1>2. HitsTrackLog'
    <2>1. \A k \in Keys : Stale(k) => \A h \in log[k] : ~(h.t + Window > now)
      BY StaleIsNoRecent
    <2> QED
      BY <2>1 DEF Cleanup, HitsTrackLog
  <1>3. MemoryBound'
    BY FS_EmptySet, LimitsKnown DEF Cleanup, MemoryBound
  <1> QED
    BY <1>1, <1>2, <1>3 DEF IInv

LEMMA RefusalPreserves == \A a \in Addrs : IInv /\ AllowRefuses(a) => IInv'
  <1> SUFFICES ASSUME NEW a \in Addrs, TypeOK, HitsTrackLog, MemoryBound, AllowRefuses(a)
               PROVE  IInv'
    BY DEF IInv
  <1>1. KeyOf[a] \in Keys
    BY KeysKnown
  <1>2. TypeOK'
    BY <1>1 DEF AllowRefuses, TypeOK, SW!SWTypeOK, SW!Verdicts, Recent
  <1>3. HitsTrackLog'
    BY <1>1, RecentKeepsNewest
    DEF AllowRefuses, HitsTrackLog, Recent, TypeOK, SW!SWTypeOK
  <1>4. MemoryBound'
    <2>1. Cardinality(hits'[KeyOf[a]]) <= MaxHits
      BY <1>1, Finite, LimitsKnown DEF AllowRefuses, MemoryBound, TypeOK
    <2> QED
      BY <1>1, <2>1 DEF AllowRefuses, MemoryBound, TypeOK
  <1> QED
    BY <1>2, <1>3, <1>4 DEF IInv

LEMMA AcceptPreserves == \A a \in Addrs : IInv /\ AllowAccepts(a) => IInv'
  <1> SUFFICES ASSUME NEW a \in Addrs, TypeOK, HitsTrackLog, MemoryBound, AllowAccepts(a)
               PROVE  IInv'
    BY DEF IInv
  <1> DEFINE k == KeyOf[a]
  <1> DEFINE new == SW!NextHit(k)
  <1>1. k \in Keys
    BY KeysKnown
  <1>2. /\ new \in SW!Hit /\ new.t = now /\ new.n = Cardinality(log[k]) + 1
        /\ Cardinality(log[k] \cup {new}) = Cardinality(log[k]) + 1
        /\ Cardinality(log[k]) \in Nat
    BY <1>1, NewHit
  <1>3. /\ log' = [log EXCEPT ![k] = @ \cup {new}]
        /\ hits' = [hits EXCEPT ![k] = Recent(k) \cup {new}]
        /\ known' = known \cup {k}
        /\ UNCHANGED <<now, due, raised>>
        /\ Cardinality(Recent(k)) < MaxHits
    BY DEF AllowAccepts, Room
  <1>4. last' \in [Keys -> SW!Verdicts]
    BY <1>1 DEF AllowAccepts, TypeOK, SW!SWTypeOK, SW!Verdicts
  <1>5. /\ log' \in [Keys -> SUBSET SW!Hit]
        /\ \A j \in Keys : SW!IsFiniteSet(log'[j])
        /\ \A j \in Keys : \A h \in log'[j] : h.t <= now'
    <2>1. SW!SWTypeOK /\ now' = now
      BY <1>3 DEF TypeOK
    <2> QED
      BY <1>1, <1>3, <2>1, SW!HitAdded
  <1>6. /\ IsFiniteSet(Recent(k)) /\ Cardinality(Recent(k)) \in Nat
        /\ Recent(k) \subseteq hits[k]
    BY <1>1, Finite DEF Recent
  <1> HIDE DEF new, k
  <1>7. TypeOK'
    <2>1. hits' \in [Keys -> SUBSET SW!Hit]
      BY <1>1, <1>2, <1>3, <1>6 DEF TypeOK
    <2> QED
      BY <1>1, <1>3, <1>4, <1>5, <2>1 DEF TypeOK, SW!SWTypeOK
  <1>8. HitsTrackLog'
    <2> SUFFICES ASSUME NEW j \in Keys
                 PROVE  /\ hits'[j] \subseteq log'[j]
                        /\ \A h \in log'[j] : h.t + Window > now' => h \in hits'[j]
                        /\ \A h \in log'[j] : h.n <= Cardinality(log'[j])
                        /\ hits'[j] # {} => \E h \in hits'[j] : h.n = Cardinality(log'[j])
                        /\ \A g, h \in log'[j] : g.n <= h.n => g.t <= h.t
      BY DEF HitsTrackLog
    <2>1. CASE j # k
      BY <1>3, <2>1 DEF HitsTrackLog, TypeOK, SW!SWTypeOK
    <2>2. CASE j = k
      <3>1. log'[j] = log[k] \cup {new} /\ hits'[j] = Recent(k) \cup {new}
        BY <1>1, <1>3, <2>2 DEF TypeOK, SW!SWTypeOK
      <3>2. \A h \in log[k] : h.n \in Nat /\ h.t \in Nat /\ h.t <= now
        BY <1>1 DEF TypeOK, SW!SWTypeOK, SW!Hit
      <3>3. \A h \in log[k] : h.t + Window > now => h \in Recent(k)
        BY <1>1 DEF HitsTrackLog, Recent
      <3>4. /\ hits[k] \subseteq log[k]
            /\ \A h \in log[k] : h.n <= Cardinality(log[k])
            /\ \A g, h \in log[k] : g.n <= h.n => g.t <= h.t
        BY <1>1 DEF HitsTrackLog
      <3>5. now \in Nat
        BY DEF TypeOK, SW!SWTypeOK
      <3>6. hits'[j] \subseteq log'[j] /\ new \in hits'[j]
        BY <1>6, <3>1, <3>4
      <3>7. \A h \in log'[j] : h.t + Window > now' => h \in hits'[j]
        BY <1>3, <3>1, <3>3
      <3>8. new.n = Cardinality(log'[j])
        BY <1>2, <3>1
      <3>9. \A h \in log'[j] : h.n <= Cardinality(log'[j])
        BY <1>2, <3>1, <3>2, <3>4
      <3>10. \A g, h \in log'[j] : g.n <= h.n => g.t <= h.t
        <4> SUFFICES ASSUME NEW g \in log'[j], NEW h \in log'[j], g.n <= h.n
                     PROVE  g.t <= h.t
          OBVIOUS
        <4>1. CASE h = new
          BY <1>2, <3>1, <3>2, <3>5, <4>1
        <4>2. CASE h # new /\ g = new
          BY <1>2, <3>1, <3>2, <3>4, <4>2
        <4>3. CASE h # new /\ g # new
          BY <3>1, <3>4, <4>3
        <4> QED
          BY <4>1, <4>2, <4>3
      <3> QED
        BY <3>6, <3>7, <3>8, <3>9, <3>10
    <2> QED
      BY <2>1, <2>2
  <1>9. MemoryBound'
    <2>1. Cardinality(Recent(k) \cup {new}) <= MaxHits
      <3>1. Cardinality(Recent(k) \cup {new}) <= Cardinality(Recent(k)) + 1
        BY <1>6, SW!OneMore, SameNotions, LimitsKnown
      <3>2. Cardinality(Recent(k) \cup {new}) \in Nat
        BY <1>6, SW!OneMore, SameNotions, LimitsKnown
      <3> QED
        BY <1>3, <1>6, <3>1, <3>2, LimitsKnown
    <2> QED
      BY <1>1, <1>3, <2>1 DEF MemoryBound, TypeOK
  <1> QED
    BY <1>7, <1>8, <1>9 DEF IInv

LEMMA NextPreserves == IInv /\ [Next]_vars => IInv'
  <1> SUFFICES ASSUME IInv, [Next]_vars PROVE IInv'
    OBVIOUS
  <1>1. CASE UNCHANGED vars
    BY <1>1 DEF vars, IInv, TypeOK, SW!SWTypeOK, HitsTrackLog, MemoryBound
  <1>2. ASSUME NEW a \in Addrs, AllowRaises(a) PROVE IInv'
    BY <1>2 DEF AllowRaises, IInv, TypeOK, SW!SWTypeOK, HitsTrackLog, MemoryBound
  <1> QED
    BY <1>1, <1>2, TickPreserves, CleanupPreserves, RefusalPreserves, AcceptPreserves
    DEF Next, Allow

LEMMA Invariant == Spec => []IInv
  BY InitEstablishes, NextPreserves, PTL DEF Spec

\* What the limiter remembers and what it has accepted agree inside the
\* window, whatever the order of requests and clean-ups.
THEOREM HitsTracked == Spec => []HitsTrackLog
  <1>1. IInv => HitsTrackLog
    BY DEF IInv
  <1> QED
    BY <1>1, Invariant, PTL

\* No key ever costs more than MaxHits entries, however late the clean-up.
THEOREM MemoryBounded == Spec => []MemoryBound
  <1>1. IInv => MemoryBound
    BY DEF IInv
  <1> QED
    BY <1>1, Invariant, PTL

\* Every step is a step of the sliding window, or leaves what it speaks of
\* unchanged.
LEMMA StepRefines == IInv /\ [Next]_vars => [SW!Next]_(SW!vars)
  <1> SUFFICES ASSUME TypeOK, HitsTrackLog, [Next]_vars PROVE [SW!Next]_(SW!vars)
    BY DEF IInv
  <1>1. CASE Tick
    BY <1>1 DEF Tick, SW!Next
  <1>2. CASE Cleanup
    BY <1>2 DEF Cleanup, SW!vars
  <1>3. ASSUME NEW a \in Addrs, AllowAccepts(a) PROVE SW!Next
    <2>1. KeyOf[a] \in Keys
      BY KeysKnown
    <2>2. ~SW!Full(KeyOf[a])
      <3>1. Cardinality(Recent(KeyOf[a])) \in Nat
        BY <2>1, Finite
      <3> QED
        BY <1>3, <2>1, <3>1, SameNotions, RecentIsInWindow, LimitsKnown
        DEF AllowAccepts, Room, SW!Full
    <2>3. SW!Accept(KeyOf[a])
      BY <1>3, <2>2 DEF AllowAccepts, SW!Accept
    <2> QED
      BY <2>1, <2>3 DEF SW!Next
  <1>4. ASSUME NEW a \in Addrs, AllowRefuses(a) PROVE SW!Next
    <2>1. KeyOf[a] \in Keys
      BY KeysKnown
    <2>2. SW!Full(KeyOf[a])
      <3>1. Cardinality(Recent(KeyOf[a])) \in Nat
        BY <2>1, Finite
      <3> QED
        BY <1>4, <2>1, <3>1, SameNotions, RecentIsInWindow, LimitsKnown
        DEF AllowRefuses, Room, SW!Full
    <2>3. SW!Refuse(KeyOf[a])
      BY <1>4, <2>2 DEF AllowRefuses, SW!Refuse
    <2> QED
      BY <2>1, <2>3 DEF SW!Next
  <1>5. ASSUME NEW a \in Addrs, AllowRaises(a) PROVE UNCHANGED SW!vars
    BY <1>5 DEF AllowRaises, SW!vars
  <1>6. CASE UNCHANGED vars
    BY <1>6 DEF vars, SW!vars
  <1> QED
    BY <1>1, <1>2, <1>3, <1>4, <1>5, <1>6 DEF Next, Allow

\* The limiter implements the sliding window: each verdict is the one the
\* whole history of accepted requests calls for.
THEOREM Refines == Spec => Implements
  <1>1. Init => SW!Init
    BY DEF Init
  <1> QED
    BY <1>1, Invariant, StepRefines, PTL DEF Spec, Implements, SW!Spec

\* So no window of time ever holds more than MaxHits accepted requests of a
\* client, in all the spellings of its address together.
THEOREM WindowBounded == Spec => []WindowBound
  <1>1. SW!Spec => []SW!WindowBound
    <2>1. SW!LimitsOk
      BY LimitsKnown DEF SW!LimitsOk
    <2> QED
      BY <2>1, SW!WindowIsBounded
  <1>2. WindowBound <=> SW!WindowBound
    BY DEF WindowBound
  <1> QED
    BY <1>1, <1>2, Refines, PTL DEF Implements

=============================================================================
