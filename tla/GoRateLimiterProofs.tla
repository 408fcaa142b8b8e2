------------------------ MODULE GoRateLimiterProofs ------------------------
(***************************************************************************)
(* GoRateLimiter implements SlidingWindow, for every set of addresses,     *)
(* window, limit and ticker period.  What makes it so is HitsTrackLog: the *)
(* hits remembered and the hits accepted agree inside the window, which is *)
(* all that a verdict depends on.  The second part bounds what is          *)
(* remembered of a key between two ticks.                                  *)
(***************************************************************************)
EXTENDS GoRateLimiter, FiniteSetTheorems, TLAPS

\* The instance of SlidingWindow counts sets as this module does.
LEMMA SameNotions ==
    /\ \A S : SW!IsFiniteSet(S) <=> IsFiniteSet(S)
    /\ \A S : SW!Cardinality(S) = Cardinality(S)
  <1>1. \A S : SW!IsFiniteSet(S) <=> IsFiniteSet(S)
    BY Zenon DEF SW!IsFiniteSet, IsFiniteSet
  <1>2. \A S : SW!Cardinality(S) = Cardinality(S)
    BY Zenon DEF SW!Cardinality, Cardinality
  <1> QED
    BY <1>1, <1>2

\* What Allow counts is what the whole history has in the window.
LEMMA RecentIsInWindow ==
    ASSUME TypeOK, HitsTrackLog, NEW k \in Keys
    PROVE  Recent(k) = SW!InWindow(log[k], now)
  BY LimitsKnown DEF TypeOK, SW!SWTypeOK, HitsTrackLog, Recent, SW!InWindow, SW!Hit

\* The hit a request adds has the shape of a hit, the current time, and the
\* next number; the history grows by exactly one.
LEMMA NewHit ==
    ASSUME TypeOK, HitsTrackLog, NEW k \in Keys
    PROVE  /\ SW!NextHit(k) \in SW!Hit
           /\ SW!NextHit(k).t = now
           /\ SW!NextHit(k).n = Cardinality(log[k]) + 1
           /\ IsFiniteSet(log[k] \cup {SW!NextHit(k)})
           /\ Cardinality(log[k] \cup {SW!NextHit(k)}) = Cardinality(log[k]) + 1
           /\ Cardinality(log[k]) \in Nat
  <1>1. Cardinality(log[k]) \in Nat /\ IsFiniteSet(log[k])
    BY SameNotions, FS_CardinalityType DEF TypeOK, SW!SWTypeOK
  <1>2. /\ SW!NextHit(k) \in SW!Hit
        /\ SW!NextHit(k).t = now
        /\ SW!NextHit(k).n = Cardinality(log[k]) + 1
    BY <1>1, SameNotions DEF SW!NextHit, SW!Hit, TypeOK, SW!SWTypeOK
  <1>3. SW!NextHit(k) \notin log[k]
    <2>1. \A h \in log[k] : h \in SW!Hit /\ h.n <= Cardinality(log[k])
      BY DEF HitsTrackLog, TypeOK, SW!SWTypeOK
    <2> QED
      BY <1>1, <1>2, <2>1 DEF SW!Hit
  <1>4. IsFiniteSet(log[k] \cup {SW!NextHit(k)})
    BY <1>1, FS_AddElement
  <1>5. Cardinality(log[k] \cup {SW!NextHit(k)}) = Cardinality(log[k]) + 1
    BY <1>1, <1>3, FS_AddElement
  <1> QED
    BY <1>1, <1>2, <1>4, <1>5

IInv == TypeOK /\ HitsTrackLog

LEMMA InitEstablishes == Init => IInv
  BY SameNotions, FS_EmptySet, PeriodIsPos
  DEF Init, SW!Init, IInv, TypeOK, SW!SWTypeOK, SW!Verdicts, HitsTrackLog

LEMMA TickPreserves == IInv /\ Tick => IInv'
  BY LimitsKnown
  DEF IInv, Tick, SW!Tick, TypeOK, SW!SWTypeOK, HitsTrackLog, SW!Hit

LEMMA CleanupPreserves == IInv /\ Cleanup => IInv'
  BY LimitsKnown, PeriodIsPos
  DEF IInv, Cleanup, Recent, TypeOK, SW!SWTypeOK, HitsTrackLog, SW!Hit

LEMMA RefusalPreserves == \A k \in Keys : IInv /\ AllowRefuses(k) => IInv'
  BY DEF IInv, AllowRefuses, TypeOK, SW!SWTypeOK, SW!Verdicts, HitsTrackLog

LEMMA AcceptPreserves == \A k \in Keys : IInv /\ AllowAccepts(k) => IInv'
  <1> SUFFICES ASSUME NEW k \in Keys, TypeOK, HitsTrackLog, AllowAccepts(k)
               PROVE  IInv'
    BY DEF IInv
  <1> DEFINE new == SW!NextHit(k)
  <1>1. /\ new \in SW!Hit /\ new.t = now /\ new.n = Cardinality(log[k]) + 1
        /\ IsFiniteSet(log[k] \cup {new})
        /\ Cardinality(log[k] \cup {new}) = Cardinality(log[k]) + 1
        /\ Cardinality(log[k]) \in Nat
    BY NewHit
  <1>2. /\ log' = [log EXCEPT ![k] = @ \cup {new}]
        /\ hits' = [hits EXCEPT ![k] = @ \cup {new}]
        /\ UNCHANGED <<now, due>>
    BY DEF AllowAccepts
  <1>3. last' \in [Keys -> SW!Verdicts]
    BY DEF AllowAccepts, TypeOK, SW!SWTypeOK, SW!Verdicts
  <1>6. /\ log' \in [Keys -> SUBSET SW!Hit]
        /\ \A j \in Keys : SW!IsFiniteSet(log'[j])
        /\ \A j \in Keys : \A h \in log'[j] : h.t <= now'
    <2>1. SW!SWTypeOK /\ now' = now
      BY <1>2 DEF TypeOK
    <2> QED
      BY <1>2, <2>1, SW!HitAdded
  <1> HIDE DEF new
  <1>4. TypeOK'
    <2>1. hits' \in [Keys -> SUBSET SW!Hit]
      BY <1>1, <1>2 DEF TypeOK
    <2> QED
      BY <1>2, <1>3, <1>6, <2>1 DEF TypeOK, SW!SWTypeOK
  <1>5. HitsTrackLog'
    <2> SUFFICES ASSUME NEW j \in Keys
                 PROVE  /\ hits'[j] \subseteq log'[j]
                        /\ \A h \in log'[j] : h.t + Window > now' => h \in hits'[j]
                        /\ \A h \in log'[j] : h.n <= Cardinality(log'[j])
      BY DEF HitsTrackLog
    <2>1. CASE j # k
      BY <1>2, <2>1 DEF HitsTrackLog, TypeOK, SW!SWTypeOK
    <2>2. CASE j = k
      <3>1. log'[j] = log[k] \cup {new} /\ hits'[j] = hits[k] \cup {new}
        BY <1>2, <2>2 DEF TypeOK, SW!SWTypeOK
      <3>2. \A h \in log[k] : h.n \in Nat
        BY DEF TypeOK, SW!SWTypeOK, SW!Hit
      <3> QED
        BY <1>1, <1>2, <3>1, <3>2 DEF HitsTrackLog
    <2> QED
      BY <2>1, <2>2
  <1> QED
    BY <1>4, <1>5 DEF IInv

LEMMA NextPreserves == IInv /\ [Next]_vars => IInv'
  <1> SUFFICES ASSUME IInv, [Next]_vars PROVE IInv'
    OBVIOUS
  <1>1. CASE UNCHANGED vars
    BY <1>1 DEF vars, IInv, TypeOK, SW!SWTypeOK, HitsTrackLog
  <1> QED
    BY <1>1, TickPreserves, CleanupPreserves, RefusalPreserves, AcceptPreserves
    DEF Next, Allow

\* What the limiter remembers and what it has accepted agree inside the
\* window, whatever the order of requests, ticks and clean-ups.
THEOREM GoHitsTracked == Spec => []HitsTrackLog
  <1>1. Spec => []IInv
    BY InitEstablishes, NextPreserves, PTL DEF Spec
  <1>2. IInv => HitsTrackLog
    BY DEF IInv
  <1> QED
    BY <1>1, <1>2, PTL

\* Every step is a step of the sliding window, or leaves what it speaks of
\* unchanged.
LEMMA StepRefines == IInv /\ [Next]_vars => [SW!Next]_(SW!vars)
  <1> SUFFICES ASSUME IInv, [Next]_vars PROVE [SW!Next]_(SW!vars)
    OBVIOUS
  <1> USE DEF IInv
  <1>1. CASE Tick
    BY <1>1 DEF Tick, SW!Next
  <1>2. CASE Cleanup
    BY <1>2 DEF Cleanup, SW!vars
  <1>3. ASSUME NEW k \in Keys, AllowAccepts(k) PROVE SW!Accept(k)
    <2>1. ~SW!Full(k)
      <3>1. Cardinality(SW!InWindow(log[k], now)) \in Nat
        BY SameNotions, SW!WindowFinite, LimitsKnown DEF TypeOK, SW!SWTypeOK
      <3> QED
        BY <1>3, <3>1, SameNotions, RecentIsInWindow, LimitsKnown DEF AllowAccepts, SW!Full
    <2> QED
      BY <1>3, <2>1 DEF AllowAccepts, SW!Accept
  <1>4. ASSUME NEW k \in Keys, AllowRefuses(k) PROVE SW!Refuse(k)
    BY <1>4, SameNotions, RecentIsInWindow DEF AllowRefuses, SW!Refuse, SW!Full
  <1>5. CASE UNCHANGED vars
    BY <1>5 DEF vars, SW!vars
  <1> QED
    BY <1>1, <1>2, <1>3, <1>4, <1>5 DEF Next, Allow, SW!Next

\* The relay's limiter implements the sliding window: each verdict is the one
\* the whole history of accepted requests calls for.
THEOREM GoRefines == Spec => Implements
  <1>1. Spec => []IInv
    BY InitEstablishes, NextPreserves, PTL DEF Spec
  <1>2. Init => SW!Init
    BY DEF Init
  <1> QED
    BY <1>1, <1>2, StepRefines, PTL DEF Spec, Implements, SW!Spec

\* So no window of time ever holds more than MaxHits accepted requests of an
\* address.
THEOREM GoWindowBounded == Spec => []SW!WindowBound
  <1>1. SW!Spec => []SW!WindowBound
    <2>1. SW!LimitsOk
      BY LimitsKnown DEF SW!LimitsOk
    <2> QED
      BY <2>1, SW!WindowIsBounded
  <1> QED
    BY <1>1, GoRefines, PTL DEF Implements

-----------------------------------------------------------------------------
(* What the limiter remembers of an address. *)

\* Every non-empty set of naturals has a least element: among the intervals
\* from 0 to an element there is a smallest one.
LEMMA LeastNatural ==
    ASSUME NEW T, T \subseteq Nat, T # {}
    PROVE  \E x \in T : \A y \in T : x <= y
  <1>1. PICK n \in T : TRUE
    OBVIOUS
  <1> DEFINE All == 0..n
             C == {0..k : k \in T \cap All}
             R == StrictSubsetOrdering(All)
  <1>2. n \in Nat /\ IsFiniteSet(All)
    BY <1>1, FS_Interval
  <1>3. C \subseteq FiniteSubsetsOf(All) /\ C # {}
    <2>1. C \subseteq SUBSET All /\ 0..n \in C
      BY <1>1, <1>2
    <2> QED
      BY <1>2, <2>1, FS_FiniteSubsetsOfFinite
  <1>4. IsWellFoundedOn(R, FiniteSubsetsOf(All))
    BY FS_StrictSubsetOrderingWellFounded
  <1>5. PICK X \in C : \A Y \in C : ~(<<Y, X>> \in R)
    <2> HIDE DEF C, R, All
    <2> QED
      BY <1>3, <1>4, WFMin
  <1>6. PICK x \in T \cap All : X = 0..x
    BY <1>5
  <1>7. ASSUME NEW y \in T, y < x
        PROVE  FALSE
    <2>1. y \in Nat /\ x \in Nat /\ y \in T \cap All
      BY <1>2, <1>6, <1>7
    <2>2. 0..y \subseteq 0..x /\ x \in 0..x /\ x \notin 0..y
      BY <1>7, <2>1
    <2>3. <<0..y, 0..x>> \in R
      BY <1>2, <1>6, <2>1, <2>2 DEF StrictSubsetOrdering
    <2> QED
      BY <1>5, <1>6, <2>1, <2>3
  <1> QED
    BY <1>6, <1>7

\* A set that has 0 and with every number the next one has them all.
LEMMA AllNaturals ==
    ASSUME NEW S, 0 \in S, \A n \in Nat : n \in S => n + 1 \in S
    PROVE  \A n \in Nat : n \in S
  <1> SUFFICES ASSUME Nat \ S # {} PROVE FALSE
    OBVIOUS
  <1>1. PICK x \in Nat \ S : \A y \in Nat \ S : x <= y
    BY LeastNatural
  <1>2. x - 1 \in Nat /\ (x - 1) + 1 = x /\ ~(x <= x - 1)
    BY <1>1
  <1> QED
    BY <1>1, <1>2

\* The accepted hits of the last n windows.
Span(S, n) == {h \in S : h.t + n * Window > now}

\* They are at most MaxHits for each of them.
LEMMA SpanBounded ==
    ASSUME TypeOK, SW!WindowBound, NEW k \in Keys, NEW n \in Nat
    PROVE  Cardinality(Span(log[k], n)) <= MaxHits * n
  <1> DEFINE L == log[k]
             S == {m \in Nat : Cardinality(Span(L, m)) <= MaxHits * m}
  <1>0. /\ L \in SUBSET SW!Hit /\ IsFiniteSet(L) /\ now \in Nat
        /\ \A h \in L : h.t \in Nat /\ h.t <= now
        /\ Window \in Nat \ {0} /\ MaxHits \in Nat
        /\ \A t \in 0..now : Cardinality(SW!InWindow(L, t)) <= MaxHits
    BY SameNotions, LimitsKnown DEF TypeOK, SW!SWTypeOK, SW!Hit, SW!WindowBound
  <1> HIDE DEF L
  <1>1. \A m \in Nat : IsFiniteSet(Span(L, m)) /\ Cardinality(Span(L, m)) \in Nat
    <2>1. \A m \in Nat : Span(L, m) \subseteq L
      BY DEF Span
    <2> QED
      BY <1>0, <2>1, FS_Subset, FS_CardinalityType
  <1>2. 0 \in S
    <2>1. Span(L, 0) = {}
      BY <1>0 DEF Span
    <2>2. Cardinality(Span(L, 0)) = 0 /\ MaxHits * 0 = 0
      BY <1>0, <2>1, FS_EmptySet
    <2> QED
      BY <2>2
  <1>3. ASSUME NEW m \in Nat, m \in S
        PROVE  m + 1 \in S
    <2>0. /\ Cardinality(Span(L, m)) \in Nat /\ Cardinality(Span(L, m + 1)) \in Nat
          /\ IsFiniteSet(Span(L, m)) /\ m + 1 \in Nat
      BY <1>1
    <2>1. /\ (m + 1) * Window = m * Window + Window /\ m * Window \in Nat
          /\ MaxHits * (m + 1) = MaxHits * m + MaxHits /\ MaxHits * m \in Nat
      BY <1>0
    <2>2. Cardinality(Span(L, m)) <= MaxHits * m
      BY <1>3
    <2>3. CASE m * Window > now
      <3>1. Span(L, m + 1) \subseteq Span(L, m)
        <4>1. \A h \in L : h.t + m * Window > now
          BY <1>0, <2>1, <2>3
        <4> QED
          BY <4>1 DEF Span
      <3>2. Cardinality(Span(L, m + 1)) <= Cardinality(Span(L, m))
        BY <2>0, <3>1, FS_Subset
      <3> QED
        BY <1>0, <2>0, <2>1, <2>2, <3>2
    <2>4. CASE ~(m * Window > now)
      <3> DEFINE t == now - m * Window
                 I == SW!InWindow(L, t)
      <3>1. t \in 0..now
        BY <1>0, <2>1, <2>4
      <3>2. Span(L, m + 1) \subseteq Span(L, m) \cup I
        BY <1>0, <2>1, <2>4 DEF Span, SW!InWindow
      <3>3. I \subseteq L
        BY DEF SW!InWindow
      <3>4. Cardinality(I) <= MaxHits
        BY <1>0, <3>1
      <3> HIDE DEF I, t
      <3>5. IsFiniteSet(I) /\ Cardinality(I) \in Nat
        BY <1>0, <3>3, FS_Subset, FS_CardinalityType
      <3>6. /\ IsFiniteSet(Span(L, m) \cup I)
            /\ Cardinality(Span(L, m) \cup I)
                  = Cardinality(Span(L, m)) + Cardinality(I) - Cardinality(Span(L, m) \cap I)
            /\ Cardinality(Span(L, m) \cap I) \in Nat
        BY <1>1, <3>5, FS_Union, FS_Intersection, FS_CardinalityType
      <3>7. Cardinality(Span(L, m + 1)) <= Cardinality(Span(L, m) \cup I)
        BY <3>2, <3>6, FS_Subset
      <3>8. Cardinality(Span(L, m) \cup I) \in Nat
        BY <3>6, FS_CardinalityType
      <3> QED
        BY <1>0, <2>0, <2>1, <2>2, <3>4, <3>5, <3>6, <3>7, <3>8
    <2> QED
      BY <2>3, <2>4
  <1> HIDE DEF S
  <1>4. n \in S
    BY <1>2, <1>3, AllNaturals
  <1> QED
    BY <1>4 DEF S, L

\* The last tick was one Period before the next; what it kept was in the
\* window then, and what came since is younger.
TickInv ==
    /\ now <= due /\ due <= now + Period
    /\ \A k \in Keys : \A h \in hits[k] : h.t + Window + Period > due

\* The windows that PerKey counts span a Period and a Window.
LEMMA EnoughWindows ==
    LET n == (Period + 2 * Window - 1) \div Window
    IN  n \in Nat /\ n * Window >= Period + Window
  <1> DEFINE a == Period + 2 * Window - 1
             n == a \div Window
  <1>1. a \in Nat /\ Window \in Nat /\ Window > 0
    BY LimitsKnown, PeriodIsPos
  <1> HIDE DEF a
  <1>2. a = n * Window + (a % Window) /\ a % Window \in 0..(Window - 1) /\ n \in Nat
    BY <1>1
  <1>3. n * Window \in Nat
    BY <1>1, <1>2
  <1> HIDE DEF n
  <1>4. n * Window >= Period + Window
    <2> DEFINE b == n * Window
    <2>1. b \in Nat /\ a = b + (a % Window)
      BY <1>2, <1>3
    <2> HIDE DEF b
    <2>2. b >= Period + Window
      BY <1>1, <1>2, <2>1, LimitsKnown, PeriodIsPos DEF a
    <2> QED
      BY <2>2 DEF b
  <1> QED
    BY <1>2, <1>4 DEF n, a

\* An address never costs more than the hits of the windows between the one
\* before the last tick and now, however Allow and Cleanup interleave.
THEOREM GoMemoryBounded == Spec => []GoMemoryBound
  <1>1. Init => TickInv
    BY PeriodIsPos DEF Init, SW!Init, TickInv
  <1>2. IInv /\ TickInv /\ [Next]_vars => TickInv'
    <2> SUFFICES ASSUME TypeOK, TickInv, [Next]_vars PROVE TickInv'
      BY DEF IInv
    <2>0. /\ now \in Nat /\ due \in Nat /\ Window \in Nat \ {0} /\ Period \in Nat \ {0}
          /\ \A k \in Keys : \A h \in hits[k] : h.t \in Nat
      BY LimitsKnown, PeriodIsPos DEF TypeOK, SW!SWTypeOK, SW!Hit
    <2>1. CASE Tick
      BY <2>0, <2>1 DEF Tick, SW!Tick, TickInv
    <2>2. CASE Cleanup
      BY <2>0, <2>2 DEF Cleanup, Recent, TickInv
    <2>3. ASSUME NEW k \in Keys, AllowAccepts(k)
          PROVE  TickInv'
      <3>1. SW!NextHit(k).t = now
        BY DEF SW!NextHit
      <3>2. hits' = [hits EXCEPT ![k] = @ \cup {SW!NextHit(k)}] /\ UNCHANGED <<now, due>>
        BY <2>3 DEF AllowAccepts
      <3>3. now + Window + Period > due
        BY <2>0 DEF TickInv
      <3> QED
        BY <3>1, <3>2, <3>3 DEF TickInv, TypeOK
    <2>4. ASSUME NEW k \in Keys, AllowRefuses(k)
          PROVE  TickInv'
      BY <2>4 DEF AllowRefuses, TickInv
    <2>5. CASE UNCHANGED vars
      BY <2>5 DEF vars, TickInv
    <2> QED
      BY <2>1, <2>2, <2>3, <2>4, <2>5 DEF Next, Allow
  <1>3. IInv /\ TickInv /\ SW!WindowBound => GoMemoryBound
    <2> SUFFICES ASSUME IInv, TickInv, SW!WindowBound, NEW k \in Keys
                 PROVE  Cardinality(hits[k]) <= PerKey
      BY DEF GoMemoryBound
    <2> DEFINE n == (Period + 2 * Window - 1) \div Window
    <2>1. n \in Nat /\ n * Window >= Period + Window /\ n * Window \in Nat
      BY EnoughWindows, LimitsKnown
    <2> HIDE DEF n
    <2>2. hits[k] \subseteq Span(log[k], n)
      <3>1. \A h \in hits[k] : h \in log[k] /\ h.t \in Nat
        BY DEF IInv, HitsTrackLog, TypeOK, SW!Hit
      <3>2. \A h \in hits[k] : h.t + n * Window > now
        BY <2>1, <3>1, LimitsKnown, PeriodIsPos DEF TickInv, IInv, TypeOK, SW!SWTypeOK
      <3> QED
        BY <3>1, <3>2 DEF Span
    <2>3. Cardinality(Span(log[k], n)) <= MaxHits * n
      BY <2>1, SpanBounded DEF IInv
    <2>4. IsFiniteSet(Span(log[k], n))
      <3>1. IsFiniteSet(log[k]) /\ Span(log[k], n) \subseteq log[k]
        BY SameNotions DEF IInv, TypeOK, SW!SWTypeOK, Span
      <3> QED
        BY <3>1, FS_Subset
    <2>5. /\ Cardinality(hits[k]) <= Cardinality(Span(log[k], n))
          /\ Cardinality(hits[k]) \in Nat /\ Cardinality(Span(log[k], n)) \in Nat
      BY <2>2, <2>4, FS_Subset, FS_CardinalityType
    <2>6. MaxHits * n \in Nat /\ PerKey = MaxHits * n
      BY <2>1, LimitsKnown DEF PerKey, n
    <2> QED
      BY <2>3, <2>5, <2>6
  <1>4. Spec => []IInv
    BY InitEstablishes, NextPreserves, PTL DEF Spec
  <1> QED
    BY <1>1, <1>2, <1>3, <1>4, GoWindowBounded, PTL DEF Spec

=============================================================================
