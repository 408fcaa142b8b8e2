--------------------------- MODULE SlidingWindow ---------------------------
(***************************************************************************)
(* What a per-key sliding-window limiter promises: a request is accepted   *)
(* exactly if fewer than MaxHits requests of its key were accepted in the  *)
(* Window up to now.  Nothing is said of what is remembered, or for how    *)
(* long.  Both limiters of the repository are shown to implement this.     *)
(***************************************************************************)
EXTENDS Naturals, FiniteSets, FiniteSetTheorems, TLAPS

CONSTANTS
    Keys,      \* what requests are counted by
    Window,    \* length of the window
    MaxHits,   \* accepted requests per key and window
    MaxTime    \* bound: the clock's last reading

\* What the theorems assume of the constants.
LimitsOk == Window \in Nat \ {0} /\ MaxHits \in Nat /\ MaxTime \in Nat

VARIABLES
    now,    \* the monotonic clock
    log,    \* every request ever accepted, per key
    last    \* the last verdict on each key

vars == <<now, log, last>>

\* n tells apart the hits of one key at the same reading of the clock.
Hit == [t : Nat, n : Nat]

\* The hits of S in the window that ends at t.
InWindow(S, t) == {h \in S : h.t + Window > t /\ h.t <= t}

Verdicts == {"none", "accepted", "refused"}

\* The type invariant; no hit lies in the future.
SWTypeOK ==
    /\ now \in Nat
    /\ log \in [Keys -> SUBSET Hit]
    /\ \A k \in Keys : IsFiniteSet(log[k])
    /\ \A k \in Keys : \A h \in log[k] : h.t <= now
    /\ last \in [Keys -> Verdicts]

Init ==
    /\ now = 0
    /\ log = [k \in Keys |-> {}]
    /\ last = [k \in Keys |-> "none"]

Tick ==
    /\ now < MaxTime
    /\ now' = now + 1
    /\ UNCHANGED <<log, last>>

Full(k) == Cardinality(InWindow(log[k], now)) >= MaxHits

NextHit(k) == [t |-> now, n |-> Cardinality(log[k]) + 1]

Accept(k) ==
    /\ ~Full(k)
    /\ log' = [log EXCEPT ![k] = @ \cup {NextHit(k)}]
    /\ last' = [last EXCEPT ![k] = "accepted"]
    /\ UNCHANGED now

Refuse(k) ==
    /\ Full(k)
    /\ last' = [last EXCEPT ![k] = "refused"]
    /\ UNCHANGED <<now, log>>

Next == Tick \/ \E k \in Keys : Accept(k) \/ Refuse(k)

Spec == Init /\ [][Next]_vars

\* In every window, wherever it ends, at most MaxHits requests of a key were
\* accepted.
WindowBound ==
    \A k \in Keys : \A t \in 0..now : Cardinality(InWindow(log[k], t)) <= MaxHits

-----------------------------------------------------------------------------
\* The window of a finite set is finite.
LEMMA WindowFinite ==
    ASSUME NEW S, IsFiniteSet(S), NEW t
    PROVE  IsFiniteSet(InWindow(S, t)) /\ Cardinality(InWindow(S, t)) \in Nat
  <1>1. InWindow(S, t) \subseteq S
    BY DEF InWindow
  <1> QED
    BY <1>1, FS_Subset, FS_CardinalityType

\* One more element makes a finite set at most one larger.
LEMMA OneMore ==
    ASSUME NEW S, IsFiniteSet(S), NEW x
    PROVE  /\ IsFiniteSet(S \cup {x})
           /\ Cardinality(S \cup {x}) <= Cardinality(S) + 1
           /\ Cardinality(S \cup {x}) \in Nat
  <1>1. Cardinality(S) \in Nat
    BY FS_CardinalityType
  <1>2. CASE x \in S
    <2>1. S \cup {x} = S
      BY <1>2
    <2>2. Cardinality(S) <= Cardinality(S) + 1
      BY <1>1
    <2> QED
      BY <1>1, <2>1, <2>2, Zenon
  <1>3. CASE x \notin S
    <2>1. IsFiniteSet(S \cup {x})
      BY FS_AddElement
    <2>2. Cardinality(S \cup {x}) = Cardinality(S) + 1
      BY <1>3, FS_AddElement
    <2> QED
      BY <1>1, <2>1, <2>2
  <1> QED
    BY <1>2, <1>3

\* The hit a request adds is new, of the right shape, and counted from now on.
LEMMA HitAdded ==
    ASSUME SWTypeOK, NEW k \in Keys, log' = [log EXCEPT ![k] = @ \cup {NextHit(k)}], now' = now
    PROVE  /\ NextHit(k) \in Hit
           /\ \A j \in Keys : IsFiniteSet(log'[j])
           /\ \A j \in Keys : \A h \in log'[j] : h.t <= now'
           /\ log' \in [Keys -> SUBSET Hit]
  <1>1. Cardinality(log[k]) \in Nat
    BY FS_CardinalityType DEF SWTypeOK
  <1>2. NextHit(k) \in Hit /\ NextHit(k).t = now
    BY <1>1 DEF NextHit, Hit, SWTypeOK
  <1>3. IsFiniteSet(log[k] \cup {NextHit(k)})
    BY FS_AddElement DEF SWTypeOK
  <1> QED
    BY <1>2, <1>3 DEF SWTypeOK

\* The state of the limiter has its type in every reachable state.
THEOREM WindowTypeCorrect ==
    ASSUME LimitsOk PROVE Spec => []SWTypeOK
  <1>1. Init => SWTypeOK
    BY FS_EmptySet DEF Init, SWTypeOK, Verdicts
  <1>2. SWTypeOK /\ [Next]_vars => SWTypeOK'
    <2> SUFFICES ASSUME SWTypeOK, [Next]_vars PROVE SWTypeOK'
      OBVIOUS
    <2>1. CASE Tick
      BY <2>1, LimitsOk DEF LimitsOk, Tick, SWTypeOK, Hit
    <2>2. ASSUME NEW k \in Keys, Accept(k) PROVE SWTypeOK'
      BY <2>2, HitAdded DEF Accept, SWTypeOK, Verdicts
    <2>3. ASSUME NEW k \in Keys, Refuse(k) PROVE SWTypeOK'
      BY <2>3 DEF Refuse, SWTypeOK, Verdicts
    <2>4. CASE UNCHANGED vars
      BY <2>4 DEF vars, SWTypeOK
    <2> QED
      BY <2>1, <2>2, <2>3, <2>4 DEF Next
  <1> QED
    BY <1>1, <1>2, PTL DEF Spec

\* No window of any length ever holds more accepted requests of a key than
\* the configured maximum, for every clock, key set and limit.
THEOREM WindowIsBounded ==
    ASSUME LimitsOk PROVE Spec => []WindowBound
  <1>1. Init => WindowBound
    <2> SUFFICES ASSUME Init, NEW k \in Keys, NEW t \in 0..now
                 PROVE  Cardinality(InWindow(log[k], t)) <= MaxHits
      BY DEF WindowBound
    <2>1. InWindow(log[k], t) = {}
      BY DEF Init, InWindow
    <2> QED
      BY <2>1, FS_EmptySet, LimitsOk DEF LimitsOk
  <1>2. SWTypeOK /\ WindowBound /\ [Next]_vars => WindowBound'
    <2> SUFFICES ASSUME SWTypeOK, WindowBound, [Next]_vars,
                        NEW k \in Keys, NEW t \in 0..now'
                 PROVE  Cardinality(InWindow(log'[k], t)) <= MaxHits
      BY DEF WindowBound, InWindow
    <2>1. CASE Tick
      <3>1. CASE t <= now
        BY <2>1, <3>1 DEF Tick, WindowBound, SWTypeOK
      <3>2. CASE t > now
        <4>1. InWindow(log[k], t) \subseteq InWindow(log[k], now)
          BY <3>2, LimitsOk DEF LimitsOk, InWindow, SWTypeOK, Hit
        <4>2. Cardinality(InWindow(log[k], t)) <= Cardinality(InWindow(log[k], now))
          BY <4>1, WindowFinite, FS_Subset DEF SWTypeOK
        <4>3. Cardinality(InWindow(log[k], now)) <= MaxHits
          BY DEF WindowBound, SWTypeOK
        <4>4. log' = log
          BY <2>1 DEF Tick
        <4> HIDE DEF InWindow
        <4>5. Cardinality(InWindow(log[k], now)) \in Nat /\ Cardinality(InWindow(log[k], t)) \in Nat
          BY WindowFinite DEF SWTypeOK
        <4> QED
          BY <4>2, <4>3, <4>4, <4>5, LimitsOk DEF LimitsOk
      <3> QED
        BY <2>1, <3>1, <3>2 DEF Tick, SWTypeOK
    <2>2. ASSUME NEW j \in Keys, Accept(j)
          PROVE  Cardinality(InWindow(log'[k], t)) <= MaxHits
      <3>1. CASE k # j
        BY <2>2, <3>1 DEF Accept, WindowBound, SWTypeOK
      <3>2. CASE k = j /\ t < now
        <4>1. InWindow(log'[k], t) = InWindow(log[k], t)
          BY <2>2, <3>2, HitAdded DEF Accept, InWindow, NextHit, SWTypeOK, Hit
        <4> QED
          BY <2>2, <3>2, <4>1 DEF WindowBound, Accept
      <3>3. CASE k = j /\ t = now
        <4>1. InWindow(log'[k], now) \subseteq InWindow(log[k], now) \cup {NextHit(k)}
          BY <2>2, <3>3 DEF Accept, InWindow, SWTypeOK
        <4>2. IsFiniteSet(InWindow(log[k], now)) /\ Cardinality(InWindow(log[k], now)) \in Nat
          BY WindowFinite DEF SWTypeOK
        <4>3. /\ IsFiniteSet(InWindow(log[k], now) \cup {NextHit(k)})
              /\ Cardinality(InWindow(log[k], now) \cup {NextHit(k)})
                    <= Cardinality(InWindow(log[k], now)) + 1
          BY <4>2, OneMore
        <4>4. /\ Cardinality(InWindow(log'[k], now))
                    <= Cardinality(InWindow(log[k], now) \cup {NextHit(k)})
              /\ IsFiniteSet(InWindow(log'[k], now))
          BY <4>1, <4>3, FS_Subset
        <4>5. Cardinality(InWindow(log[k], now)) < MaxHits
          BY <2>2, <3>3, <4>2, LimitsOk DEF LimitsOk, Accept, Full
        <4>6. /\ Cardinality(InWindow(log'[k], now)) \in Nat
              /\ Cardinality(InWindow(log[k], now) \cup {NextHit(k)}) \in Nat
          BY <4>3, <4>4, FS_CardinalityType
        <4> QED
          BY <3>3, <4>2, <4>3, <4>4, <4>5, <4>6, LimitsOk DEF LimitsOk
      <3> QED
        BY <2>2, <3>1, <3>2, <3>3 DEF Accept, SWTypeOK
    <2>3. ASSUME NEW j \in Keys, Refuse(j)
          PROVE  Cardinality(InWindow(log'[k], t)) <= MaxHits
      BY <2>3 DEF Refuse, WindowBound
    <2>4. CASE UNCHANGED vars
      BY <2>4 DEF vars, WindowBound
    <2> QED
      BY <2>1, <2>2, <2>3, <2>4 DEF Next
  <1> QED
    BY <1>1, <1>2, WindowTypeCorrect, PTL DEF Spec

=============================================================================
