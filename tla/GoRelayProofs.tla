--------------------------- MODULE GoRelayProofs ---------------------------
(***************************************************************************)
(* Theorems about GoRelay: the count of active connections is exact, a     *)
(* cancelled session reads for one idle period at most, what a client sends *)
(* reaches the backend in order, and a FIN comes after the data, for every *)
(* number of sessions, every limit and every behaviour of the peers.       *)
(***************************************************************************)
EXTENDS GoRelay, FiniteSetTheorems, SequenceTheorems, TLAPS

Early == {"idle", "first", "dial"}
HPcs  == Early \cup {"top", "arm", "read", "deliver", "fin", "finw", "done"}
TPcs  == {"none", "read", "send", "sending", "done"}

\* The part of the state the theorems are about.
PcsOK ==
    /\ hpc \in [Sessions -> HPcs]
    /\ tpc \in [Sessions -> TPcs]
    /\ ctx \in [Sessions -> BOOLEAN]
    /\ rdl \in [Sessions -> Nat]

\* tcpToWs runs, and a context is there to be cancelled, only once the handler
\* has got past its own set-up.
StartedLate ==
    \A x \in Sessions : hpc[x] \in Early => tpc[x] = "none" /\ ~ctx[x]

RunningSet == {x \in Sessions : Running(x)}

\* The count, and that there are finitely many to count.
Counted == IsFiniteSet(RunningSet) /\ active = Cardinality(RunningSet)

Inv == PcsOK /\ StartedLate /\ Counted

-----------------------------------------------------------------------------
\* A step of a handler between two places where it runs, or of anyone else.
LEMMA SameCount ==
    ASSUME Counted, active' = active, \A y \in Sessions : Running(y)' <=> Running(y)
    PROVE  Counted'
  <1>1. RunningSet' = RunningSet
    BY DEF RunningSet
  <1> QED
    BY <1>1, Zenon DEF Counted

\* A handler starts.
LEMMA CountUp ==
    ASSUME PcsOK, Counted, NEW x \in Sessions, Accept(x)
    PROVE  Counted'
  <1>1. x \notin RunningSet /\ RunningSet' = RunningSet \cup {x}
    BY DEF RunningSet, Running, Accept, AtH, Set, PcsOK, HPcs, Early
  <1>2. /\ IsFiniteSet(RunningSet \cup {x})
        /\ Cardinality(RunningSet \cup {x}) = Cardinality(RunningSet) + 1
    BY <1>1, FS_AddElement DEF Counted
  <1>3. active' = Cardinality(RunningSet) + 1
    BY DEF Accept, Counted
  <1> QED
    BY <1>1, <1>2, <1>3, Zenon DEF Counted

\* A handler ends, in whatever way.
LEMMA CountDown ==
    ASSUME PcsOK, Counted, NEW x \in Sessions, NEW how, Running(x), Finish(x, how)
    PROVE  Counted'
  <1>1. x \in RunningSet /\ RunningSet' = RunningSet \ {x}
    BY DEF RunningSet, Running, Finish, Set, PcsOK
  <1>2. /\ IsFiniteSet(RunningSet \ {x})
        /\ Cardinality(RunningSet \ {x}) = Cardinality(RunningSet) - 1
    BY <1>1, FS_RemoveElement DEF Counted
  <1>3. active' = Cardinality(RunningSet) - 1
    BY DEF Finish, Counted
  <1> QED
    BY <1>1, <1>2, <1>3, Zenon DEF Counted

\* The end of a handler keeps the rest of the invariant.
LEMMA FinishKeeps ==
    ASSUME Inv, NEW x \in Sessions, NEW how, Running(x), Finish(x, how),
           UNCHANGED tpc, rdl' = rdl
    PROVE  Inv'
  <1>1. PcsOK' /\ StartedLate'
    BY DEF Inv, PcsOK, StartedLate, Finish, Set, HPcs, Early
  <1>2. Counted'
    BY CountDown DEF Inv
  <1> QED
    BY <1>1, <1>2 DEF Inv

-----------------------------------------------------------------------------
\* No session has begun: nothing is counted, nothing runs.
LEMMA InitInv == Init => Inv
  <1> SUFFICES ASSUME Init PROVE Inv
    OBVIOUS
  <1>1. PcsOK /\ StartedLate
    BY DEF Init, All, PcsOK, StartedLate, HPcs, TPcs, Early
  <1>2. RunningSet = {} /\ active = 0
    BY DEF Init, All, RunningSet, Running
  <1>3. Counted
    BY <1>2, FS_EmptySet DEF Counted
  <1> QED
    BY <1>1, <1>3 DEF Inv

\* The steps of a handler, one by one.
LEMMA HandlerStep ==
    ASSUME Inv, NEW x \in Sessions, Handler(x)
    PROVE  Inv'
  <1> USE DEF AtH, Set, HPcs, Early, TPcs
  <1>1. CASE Accept(x)
    <2>1. PcsOK' /\ StartedLate'
      BY <1>1, LimitsArePos DEF Inv, PcsOK, StartedLate, Accept
    <2>2. Counted'
      BY <1>1, CountUp DEF Inv
    <2> QED
      BY <2>1, <2>2 DEF Inv
  <1>2. CASE FirstFails(x) \/ DialFails(x) \/ FinRefused(x)
    BY <1>2, FinishKeeps DEF FirstFails, DialFails, FinRefused, Running, timers
  <1>3. CASE FinEnds(x) \/ HandlerPanics(x)
    BY <1>3, FinishKeeps DEF FinEnds, HandlerPanics, Running
  <1>4. CASE FirstOk(x) \/ DialOk(x)
    <2>1. PcsOK' /\ StartedLate'
      BY <1>4, LimitsArePos DEF Inv, PcsOK, StartedLate, FirstOk, DialOk, timers
    <2>2. active' = active /\ \A y \in Sessions : Running(y)' <=> Running(y)
      BY <1>4 DEF FirstOk, DialOk, Running, procVars, Inv, PcsOK
    <2> QED
      BY <2>1, <2>2, SameCount DEF Inv
  <1>5. CASE LoopTop(x) \/ Arm(x) \/ ReadNoise(x) \/ ReadData(x) \/ ReadEnd(x) \/ ReadFails(x)
    <2>1. PcsOK' /\ StartedLate'
      BY <1>5, LimitsArePos
      DEF Inv, PcsOK, StartedLate, LoopTop, Arm, ReadNoise, ReadData, ReadEnd, ReadFails, timers
    <2>2. active' = active /\ \A y \in Sessions : Running(y)' <=> Running(y)
      BY <1>5 DEF LoopTop, Arm, ReadNoise, ReadData, ReadEnd, ReadFails, Running, procVars,
                  Inv, PcsOK
    <2> QED
      BY <2>1, <2>2, SameCount DEF Inv
  <1>6. CASE Deliver(x) \/ DeliverFails(x) \/ FinBegins(x)
    <2>1. PcsOK' /\ StartedLate'
      BY <1>6, LimitsArePos
      DEF Inv, PcsOK, StartedLate, Deliver, DeliverFails, FinBegins, timers
    <2>2. active' = active /\ \A y \in Sessions : Running(y)' <=> Running(y)
      BY <1>6 DEF Deliver, DeliverFails, FinBegins, Running, procVars,
                  Inv, PcsOK
    <2> QED
      BY <2>1, <2>2, SameCount DEF Inv
  <1> QED
    BY <1>1, <1>2, <1>3, <1>4, <1>5, <1>6 DEF Handler

\* tcpToWs moves only its own place and the context, once it has started.
LEMMA TcpStep ==
    ASSUME Inv, NEW x \in Sessions, TcpToWs(x)
    PROVE  Inv'
  <1> USE DEF AtT, Set, HPcs, Early, TPcs
  <1>1. UNCHANGED <<active, hpc, rdl>>
    BY DEF TcpToWs, TcpRead, TcpReadFails, SendRefused, SendBegins, SendFails, SendEnds,
           SendCrashes, procVars, pcs, timers
  <1>2. PcsOK' /\ StartedLate'
    BY <1>1 DEF Inv, PcsOK, StartedLate, TcpToWs, TcpRead, TcpReadFails, SendRefused,
           SendBegins, SendFails, SendEnds, SendCrashes, TcpEnd, pcs
  <1>3. Counted'
    BY <1>1, SameCount DEF Running, Inv
  <1> QED
    BY <1>2, <1>3 DEF Inv

\* Everybody else leaves the handler, tcpToWs and the context alone.
LEMMA OtherStep ==
    ASSUME Inv, UNCHANGED <<active, hpc, tpc, ctx>>, rdl' \in [Sessions -> Nat]
    PROVE  Inv'
  <1>1. PcsOK' /\ StartedLate'
    BY DEF Inv, PcsOK, StartedLate
  <1>2. Counted'
    BY SameCount DEF Running, Inv
  <1> QED
    BY <1>1, <1>2 DEF Inv

\* Time passes: places stay, deadlines only come nearer.
LEMMA TickKeeps ==
    ASSUME Inv, Tick
    PROVE  /\ UNCHANGED <<active, hpc, tpc, ctx>>
           /\ rdl' \in [Sessions -> Nat]
           /\ \A x \in Sessions : rdl'[x] <= rdl[x]
  BY DEF Tick, Less, procVars, pcs, Inv, PcsOK

\* What keeps the handler's places, tcpToWs and the count keeps the invariant.
LEMMA OthersKeep ==
    ASSUME Inv, NEW x \in Sessions, Scheduler(x) \/ Peers(x)
    PROVE  UNCHANGED <<active, hpc, tpc, ctx, rdl>>
  <1>1. CASE Scheduler(x)
    BY <1>1 DEF Scheduler, FakeBegins, FakeEnds, FakeStops, FakeCrashes, procVars, pcs, timers
  <1>2. CASE Peers(x)
    BY <1>2 DEF Peers, ClientSends, ClientLeaves, BackendSends, BackendEnds, procVars, pcs, timers
  <1> QED
    BY <1>1, <1>2

\* The invariant is inductive: one case for each part of Next.
LEMMA StepInv == Inv /\ [Next]_vars => Inv'
  <1> SUFFICES ASSUME Inv, [Next]_vars PROVE Inv'
    OBVIOUS
  <1>1. CASE Signal
    BY <1>1, OtherStep DEF Signal, pcs, timers, Inv, PcsOK
  <1>2. CASE Tick
    BY <1>2, TickKeeps, OtherStep
  <1>3. ASSUME NEW x \in Sessions, Handler(x) PROVE Inv'
    BY <1>3, HandlerStep
  <1>4. ASSUME NEW x \in Sessions, TcpToWs(x) PROVE Inv'
    BY <1>4, TcpStep
  <1>5. ASSUME NEW x \in Sessions, Scheduler(x) \/ Peers(x) PROVE Inv'
    BY <1>5, OthersKeep, OtherStep DEF Inv, PcsOK
  <1>6. CASE UNCHANGED vars
    BY <1>6, OtherStep DEF vars, procVars, pcs, timers, Inv, PcsOK
  <1> QED
    BY <1>1, <1>2, <1>3, <1>4, <1>5, <1>6 DEF Next

\* The count and the handlers' places agree in every reachable state, and
\* tcpToWs runs only where the handler has come far enough to start it.
THEOREM Invariant == Spec => []Inv
  BY InitInv, StepInv, PTL DEF Spec

-----------------------------------------------------------------------------
\* The reported number of active connections is the number of handlers that
\* run, over every way a handler ends, a recovered panic included.
THEOREM ActiveExact == Spec => []ActiveIsExact
  <1>1. Inv => ActiveIsExact
    BY DEF Inv, Counted, RunningSet, ActiveIsExact
  <1> QED
    BY <1>1, Invariant, PTL

\* How long a cancelled session has been waiting, and still will: until its
\* context is cancelled, and while the deadline is being armed, no time counts;
\* from then on the time that counts is taken off the deadline.
WaitOK == since \in [Sessions -> Nat]

WaitInv ==
    \A x \in Sessions :
        /\ ~ctx[x] \/ hpc[x] = "arm" => since[x] = 0
        /\ hpc[x] = "read" => since[x] + rdl[x] <= Idle

\* A handler enters the read only where it arms the deadline, and is there only
\* if it found the context not cancelled a moment ago.
LEMMA HandlerWaits ==
    ASSUME Inv, WaitOK, WaitInv, NEW x \in Sessions, Handler(x)
    PROVE  WaitOK' /\ WaitInv'
  <1> USE LimitsArePos DEF AtH, Set, Inv, PcsOK, WaitOK, WaitInv
  <1>1. UNCHANGED since
    BY DEF Handler, Accept, FirstFails, FirstOk, DialFails, DialOk, LoopTop, Arm, ReadNoise,
           ReadData, ReadEnd, ReadFails, Deliver, DeliverFails, FinRefused, FinBegins, FinEnds,
           HandlerPanics, timers
  <1>2. CASE Accept(x) \/ FirstOk(x) \/ DialOk(x)
    BY <1>1, <1>2 DEF Accept, FirstOk, DialOk, pcs, timers
  <1>3. CASE FirstFails(x) \/ DialFails(x) \/ FinRefused(x) \/ FinEnds(x) \/ HandlerPanics(x)
    <2>1. PICK how : Finish(x, how)
      BY <1>3 DEF FirstFails, DialFails, FinRefused, FinEnds, HandlerPanics
    <2>2. UNCHANGED rdl
      BY <1>3 DEF FirstFails, DialFails, FinRefused, FinEnds, HandlerPanics, timers
    <2> QED
      BY <1>1, <2>1, <2>2 DEF Finish
  <1>4. CASE LoopTop(x)
    BY <1>1, <1>4 DEF LoopTop, timers
  <1>5. CASE Arm(x)
    <2>1. /\ hpc[x] = "arm" /\ hpc' = [hpc EXCEPT ![x] = "read"]
          /\ rdl' = [rdl EXCEPT ![x] = Idle] /\ ctx' = ctx
      BY <1>5 DEF Arm
    <2> QED
      BY <1>1, <2>1
  <1>6. CASE \/ ReadNoise(x) \/ ReadData(x) \/ ReadEnd(x) \/ ReadFails(x)
             \/ Deliver(x) \/ DeliverFails(x) \/ FinBegins(x)
    <2>1. UNCHANGED <<ctx, rdl>>
      BY <1>6 DEF ReadNoise, ReadData, ReadEnd, ReadFails, Deliver, DeliverFails, FinBegins,
                  timers
    <2>2. \E p \in {"top", "deliver", "fin", "finw"} : hpc' = [hpc EXCEPT ![x] = p]
      BY <1>6 DEF ReadNoise, ReadData, ReadEnd, ReadFails, Deliver, DeliverFails, FinBegins
    <2> QED
      BY <1>1, <2>1, <2>2
  <1> QED
    BY <1>2, <1>3, <1>4, <1>5, <1>6 DEF Handler

\* tcpToWs cancels; nothing counts yet.
LEMMA TcpWaits ==
    ASSUME Inv, WaitOK, WaitInv, NEW x \in Sessions, TcpToWs(x)
    PROVE  WaitOK' /\ WaitInv'
  <1>1. UNCHANGED <<hpc, rdl, since>>
    BY DEF TcpToWs, TcpRead, TcpReadFails, SendRefused, SendBegins, SendFails, SendEnds,
           SendCrashes, pcs, timers
  <1>2. \A y \in Sessions : ctx[y] => ctx'[y]
    BY DEF TcpToWs, TcpRead, TcpReadFails, SendRefused, SendBegins, SendFails, SendEnds,
           SendCrashes, TcpEnd, Set, pcs, Inv, PcsOK
  <1> QED
    BY <1>1, <1>2 DEF WaitOK, WaitInv

\* Time passes only where no deadline is being armed, and none has passed.
LEMMA TickWaits ==
    ASSUME Inv, WaitOK, WaitInv, Tick
    PROVE  WaitOK' /\ WaitInv'
  <1>1. WaitOK'
    BY DEF Tick, WaitOK
  <1>2. ASSUME NEW x \in Sessions
        PROVE  /\ ~ctx[x] \/ hpc[x] = "arm" => since'[x] = 0
               /\ hpc[x] = "read" => since'[x] + rdl'[x] <= Idle
    <2>1. /\ hpc[x] # "arm" /\ (hpc[x] = "read" => rdl[x] # 0)
          /\ rdl'[x] = Less(rdl[x])
          /\ since'[x] = IF ~ctx[x] \/ hpc[x] = "done" \/ since[x] > Idle
                         THEN since[x] ELSE since[x] + 1
      BY DEF Tick, Prompt
    <2>2. rdl[x] \in Nat /\ since[x] \in Nat /\ Idle \in Nat
      BY LimitsArePos DEF Inv, PcsOK, WaitOK
    <2>3. /\ ~ctx[x] => since[x] = 0
          /\ hpc[x] = "read" => since[x] + rdl[x] <= Idle
      BY DEF WaitInv
    <2> QED
      BY <2>1, <2>2, <2>3 DEF Less
  <1> QED
    BY <1>1, <1>2 DEF Tick, pcs, WaitInv

\* In every reachable state a cancelled session's deadline and the time since the
\* cancellation make up one idle period at most.
THEOREM WaitInvariant == Spec => []WaitInv
  <1>1. Init => WaitOK /\ WaitInv
    BY DEF Init, All, WaitOK, WaitInv
  <1>2. Inv /\ WaitOK /\ WaitInv /\ [Next]_vars => WaitOK' /\ WaitInv'
    <2> SUFFICES ASSUME Inv, WaitOK, WaitInv, [Next]_vars PROVE WaitOK' /\ WaitInv'
      OBVIOUS
    <2>1. CASE Signal \/ UNCHANGED vars
      BY <2>1 DEF Signal, vars, pcs, timers, WaitOK, WaitInv
    <2>2. CASE Tick
      BY <2>2, TickWaits
    <2>3. ASSUME NEW x \in Sessions, Handler(x) PROVE WaitOK' /\ WaitInv'
      BY <2>3, HandlerWaits
    <2>4. ASSUME NEW x \in Sessions, TcpToWs(x) PROVE WaitOK' /\ WaitInv'
      BY <2>4, TcpWaits
    <2>5. ASSUME NEW x \in Sessions, Scheduler(x) \/ Peers(x) PROVE WaitOK' /\ WaitInv'
      <3>1. UNCHANGED <<hpc, ctx, rdl>>
        BY <2>5, OthersKeep
      <3>2. UNCHANGED since
        BY <2>5 DEF Scheduler, FakeBegins, FakeEnds, FakeStops, FakeCrashes, Peers, ClientSends,
                    ClientLeaves, BackendSends, BackendEnds, timers
      <3> QED
        BY <3>1, <3>2 DEF WaitOK, WaitInv
    <2> QED
      BY <2>1, <2>2, <2>3, <2>4, <2>5 DEF Next
  <1> QED
    BY <1>1, <1>2, Invariant, PTL DEF Spec

\* Once a session is cancelled its handler waits for the client for the rest of
\* one idle period since then, for all limits and however the client sends: one
\* late arming is all that the cancellation can cross with.
THEOREM CancelledWaitBounded == Spec => []CancelledWaitIsBounded
  <1>1. WaitInv => CancelledWaitIsBounded
    BY DEF WaitInv, CancelledWaitIsBounded
  <1> QED
    BY <1>1, WaitInvariant, PTL

-----------------------------------------------------------------------------
(* What a session has done with the data. *)

DataOK ==
    /\ wsErr \in [Sessions -> BOOLEAN] /\ told \in [Sessions -> BOOLEAN]
    /\ taken \in [Sessions -> Nat] /\ got \in [Sessions -> Nat]
    /\ inq \in [Sessions -> Seq(Msg)] /\ sent \in [Sessions -> Nat]
    /\ padlike \in [Sessions -> SUBSET Nat] /\ rcv \in [Sessions -> Seq(Nat)]

\* tcpToWs sends each chunk it has read before it reads the next one, and ends
\* without having sent one only after a write has failed; once the relay has
\* begun, nothing else cancels the context.
DownInv(x) ==
    /\ tpc[x] \in {"none", "read"} => got[x] = taken[x]
    /\ tpc[x] \in {"send", "sending"} => taken[x] = got[x] + 1
    /\ tpc[x] = "done" /\ ~wsErr[x] /\ hpc[x] # "done" => got[x] = taken[x]
    /\ tpc[x] = "none" => hpc[x] \in Early \cup {"done"}
    /\ ctx[x] => hpc[x] = "done" \/ tpc[x] = "done"

Numbered(m) == m.kind \in {"data", "padlike"}

\* Number n is accounted for: it looked padded, arrived, or is still queued.
Arrived(x, n)   == \E j \in DOMAIN rcv[x] : rcv[x][j] = n
Queued(x, n)    == \E i \in DOMAIN inq[x] : Numbered(inq[x][i]) /\ inq[x][i].n = n
Accounted(x, n) == n \in padlike[x] \/ Arrived(x, n) \/ Queued(x, n)

\* What is queued is numbered upwards, beyond everything delivered, and while
\* wsToTcp is in its loop no number is missing.
QueueInv(x) ==
    /\ \A i \in DOMAIN inq[x] : Numbered(inq[x][i]) => inq[x][i].n \in 1..sent[x]
    /\ \A i, j \in DOMAIN inq[x] :
          i < j /\ Numbered(inq[x][i]) /\ Numbered(inq[x][j]) => inq[x][i].n < inq[x][j].n
    /\ \A i \in DOMAIN inq[x] : inq[x][i].kind = "padlike" => inq[x][i].n \in padlike[x]
    /\ hpc[x] = "deliver" => inq[x] # <<>> /\ Head(inq[x]).kind = "data"

RcvInv(x) ==
    /\ \A i \in DOMAIN rcv[x] : rcv[x][i] \in 1..sent[x]
    /\ \A i \in DOMAIN rcv[x], j \in DOMAIN inq[x] :
          Numbered(inq[x][j]) => rcv[x][i] < inq[x][j].n
    /\ \A i, j \in DOMAIN rcv[x] : i < j => rcv[x][i] < rcv[x][j]
    /\ \A i \in DOMAIN rcv[x] : \A n \in 1..rcv[x][i] :
          n \in padlike[x] \/ \E j \in 1..i : rcv[x][j] = n

NoneMissing(x) ==
    hpc[x] \notin {"fin", "finw", "done"} => \A n \in 1..sent[x] : Accounted(x, n)

UpInv(x) == QueueInv(x) /\ RcvInv(x) /\ NoneMissing(x)

DataInv == \A x \in Sessions : DownInv(x) /\ UpInv(x)

-----------------------------------------------------------------------------
(* Facts about queues. *)

LEMMA TailOf ==
    ASSUME NEW S, NEW q \in Seq(S), q # <<>>
    PROVE  /\ Head(q) = q[1] /\ 1 \in DOMAIN q /\ Head(q) \in S /\ Tail(q) \in Seq(S)
           /\ \A i \in DOMAIN Tail(q) : i + 1 \in DOMAIN q /\ Tail(q)[i] = q[i + 1] /\ i \in Nat /\ i >= 1
           /\ \A i \in DOMAIN q : i \in Nat /\ i >= 1
           /\ \A i \in DOMAIN q : i # 1 => i - 1 \in DOMAIN Tail(q) /\ Tail(q)[i - 1] = q[i]
  <1>1. /\ Len(q) \in Nat \ {0} /\ DOMAIN q = 1..Len(q) /\ Head(q) = q[1] /\ Head(q) \in S
        /\ Tail(q) \in Seq(S) /\ Len(Tail(q)) = Len(q) - 1 /\ DOMAIN Tail(q) = 1..Len(Tail(q))
        /\ \A i \in 1..Len(Tail(q)) : Tail(q)[i] = q[i + 1]
    BY HeadTailProperties, EmptySeq, LenProperties
  <1> QED
    BY <1>1

LEMMA AppendOf ==
    ASSUME NEW S, NEW q \in Seq(S), NEW e \in S
    PROVE  /\ Append(q, e) \in Seq(S)
           /\ Len(q) \in Nat /\ Len(q) + 1 \notin DOMAIN q
           /\ DOMAIN Append(q, e) = DOMAIN q \cup {Len(q) + 1}
           /\ Append(q, e)[Len(q) + 1] = e
           /\ \A i \in DOMAIN q : Append(q, e)[i] = q[i] /\ i \in Nat /\ i >= 1 /\ i <= Len(q)
  OBVIOUS

-----------------------------------------------------------------------------
(* What a step does to the messages of one session. *)

\* Nothing, while the handler may move on to what it has found at the head of
\* the queue, or out of its loop for good.
LEMMA QueueKept ==
    ASSUME NEW y \in Sessions, UpInv(y),
           inq'[y] = inq[y], sent'[y] = sent[y], padlike'[y] = padlike[y], rcv'[y] = rcv[y],
           hpc'[y] = "deliver" => hpc[y] = "deliver" \/ (inq[y] # <<>> /\ Head(inq[y]).kind = "data"),
           hpc[y] \in {"fin", "finw", "done"} => hpc'[y] \in {"fin", "finw", "done"}
    PROVE  UpInv(y)'
  <1>1. QueueInv(y)'
    BY DEF UpInv, QueueInv, Numbered
  <1>2. RcvInv(y)'
    BY DEF UpInv, RcvInv, Numbered
  <1>3. NoneMissing(y)'
    BY DEF UpInv, NoneMissing, Accounted, Arrived, Queued, Numbered
  <1> QED
    BY <1>1, <1>2, <1>3 DEF UpInv

\* The head is dropped: noise, what looked padded, or the loop is over.
LEMMA HeadDropped ==
    ASSUME DataOK, NEW y \in Sessions, UpInv(y), inq[y] # <<>>,
           inq'[y] = Tail(inq[y]), sent'[y] = sent[y], padlike'[y] = padlike[y], rcv'[y] = rcv[y],
           hpc'[y] # "deliver",
           \/ hpc'[y] \in {"fin", "finw", "done"}
           \/ hpc[y] = "read" /\ Head(inq[y]).kind # "data"
    PROVE  UpInv(y)'
  <1> DEFINE q == inq[y]
  <1>0. q \in Seq(Msg) /\ q # <<>>
    BY DEF DataOK
  <1>1. /\ Head(q) = q[1] /\ 1 \in DOMAIN q
        /\ \A i \in DOMAIN Tail(q) : i + 1 \in DOMAIN q /\ Tail(q)[i] = q[i + 1] /\ i \in Nat
        /\ \A i \in DOMAIN q : i # 1 => i - 1 \in DOMAIN Tail(q) /\ Tail(q)[i - 1] = q[i]
    BY <1>0, TailOf
  <1>2. /\ \A i \in DOMAIN q : Numbered(q[i]) => q[i].n \in 1..sent[y]
        /\ \A i, j \in DOMAIN q :
              i < j /\ Numbered(q[i]) /\ Numbered(q[j]) => q[i].n < q[j].n
        /\ \A i \in DOMAIN q : q[i].kind = "padlike" => q[i].n \in padlike[y]
        /\ \A i \in DOMAIN rcv[y], j \in DOMAIN q : Numbered(q[j]) => rcv[y][i] < q[j].n
    BY DEF UpInv, QueueInv, RcvInv
  <1>3. hpc[y] = "read" => \A n \in 1..sent[y] : Accounted(y, n)
    BY DEF UpInv, NoneMissing
  <1>4. QueueInv(y)'
    <2> SUFFICES /\ \A i \in DOMAIN Tail(q) : Numbered(Tail(q)[i]) => Tail(q)[i].n \in 1..sent[y]
                 /\ \A i, j \in DOMAIN Tail(q) :
                       i < j /\ Numbered(Tail(q)[i]) /\ Numbered(Tail(q)[j])
                          => Tail(q)[i].n < Tail(q)[j].n
                 /\ \A i \in DOMAIN Tail(q) : Tail(q)[i].kind = "padlike" => Tail(q)[i].n \in padlike[y]
      BY DEF QueueInv, Numbered
    <2> HIDE DEF q
    <2> QED
      BY <1>1, <1>2
  <1>5. RcvInv(y)'
    <2>1. \A i \in DOMAIN rcv[y], j \in DOMAIN Tail(q) : Numbered(Tail(q)[j]) => rcv[y][i] < Tail(q)[j].n
      <3> HIDE DEF q
      <3> QED
        BY <1>1, <1>2
    <2> QED
      BY <2>1 DEF UpInv, RcvInv, Numbered
  <1>6. NoneMissing(y)'
    <2>1. CASE hpc'[y] \in {"fin", "finw", "done"}
      BY <2>1 DEF NoneMissing
    <2>2. CASE hpc[y] = "read" /\ Head(q).kind # "data"
      <3> SUFFICES ASSUME NEW n \in 1..sent[y]
                   PROVE  \/ n \in padlike[y] \/ Arrived(y, n)
                          \/ \E i \in DOMAIN Tail(q) : Numbered(Tail(q)[i]) /\ Tail(q)[i].n = n
        BY DEF NoneMissing, Accounted, Arrived, Queued, Numbered
      <3>1. \/ n \in padlike[y] \/ Arrived(y, n)
            \/ \E i \in DOMAIN q : Numbered(q[i]) /\ q[i].n = n
        BY <1>3, <2>2 DEF Accounted, Queued
      <3> HIDE DEF q
      <3>2. ASSUME NEW i \in DOMAIN q, Numbered(q[i]), q[i].n = n
            PROVE  n \in padlike[y] \/ \E j \in DOMAIN Tail(q) : Numbered(Tail(q)[j]) /\ Tail(q)[j].n = n
        <4>1. CASE i = 1
          BY <1>1, <1>2, <2>2, <3>2, <4>1 DEF Numbered
        <4>2. CASE i # 1
          BY <1>1, <3>2, <4>2
        <4> QED
          BY <4>1, <4>2
      <3> QED
        BY <3>1, <3>2
    <2> QED
      BY <2>1, <2>2
  <1> QED
    BY <1>4, <1>5, <1>6 DEF UpInv

\* The head goes to the backend: it is the next number that did not look
\* padded, since nothing is missing below it.
LEMMA HeadDelivered ==
    ASSUME DataOK, NEW y \in Sessions, UpInv(y), hpc[y] = "deliver", hpc'[y] # "deliver",
           inq'[y] = Tail(inq[y]), sent'[y] = sent[y], padlike'[y] = padlike[y],
           rcv'[y] = Append(rcv[y], Head(inq[y]).n)
    PROVE  UpInv(y)'
  <1> DEFINE q == inq[y]  r == rcv[y]  v == Head(inq[y]).n
  <1>0. q \in Seq(Msg) /\ q # <<>> /\ Head(q).kind = "data" /\ r \in Seq(Nat) /\ sent[y] \in Nat
    BY DEF DataOK, UpInv, QueueInv
  <1>1. /\ Head(q) = q[1] /\ 1 \in DOMAIN q /\ Head(q) \in Msg
        /\ \A i \in DOMAIN Tail(q) : i + 1 \in DOMAIN q /\ Tail(q)[i] = q[i + 1] /\ i \in Nat /\ i >= 1
        /\ \A i \in DOMAIN q : i \in Nat /\ i >= 1
        /\ \A i \in DOMAIN q : i # 1 => i - 1 \in DOMAIN Tail(q) /\ Tail(q)[i - 1] = q[i]
    BY <1>0, TailOf
  <1>2. /\ \A i \in DOMAIN q : Numbered(q[i]) => q[i].n \in 1..sent[y]
        /\ \A i, j \in DOMAIN q :
              i < j /\ Numbered(q[i]) /\ Numbered(q[j]) => q[i].n < q[j].n
        /\ \A i \in DOMAIN q : q[i].kind = "padlike" => q[i].n \in padlike[y]
        /\ \A i \in DOMAIN r : r[i] \in 1..sent[y]
        /\ \A i \in DOMAIN r, j \in DOMAIN q : Numbered(q[j]) => r[i] < q[j].n
        /\ \A i, j \in DOMAIN r : i < j => r[i] < r[j]
        /\ \A i \in DOMAIN r : \A n \in 1..r[i] : n \in padlike[y] \/ \E j \in 1..i : r[j] = n
    BY DEF UpInv, QueueInv, RcvInv
  <1>3. \A n \in 1..sent[y] :
           \/ n \in padlike[y] \/ \E j \in DOMAIN r : r[j] = n
           \/ \E i \in DOMAIN q : Numbered(q[i]) /\ q[i].n = n
    BY DEF UpInv, NoneMissing, Accounted, Arrived, Queued
  <1>4. v \in 1..sent[y] /\ v \in Nat /\ Numbered(q[1])
    BY <1>0, <1>1, <1>2 DEF Numbered
  <1>5. /\ Len(r) \in Nat /\ DOMAIN Append(r, v) = DOMAIN r \cup {Len(r) + 1}
        /\ Append(r, v)[Len(r) + 1] = v
        /\ \A i \in DOMAIN r : Append(r, v)[i] = r[i] /\ i \in Nat /\ i >= 1 /\ i <= Len(r)
    BY <1>0, <1>4, AppendOf
  <1>6. QueueInv(y)'
    <2> SUFFICES /\ \A i \in DOMAIN Tail(q) : Numbered(Tail(q)[i]) => Tail(q)[i].n \in 1..sent[y]
                 /\ \A i, j \in DOMAIN Tail(q) :
                       i < j /\ Numbered(Tail(q)[i]) /\ Numbered(Tail(q)[j])
                          => Tail(q)[i].n < Tail(q)[j].n
                 /\ \A i \in DOMAIN Tail(q) : Tail(q)[i].kind = "padlike" => Tail(q)[i].n \in padlike[y]
      BY DEF QueueInv, Numbered
    <2> HIDE DEF q
    <2> QED
      BY <1>1, <1>2
  <1>7. \A n \in 1..v : n \in padlike[y] \/ n = v \/ \E j \in DOMAIN r : r[j] = n
    <2> HIDE DEF q, r, v
    <2> SUFFICES ASSUME NEW n \in 1..v, n # v
                 PROVE  n \in padlike[y] \/ \E j \in DOMAIN r : r[j] = n
      OBVIOUS
    <2>0. n \in 1..sent[y] /\ n \in Nat
      BY <1>0, <1>4
    <2> SUFFICES ASSUME NEW i \in DOMAIN q, Numbered(q[i]), q[i].n = n
                 PROVE  FALSE
      BY <1>3, <2>0
    <2>1. CASE i = 1
      BY <1>1, <2>1 DEF v, q
    <2>2. CASE i # 1
      <3>1. i \in Nat /\ 1 < i
        BY <1>1, <2>2
      <3>2. q[1].n < q[i].n
        BY <1>1, <1>2, <1>4, <3>1
      <3>3. q[1].n = v
        BY <1>1 DEF q, v
      <3> QED
        BY <1>4, <2>0, <3>2, <3>3
    <2> QED
      BY <2>1, <2>2
  <1>8. RcvInv(y)'
    <2> DEFINE r2 == Append(r, v)
    <2> SUFFICES /\ \A i \in DOMAIN r2 : r2[i] \in 1..sent[y]
                 /\ \A i \in DOMAIN r2, j \in DOMAIN Tail(q) : Numbered(Tail(q)[j]) => r2[i] < Tail(q)[j].n
                 /\ \A i, j \in DOMAIN r2 : i < j => r2[i] < r2[j]
                 /\ \A i \in DOMAIN r2 : \A n \in 1..r2[i] :
                       n \in padlike[y] \/ \E j \in 1..i : r2[j] = n
      BY DEF RcvInv, Numbered
    <2>0. q[1].n = v
      BY <1>1
    <2> HIDE DEF q, r, v
    <2>1. \A i \in DOMAIN r2 : r2[i] \in 1..sent[y]
      BY <1>2, <1>4, <1>5
    <2>2. \A i \in DOMAIN r2, j \in DOMAIN Tail(q) : Numbered(Tail(q)[j]) => r2[i] < Tail(q)[j].n
      <3>1. \A j \in DOMAIN Tail(q) : Numbered(Tail(q)[j]) => v < Tail(q)[j].n
        BY <1>1, <1>2, <1>4, <2>0
      <3>2. \A i \in DOMAIN r, j \in DOMAIN Tail(q) : Numbered(Tail(q)[j]) => r[i] < Tail(q)[j].n
        BY <1>1, <1>2
      <3> QED
        BY <1>5, <3>1, <3>2
    <2>3. \A i, j \in DOMAIN r2 : i < j => r2[i] < r2[j]
      <3>1. \A i \in DOMAIN r : r[i] < v
        BY <1>1, <1>2, <1>4, <2>0
      <3> QED
        BY <1>2, <1>5, <3>1
    <2>4. ASSUME NEW i \in DOMAIN r2, NEW n \in 1..r2[i]
          PROVE  n \in padlike[y] \/ \E j \in 1..i : r2[j] = n
      <3>1. CASE i \in DOMAIN r
        <4>1. n \in padlike[y] \/ \E j \in 1..i : r[j] = n
          BY <1>2, <1>5, <2>4, <3>1
        <4>2. \A j \in 1..i : j \in DOMAIN r
          BY <1>0, <1>5, <3>1, LenProperties
        <4> QED
          BY <1>5, <4>1, <4>2
      <3>2. CASE i = Len(r) + 1
        BY <1>5, <1>7, <2>4, <3>2
      <3> QED
        BY <1>5, <2>4, <3>1, <3>2
    <2> QED
      BY <2>1, <2>2, <2>3, <2>4
  <1>9. NoneMissing(y)'
    <2> SUFFICES ASSUME NEW n \in 1..sent[y]
                 PROVE  \/ n \in padlike[y]
                        \/ \E j \in DOMAIN Append(r, v) : Append(r, v)[j] = n
                        \/ \E i \in DOMAIN Tail(q) : Numbered(Tail(q)[i]) /\ Tail(q)[i].n = n
      BY DEF NoneMissing, Accounted, Arrived, Queued, Numbered
    <2>0. q[1].n = v
      BY <1>1
    <2> HIDE DEF q, r, v
    <2>1. ASSUME NEW i \in DOMAIN q, Numbered(q[i]), q[i].n = n
          PROVE  n = v \/ \E j \in DOMAIN Tail(q) : Numbered(Tail(q)[j]) /\ Tail(q)[j].n = n
      BY <1>1, <2>0, <2>1
    <2> QED
      BY <1>3, <1>5, <2>1
  <1> QED
    BY <1>6, <1>8, <1>9 DEF UpInv

\* The client sends one more message, numbered beyond all others.
LEMMA MessageQueued ==
    ASSUME DataOK, NEW y \in Sessions, UpInv(y), NEW k \in Kinds, ClientSends(y, k)
    PROVE  UpInv(y)'
  <1> DEFINE q == inq[y]
             m == IF k \in {"data", "padlike"} THEN [kind |-> k, n |-> sent[y] + 1]
                  ELSE [kind |-> k, n |-> 0]
  <1>0. q \in Seq(Msg) /\ sent[y] \in Nat /\ padlike[y] \subseteq Nat
    BY DEF DataOK
  <1>1. m \in Msg /\ m.kind = k /\ (k \in {"data", "padlike"} => m.n = sent[y] + 1)
    BY <1>0, KindsKnown DEF Msg
  <1>2. /\ inq'[y] = Append(q, m) /\ rcv'[y] = rcv[y] /\ hpc'[y] = hpc[y]
        /\ sent'[y] = IF k \in {"data", "padlike"} THEN sent[y] + 1 ELSE sent[y]
        /\ padlike'[y] = IF k = "padlike" THEN padlike[y] \cup {sent[y] + 1} ELSE padlike[y]
    <2>1. /\ inq' = Set(inq, y, Append(q, m))
          /\ sent' = IF k \in {"data", "padlike"} THEN Set(sent, y, sent[y] + 1) ELSE sent
          /\ k = "padlike" => padlike' = Set(padlike, y, padlike[y] \cup {sent[y] + 1})
          /\ k # "padlike" => padlike' = padlike \/ padlike' = Set(padlike, y, padlike[y] \cup {})
          /\ rcv' = rcv /\ hpc' = hpc
      BY DEF ClientSends, pcs, backendV
    <2> HIDE DEF q, m
    <2> QED
      BY <2>1 DEF Set, DataOK
  <1>3. /\ Len(q) \in Nat /\ DOMAIN Append(q, m) = DOMAIN q \cup {Len(q) + 1}
        /\ Append(q, m)[Len(q) + 1] = m
        /\ \A i \in DOMAIN q : Append(q, m)[i] = q[i] /\ i \in Nat /\ i >= 1 /\ i <= Len(q)
    BY <1>0, <1>1, AppendOf
  <1>4. Numbered(m) <=> k \in {"data", "padlike"}
    BY <1>1 DEF Numbered
  <1>5. q # <<>> => Append(q, m) # <<>> /\ Head(Append(q, m)) = Head(q)
    BY <1>0, <1>1
  <1>6. /\ \A i \in DOMAIN q : Numbered(q[i]) => q[i].n \in 1..sent[y]
        /\ \A i, j \in DOMAIN q :
              i < j /\ Numbered(q[i]) /\ Numbered(q[j]) => q[i].n < q[j].n
        /\ \A i \in DOMAIN q : q[i].kind = "padlike" => q[i].n \in padlike[y]
        /\ hpc[y] = "deliver" => q # <<>> /\ Head(q).kind = "data"
    BY DEF UpInv, QueueInv
  <1> HIDE DEF q, m
  <1>7. QueueInv(y)'
    <2> DEFINE q2 == Append(q, m)
    <2>1. \A i \in DOMAIN q2 : Numbered(q2[i]) => q2[i].n \in 1..sent'[y]
      BY <1>0, <1>1, <1>2, <1>3, <1>4, <1>6
    <2>2. \A i, j \in DOMAIN q2 :
             i < j /\ Numbered(q2[i]) /\ Numbered(q2[j]) => q2[i].n < q2[j].n
      BY <1>0, <1>1, <1>3, <1>4, <1>6
    <2>3. \A i \in DOMAIN q2 : q2[i].kind = "padlike" => q2[i].n \in padlike'[y]
      BY <1>1, <1>2, <1>3, <1>6
    <2>4. hpc'[y] = "deliver" => q2 # <<>> /\ Head(q2).kind = "data"
      BY <1>2, <1>5, <1>6
    <2> QED
      BY <1>2, <2>1, <2>2, <2>3, <2>4 DEF QueueInv, Numbered
  <1>8. RcvInv(y)'
    <2>1. \A i \in DOMAIN rcv[y] : rcv[y][i] \in 1..sent'[y] /\ rcv[y][i] < sent[y] + 1
      BY <1>0, <1>2 DEF UpInv, RcvInv
    <2>2. \A i \in DOMAIN rcv[y], j \in DOMAIN q : Numbered(q[j]) => rcv[y][i] < q[j].n
      BY DEF UpInv, RcvInv, q
    <2>3. \A i \in DOMAIN rcv[y], j \in DOMAIN Append(q, m) :
             Numbered(Append(q, m)[j]) => rcv[y][i] < Append(q, m)[j].n
      BY <1>1, <1>3, <1>4, <2>1, <2>2
    <2>4. padlike[y] \subseteq padlike'[y]
      BY <1>2
    <2> QED
      BY <1>2, <2>1, <2>3, <2>4 DEF UpInv, RcvInv, Numbered
  <1>9. NoneMissing(y)'
    <2> SUFFICES ASSUME hpc[y] \notin {"fin", "finw", "done"}, NEW n \in 1..sent'[y]
                 PROVE  \/ n \in padlike'[y] \/ Arrived(y, n)
                        \/ \E i \in DOMAIN Append(q, m) :
                               Numbered(Append(q, m)[i]) /\ Append(q, m)[i].n = n
      BY <1>2 DEF NoneMissing, Accounted, Arrived, Queued, Numbered
    <2>1. CASE n \in 1..sent[y]
      <3>1. n \in padlike[y] \/ Arrived(y, n) \/ \E i \in DOMAIN q : Numbered(q[i]) /\ q[i].n = n
        BY <2>1 DEF UpInv, NoneMissing, Accounted, Queued, q
      <3> QED
        BY <1>2, <1>3, <3>1
    <2>2. CASE n \notin 1..sent[y]
      <3>1. k \in {"data", "padlike"} /\ n = sent[y] + 1
        BY <1>0, <1>2, <2>2
      <3> QED
        BY <1>1, <1>3, <1>4, <3>1
    <2> QED
      BY <2>1, <2>2
  <1> QED
    BY <1>7, <1>8, <1>9 DEF UpInv

-----------------------------------------------------------------------------
(* The steps. *)

\* What the writers do to the WebSocket's error, and nothing else does.
LEMMA WriteEnds ==
    ASSUME DataOK, NEW x \in Sessions, NEW w, Fails(x, w) \/ Succeeds(x, w)
    PROVE  /\ wsErr' \in [Sessions -> BOOLEAN]
           /\ \A y \in Sessions : wsErr[y] => wsErr'[y]
           /\ \A y \in Sessions : y # x => wsErr'[y] = wsErr[y]
           /\ Fails(x, w) => wsErr'[x]
  BY DEF Fails, Succeeds, Set, DataOK

\* The handler's steps leave the chunks alone.
LEMMA HandlerTouches ==
    ASSUME DataOK, NEW x \in Sessions, Handler(x)
    PROVE  /\ UNCHANGED <<taken, got, sent, padlike>>
           /\ wsErr' \in [Sessions -> BOOLEAN] /\ \A y \in Sessions : wsErr[y] => wsErr'[y]
           /\ told' \in [Sessions -> BOOLEAN]
  <1> USE DEF clientV, backendV, wsVars
  <1>1. CASE Accept(x) \/ FirstFails(x) \/ FirstOk(x) \/ DialFails(x) \/ DialOk(x)
    BY <1>1 DEF Accept, FirstFails, FirstOk, DialFails, DialOk, DataOK
  <1>2. CASE LoopTop(x) \/ Arm(x) \/ ReadNoise(x) \/ ReadData(x) \/ ReadEnd(x) \/ ReadFails(x)
    BY <1>2 DEF LoopTop, Arm, ReadNoise, ReadData, ReadEnd, ReadFails, DataOK
  <1>3. CASE Deliver(x) \/ DeliverFails(x)
    BY <1>3 DEF Deliver, DeliverFails, DataOK
  <1>4. CASE FinRefused(x) \/ FinBegins(x) \/ HandlerPanics(x)
    BY <1>4 DEF FinRefused, FinBegins, HandlerPanics, DataOK
  <1>5. CASE FinEnds(x)
    <2>1. Fails(x, "h") \/ Succeeds(x, "h")
      BY <1>5 DEF FinEnds
    <2>2. UNCHANGED <<taken, got, sent, padlike, inq, rcv>> /\ (told' = told \/ told' = Set(told, x, TRUE))
      BY <1>5 DEF FinEnds
    <2>3. told' \in [Sessions -> BOOLEAN]
      BY <2>2 DEF Set, DataOK
    <2> QED
      BY <2>1, <2>2, <2>3, WriteEnds
  <1> QED
    BY <1>1, <1>2, <1>3, <1>4, <1>5 DEF Handler

\* Everybody else leaves the messages and what has arrived of them alone, but
\* for the client that sends one.
LEMMA OthersTouch ==
    ASSUME DataOK, NEW x \in Sessions, TcpToWs(x) \/ Scheduler(x) \/ Peers(x)
    PROVE  /\ UNCHANGED <<hpc, told, rcv>>
           /\ wsErr' \in [Sessions -> BOOLEAN] /\ \A y \in Sessions : wsErr[y] => wsErr'[y]
           /\ \/ UNCHANGED <<inq, sent, padlike>>
              \/ \E k \in Kinds : ClientSends(x, k)
  <1> USE DEF clientV, backendV, wsVars, pcs
  <1>1. CASE TcpRead(x) \/ TcpReadFails(x) \/ SendRefused(x) \/ SendBegins(x) \/ SendCrashes(x)
    BY <1>1 DEF TcpRead, TcpReadFails, SendRefused, SendBegins, SendCrashes, DataOK
  <1>2. CASE SendFails(x) \/ SendEnds(x)
    <2>1. Fails(x, "t") \/ Succeeds(x, "t")
      BY <1>2 DEF SendFails, SendEnds
    <2> QED
      BY <1>2, <2>1, WriteEnds DEF SendFails, SendEnds
  <1>3. CASE FakeBegins(x) \/ FakeStops(x) \/ FakeCrashes(x)
    BY <1>3 DEF FakeBegins, FakeStops, FakeCrashes, DataOK
  <1>4. CASE FakeEnds(x)
    <2>1. Fails(x, "s") \/ Succeeds(x, "s")
      BY <1>4 DEF FakeEnds
    <2> QED
      BY <1>4, <2>1, WriteEnds DEF FakeEnds
  <1>5. CASE Peers(x)
    BY <1>5 DEF Peers, ClientSends, ClientLeaves, BackendSends, BackendEnds, DataOK
  <1> QED
    BY <1>1, <1>2, <1>3, <1>4, <1>5 DEF TcpToWs, Scheduler

-----------------------------------------------------------------------------
(* The messages of every session. *)

\* A step of the handler moves no other handler.
LEMMA OneHandlerMoves ==
    ASSUME PcsOK, NEW x \in Sessions, Handler(x)
    PROVE  \A y \in Sessions : y # x => hpc'[y] = hpc[y]
  BY DEF Handler, Accept, FirstFails, FirstOk, DialFails, DialOk, LoopTop, Arm, ReadNoise, ReadData, ReadEnd,
         ReadFails, Deliver, DeliverFails, FinRefused, FinBegins, FinEnds, HandlerPanics,
         Finish, Set, PcsOK

\* The handler takes the head of its queue, or nothing.
LEMMA HandlerKeepsMessages ==
    ASSUME PcsOK, DataOK, NEW x \in Sessions, Handler(x), \A y \in Sessions : UpInv(y)
    PROVE  /\ inq' \in [Sessions -> Seq(Msg)] /\ rcv' \in [Sessions -> Seq(Nat)]
           /\ \A y \in Sessions : UpInv(y)'
  <1> USE DEF AtH
  <1>0. UNCHANGED <<sent, padlike>> /\ \A y \in Sessions : y # x => hpc'[y] = hpc[y]
    BY HandlerTouches, OneHandlerMoves
  <1>1. CASE \/ Accept(x) \/ FirstFails(x) \/ FirstOk(x) \/ DialFails(x) \/ DialOk(x)
             \/ LoopTop(x) \/ Arm(x)
    <2>1. UNCHANGED <<inq, rcv>> /\ hpc'[x] # "deliver" /\ hpc[x] \in Early \cup {"top", "arm"}
      BY <1>1 DEF Accept, FirstFails, FirstOk, DialFails, DialOk, LoopTop, Arm, clientV, backendV, Finish, Set,
                  PcsOK, Early
    <2>2. \A y \in Sessions : UpInv(y)'
      BY <1>0, <2>1, QueueKept DEF Early
    <2> QED
      BY <2>1, <2>2 DEF DataOK
  <1>2. CASE ReadFails(x) \/ FinRefused(x) \/ FinBegins(x) \/ FinEnds(x) \/ HandlerPanics(x)
    <2>1. UNCHANGED <<inq, rcv>> /\ hpc'[x] \in {"fin", "finw", "done"}
      BY <1>2 DEF ReadFails, FinRefused, FinBegins, FinEnds, HandlerPanics, clientV, backendV,
                  Finish, Set, PcsOK
    <2>2. \A y \in Sessions : UpInv(y)'
      BY <1>0, <2>1, QueueKept
    <2> QED
      BY <2>1, <2>2 DEF DataOK
  <1>3. CASE ReadData(x)
    <2>1. /\ UNCHANGED <<inq, rcv>> /\ inq[x] # <<>> /\ Head(inq[x]).kind = "data"
          /\ hpc[x] = "read" /\ hpc'[x] = "deliver"
      BY <1>3 DEF ReadData, clientV, backendV, Set, PcsOK
    <2>2. \A y \in Sessions : UpInv(y)'
      BY <1>0, <2>1, QueueKept
    <2> QED
      BY <2>1, <2>2 DEF DataOK
  <1>4. CASE ReadNoise(x) \/ ReadEnd(x) \/ DeliverFails(x)
    <2>1. /\ inq' = Set(inq, x, Tail(inq[x])) /\ UNCHANGED rcv
          /\ hpc'[x] # "deliver"
          /\ \/ hpc'[x] \in {"fin", "finw", "done"}
             \/ hpc[x] = "read" /\ Head(inq[x]).kind # "data"
      BY <1>4 DEF ReadNoise, ReadEnd, DeliverFails, backendV, Set, PcsOK
    <2>2. inq[x] # <<>>
      BY <1>4 DEF ReadNoise, ReadEnd, DeliverFails, UpInv, QueueInv
    <2>3. Tail(inq[x]) \in Seq(Msg)
      BY <2>2 DEF DataOK
    <2>4. inq' \in [Sessions -> Seq(Msg)] /\ inq'[x] = Tail(inq[x])
          /\ \A y \in Sessions : y # x => inq'[y] = inq[y]
      BY <2>1, <2>3 DEF Set, DataOK
    <2>5. UpInv(x)'
      BY <1>0, <2>1, <2>2, <2>4, HeadDropped
    <2>6. \A y \in Sessions : y # x => UpInv(y)'
      BY <1>0, <2>1, <2>4, QueueKept
    <2> QED
      BY <2>1, <2>4, <2>5, <2>6 DEF DataOK
  <1>5. CASE Deliver(x)
    <2>1. /\ inq' = Set(inq, x, Tail(inq[x])) /\ hpc'[x] # "deliver" /\ hpc[x] = "deliver"
          /\ rcv' = Set(rcv, x, Append(rcv[x], Head(inq[x]).n))
      BY <1>5 DEF Deliver, Set, PcsOK
    <2>2. inq[x] # <<>> /\ inq[x] \in Seq(Msg) /\ rcv[x] \in Seq(Nat)
      BY <2>1 DEF UpInv, QueueInv, DataOK
    <2>3. Tail(inq[x]) \in Seq(Msg) /\ Head(inq[x]) \in Msg
      BY <2>2
    <2>4. Append(rcv[x], Head(inq[x]).n) \in Seq(Nat)
      BY <2>2, <2>3 DEF Msg
    <2>5. /\ inq' \in [Sessions -> Seq(Msg)] /\ inq'[x] = Tail(inq[x])
          /\ \A y \in Sessions : y # x => inq'[y] = inq[y]
      BY <2>1, <2>3 DEF Set, DataOK
    <2>6. /\ rcv' \in [Sessions -> Seq(Nat)] /\ rcv'[x] = Append(rcv[x], Head(inq[x]).n)
          /\ \A y \in Sessions : y # x => rcv'[y] = rcv[y]
      BY <2>1, <2>4 DEF Set, DataOK
    <2>7. UpInv(x)'
      BY <1>0, <2>1, <2>5, <2>6, HeadDelivered
    <2>8. \A y \in Sessions : y # x => UpInv(y)'
      BY <1>0, <2>5, <2>6, QueueKept
    <2> QED
      BY <2>5, <2>6, <2>7, <2>8
  <1> QED
    BY <1>1, <1>2, <1>3, <1>4, <1>5 DEF Handler

\* Everybody else.
LEMMA OthersKeepMessages ==
    ASSUME PcsOK, DataOK, NEW x \in Sessions, TcpToWs(x) \/ Scheduler(x) \/ Peers(x),
           \A y \in Sessions : UpInv(y)
    PROVE  /\ inq' \in [Sessions -> Seq(Msg)] /\ sent' \in [Sessions -> Nat]
           /\ padlike' \in [Sessions -> SUBSET Nat]
           /\ \A y \in Sessions : UpInv(y)'
  <1>1. UNCHANGED <<hpc, rcv>>
    BY OthersTouch
  <1>2. CASE UNCHANGED <<inq, sent, padlike>>
    BY <1>1, <1>2, QueueKept DEF DataOK
  <1>3. ASSUME NEW k \in Kinds, ClientSends(x, k)
        PROVE  /\ inq' \in [Sessions -> Seq(Msg)] /\ sent' \in [Sessions -> Nat]
               /\ padlike' \in [Sessions -> SUBSET Nat]
               /\ \A y \in Sessions : UpInv(y)'
    <2>1. PICK m \in Msg : inq' = Set(inq, x, Append(inq[x], m))
      <3>1. /\ [kind |-> k, n |-> 0] \in Msg /\ [kind |-> k, n |-> sent[x] + 1] \in Msg
        BY KindsKnown DEF Msg, DataOK
      <3> QED
        BY <1>3, <3>1 DEF ClientSends
    <2>2. Append(inq[x], m) \in Seq(Msg)
      BY DEF DataOK
    <2>3. /\ \E n \in {sent[x], sent[x] + 1} : sent' = sent \/ sent' = [sent EXCEPT ![x] = n]
          /\ \E P \in {{}, {sent[x] + 1}} :
                padlike' = padlike \/ padlike' = [padlike EXCEPT ![x] = padlike[x] \cup P]
      BY <1>3 DEF ClientSends, Set
    <2>4. /\ inq' \in [Sessions -> Seq(Msg)] /\ \A y \in Sessions : y # x => inq'[y] = inq[y]
      BY <2>1, <2>2 DEF Set, DataOK
    <2>5. /\ sent' \in [Sessions -> Nat] /\ \A y \in Sessions : y # x => sent'[y] = sent[y]
      <3>1. sent \in [Sessions -> Nat] /\ sent[x] \in Nat /\ sent[x] + 1 \in Nat
        BY DEF DataOK
      <3> QED
        BY <2>3, <3>1
    <2>6. /\ padlike' \in [Sessions -> SUBSET Nat]
          /\ \A y \in Sessions : y # x => padlike'[y] = padlike[y]
      <3>1. padlike \in [Sessions -> SUBSET Nat] /\ padlike[x] \in SUBSET Nat /\ sent[x] + 1 \in Nat
        BY DEF DataOK
      <3>2. PICK P \in {{}, {sent[x] + 1}} :
               padlike' = padlike \/ padlike' = [padlike EXCEPT ![x] = padlike[x] \cup P]
        BY <2>3
      <3>3. padlike[x] \cup P \in SUBSET Nat
        BY <3>1
      <3> QED
        BY <3>1, <3>2, <3>3
    <2>7. UpInv(x)'
      BY <1>3, MessageQueued
    <2>8. \A y \in Sessions : y # x => UpInv(y)'
      BY <1>1, <2>4, <2>5, <2>6, QueueKept
    <2> QED
      BY <2>4, <2>5, <2>6, <2>7, <2>8
  <1> QED
    BY <1>2, <1>3, OthersTouch

-----------------------------------------------------------------------------
(* The chunks of every session. *)

\* A handler starts tcpToWs, or ends and with it the promise about the chunks.
LEMMA HandlerKeepsChunks ==
    ASSUME PcsOK, StartedLate, DataOK, NEW x \in Sessions, Handler(x),
           \A y \in Sessions : DownInv(y)
    PROVE  \A y \in Sessions : DownInv(y)'
  <1> USE DEF AtH
  <1>1. /\ UNCHANGED <<taken, got>> /\ \A y \in Sessions : wsErr[y] => wsErr'[y]
        /\ \A y \in Sessions : y # x => hpc'[y] = hpc[y]
    BY HandlerTouches, OneHandlerMoves
  <1>2. CASE DialOk(x)
    <2>1. /\ tpc' = Set(tpc, x, "read") /\ UNCHANGED ctx /\ hpc[x] = "dial" /\ hpc'[x] = "top"
      BY <1>2 DEF DialOk, Set, PcsOK
    <2>2. tpc[x] = "none" /\ ~ctx[x]
      BY <2>1 DEF StartedLate, Early
    <2>3. /\ tpc'[x] = "read" /\ \A y \in Sessions : y # x => tpc'[y] = tpc[y]
      BY <2>1 DEF Set, PcsOK
    <2>4. DownInv(x)'
      BY <1>1, <2>1, <2>2, <2>3 DEF DownInv
    <2>5. \A y \in Sessions : y # x => DownInv(y)'
      BY <1>1, <2>1, <2>3 DEF DownInv
    <2> QED
      BY <2>4, <2>5
  <1>3. CASE \E how : Finish(x, how)
    <2>1. UNCHANGED tpc
      BY <1>3 DEF Handler, Accept, FirstFails, FirstOk, DialFails, DialOk, LoopTop, Arm, ReadNoise, ReadData,
         ReadEnd, ReadFails, Deliver, DeliverFails, FinRefused, FinBegins, FinEnds, HandlerPanics,
         pcs, Finish, Set, PcsOK
    <2>2. hpc'[x] = "done" /\ \A y \in Sessions : y # x => ctx'[y] = ctx[y]
      BY <1>3 DEF Finish, Set, PcsOK
    <2> QED
      BY <1>1, <2>1, <2>2 DEF DownInv
  <1>4. CASE ~DialOk(x) /\ ~(\E how : Finish(x, how))
    <2>1. /\ UNCHANGED <<tpc, ctx>>
          /\ \/ hpc'[x] \in {"first", "dial"} /\ hpc[x] \in Early
             \/ hpc[x] \notin Early \cup {"done"}
      BY <1>4 DEF Handler, Accept, FirstFails, FirstOk, DialFails, LoopTop, Arm, ReadNoise, ReadData,
         ReadEnd, ReadFails, Deliver, DeliverFails, FinRefused, FinBegins, FinEnds, HandlerPanics,
         pcs, Early, Set, PcsOK
    <2> QED
      BY <1>1, <2>1 DEF DownInv, StartedLate, Early
  <1> QED
    BY <1>2, <1>3, <1>4

\* tcpToWs reads a chunk and sends it, or ends; a chunk is left unsent only
\* when a write has failed.
LEMMA TcpKeepsChunks ==
    ASSUME PcsOK, DataOK, NEW x \in Sessions, TcpToWs(x), \A y \in Sessions : DownInv(y)
    PROVE  /\ taken' \in [Sessions -> Nat] /\ got' \in [Sessions -> Nat]
           /\ \A y \in Sessions : DownInv(y)'
  <1> USE DEF AtT
  <1>1. UNCHANGED hpc /\ \A y \in Sessions : wsErr[y] => wsErr'[y]
    BY OthersTouch
  <1>2. taken[x] \in Nat /\ got[x] \in Nat /\ taken \in [Sessions -> Nat] /\ got \in [Sessions -> Nat]
    BY DEF DataOK
  <1>3. CASE TcpRead(x)
    <2>1. /\ taken' = [taken EXCEPT ![x] = taken[x] + 1] /\ UNCHANGED <<got, ctx>>
          /\ tpc[x] = "read" /\ tpc' = [tpc EXCEPT ![x] = "send"]
      BY <1>3 DEF TcpRead, clientV, Set
    <2>2. /\ taken'[x] = taken[x] + 1 /\ tpc'[x] = "send" /\ taken' \in [Sessions -> Nat]
          /\ \A y \in Sessions : y # x => taken'[y] = taken[y] /\ tpc'[y] = tpc[y]
      BY <1>2, <2>1 DEF PcsOK
    <2>3. DownInv(x)'
      BY <1>1, <1>2, <2>1, <2>2 DEF DownInv
    <2>4. \A y \in Sessions : y # x => DownInv(y)'
      BY <1>1, <2>1, <2>2 DEF DownInv
    <2> QED
      BY <1>2, <2>1, <2>2, <2>3, <2>4
  <1>4. CASE TcpReadFails(x) \/ SendRefused(x) \/ SendFails(x)
    <2>1. /\ UNCHANGED <<taken, got>>
          /\ tpc' = [tpc EXCEPT ![x] = "done"] /\ ctx' = [ctx EXCEPT ![x] = TRUE]
          /\ tpc[x] # "none"
      BY <1>4 DEF TcpReadFails, SendRefused, SendFails, TcpEnd, clientV, backendV, Set
    <2>2. tpc[x] = "read" \/ wsErr'[x]
      <3>1. CASE TcpReadFails(x)
        BY <3>1 DEF TcpReadFails
      <3>2. CASE SendRefused(x)
        BY <1>1, <3>2 DEF SendRefused
      <3>3. CASE SendFails(x)
        BY <3>3, WriteEnds DEF SendFails
      <3> QED
        BY <1>4, <3>1, <3>2, <3>3
    <2>3. /\ tpc'[x] = "done"
          /\ \A y \in Sessions : y # x => tpc'[y] = tpc[y] /\ ctx'[y] = ctx[y]
      BY <2>1 DEF PcsOK
    <2>4. DownInv(x)'
      BY <1>1, <2>1, <2>2, <2>3 DEF DownInv
    <2>5. \A y \in Sessions : y # x => DownInv(y)'
      BY <1>1, <2>1, <2>3 DEF DownInv
    <2> QED
      BY <1>2, <2>1, <2>4, <2>5
  <1>5. CASE SendBegins(x)
    <2>1. /\ UNCHANGED <<taken, got, ctx>>
          /\ tpc[x] = "send" /\ tpc' = [tpc EXCEPT ![x] = "sending"]
      BY <1>5 DEF SendBegins, clientV, backendV, Set
    <2>2. tpc'[x] = "sending" /\ \A y \in Sessions : y # x => tpc'[y] = tpc[y]
      BY <2>1 DEF PcsOK
    <2>3. \A y \in Sessions : DownInv(y)'
      BY <1>1, <2>1, <2>2 DEF DownInv
    <2> QED
      BY <1>2, <2>1, <2>3
  <1>6. CASE SendEnds(x)
    <2>1. /\ got' = [got EXCEPT ![x] = got[x] + 1] /\ UNCHANGED <<taken, ctx>> /\ tpc[x] = "sending"
          /\ tpc' = [tpc EXCEPT ![x] = IF ctx[x] THEN "done" ELSE "read"]
      BY <1>6 DEF SendEnds, backendV, Set
    <2>2. /\ got'[x] = got[x] + 1 /\ tpc'[x] = (IF ctx[x] THEN "done" ELSE "read")
          /\ got' \in [Sessions -> Nat]
          /\ \A y \in Sessions : y # x => got'[y] = got[y] /\ tpc'[y] = tpc[y]
      BY <1>2, <2>1 DEF PcsOK
    <2>3. DownInv(x)'
      BY <1>1, <1>2, <2>1, <2>2 DEF DownInv
    <2>4. \A y \in Sessions : y # x => DownInv(y)'
      BY <1>1, <2>1, <2>2 DEF DownInv
    <2> QED
      BY <1>2, <2>1, <2>2, <2>3, <2>4
  <1>7. CASE SendCrashes(x)
    BY <1>1, <1>2, <1>7 DEF SendCrashes, clientV, backendV, pcs, DownInv
  <1> QED
    BY <1>3, <1>4, <1>5, <1>6, <1>7 DEF TcpToWs

\* The other steps leave the chunks and both places alone.
LEMMA OthersKeepChunks ==
    ASSUME UNCHANGED <<taken, got, hpc, tpc, ctx>>,
           \A y \in Sessions : wsErr[y] => wsErr'[y],
           \A y \in Sessions : DownInv(y)
    PROVE  \A y \in Sessions : DownInv(y)'
  BY DEF DownInv

-----------------------------------------------------------------------------
\* Nothing has been sent yet.
LEMMA InitData == Init => DataOK /\ DataInv
  <1> SUFFICES ASSUME Init PROVE DataOK /\ DataInv
    OBVIOUS
  <1>1. DataOK
    BY DEF Init, All, DataOK
  <1>2. \A x \in Sessions : DownInv(x)
    BY DEF Init, All, DownInv, Early
  <1>3. \A x \in Sessions : UpInv(x)
    BY DEF Init, All, UpInv, QueueInv, RcvInv, NoneMissing
  <1> QED
    BY <1>1, <1>2, <1>3 DEF DataInv

LEMMA StepData ==
    ASSUME Inv, DataOK, DataInv, [Next]_vars
    PROVE  DataOK' /\ DataInv'
  <1> USE DEF Inv, DataInv
  <1>1. CASE Signal \/ Tick \/ UNCHANGED vars
    <2>1. UNCHANGED <<pcs, wsVars, clientV, backendV>>
      BY <1>1 DEF Signal, Tick, vars
    <2>2. DataOK'
      BY <2>1 DEF pcs, wsVars, clientV, backendV, DataOK
    <2>3. \A y \in Sessions : DownInv(y)'
      BY <2>1, OthersKeepChunks DEF pcs, wsVars, clientV, backendV
    <2>4. \A y \in Sessions : UpInv(y)'
      BY <2>1, QueueKept DEF pcs, clientV, backendV
    <2> QED
      BY <2>2, <2>3, <2>4
  <1>2. ASSUME NEW x \in Sessions, Handler(x) PROVE DataOK' /\ DataInv'
    <2>1. DataOK'
      BY <1>2, HandlerTouches, HandlerKeepsMessages DEF DataOK
    <2> QED
      BY <1>2, <2>1, HandlerKeepsMessages, HandlerKeepsChunks
  <1>3. ASSUME NEW x \in Sessions, TcpToWs(x) PROVE DataOK' /\ DataInv'
    <2>1. DataOK'
      BY <1>3, OthersTouch, OthersKeepMessages, TcpKeepsChunks DEF DataOK
    <2> QED
      BY <1>3, <2>1, OthersKeepMessages, TcpKeepsChunks
  <1>4. ASSUME NEW x \in Sessions, Scheduler(x) \/ Peers(x) PROVE DataOK' /\ DataInv'
    <2>1. UNCHANGED <<taken, got, tpc, ctx>>
      BY <1>4 DEF Scheduler, FakeBegins, FakeEnds, FakeStops, FakeCrashes, Peers, ClientSends,
                  ClientLeaves, BackendSends, BackendEnds, pcs, clientV, backendV
    <2>2. DataOK'
      BY <1>4, <2>1, OthersTouch, OthersKeepMessages DEF DataOK
    <2>3. \A y \in Sessions : DownInv(y)'
      BY <1>4, <2>1, OthersTouch, OthersKeepChunks
    <2> QED
      BY <1>4, <2>2, <2>3, OthersKeepMessages
  <1> QED
    BY <1>1, <1>2, <1>3, <1>4 DEF Next

\* What is queued, delivered, read and sent keeps the books of every session,
\* in every reachable state.
THEOREM DataInvariant == Spec => [](Inv /\ DataOK /\ DataInv)
  BY InitInv, StepInv, InitData, StepData, PTL DEF Spec

\* A backend receives what the client sent in order and, but for the messages
\* that look padded, without a gap, whatever the sessions, rotation, deadlines
\* and ends.
THEOREM DataInOrder == Spec => []UpstreamInOrder
  <1>1. DataInv => UpstreamInOrder
    BY DEF DataInv, UpInv, RcvInv, UpstreamInOrder
  <1> QED
    BY <1>1, DataInvariant, PTL

\* A client that is told FIN after the backend's direction has ended has every
\* chunk that was read for it: no write can fail and the FIN still succeed.
THEOREM FinAfterData == Spec => FinIsLast
  <1>1. Inv /\ DataOK /\ DataInv /\ [Next]_vars =>
           [\A x \in Sessions : told'[x] /\ ~told[x] /\ ctx[x] => got[x] = taken[x]]_vars
    <2> SUFFICES ASSUME Inv, DataOK, DataInv, [Next]_vars, NEW y \in Sessions,
                        told'[y], ~told[y], ctx[y]
                 PROVE  got[y] = taken[y]
      OBVIOUS
    <2>1. ~(Signal \/ Tick \/ UNCHANGED vars)
      BY DEF Signal, Tick, vars, clientV
    <2>2. PICK x \in Sessions : Handler(x) \/ TcpToWs(x) \/ Scheduler(x) \/ Peers(x)
      BY <2>1 DEF Next
    <2>3. Handler(x)
      BY <2>2, OthersTouch
    <2>4. FinEnds(x)
      BY <2>3 DEF Handler, Accept, FirstFails, FirstOk, DialFails, DialOk, LoopTop, Arm, ReadNoise, ReadData,
                  ReadEnd, ReadFails, Deliver, DeliverFails, FinRefused, FinBegins, HandlerPanics,
                  clientV
    <2>5. told' = Set(told, x, TRUE) /\ Succeeds(x, "h") /\ hpc[x] = "finw"
      BY <2>4 DEF FinEnds, AtH
    <2>6. y = x
      BY <2>5 DEF Set, DataOK
    <2>7. tpc[y] = "done" /\ ~wsErr[y] /\ hpc[y] # "done"
      BY <2>5, <2>6 DEF Succeeds, DataInv, DownInv
    <2> QED
      BY <2>7 DEF DataInv, DownInv
  <1> QED
    BY <1>1, DataInvariant, PTL DEF Spec, FinIsLast

=============================================================================
