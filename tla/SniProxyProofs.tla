--------------------------- MODULE SniProxyProofs ---------------------------
(***************************************************************************)
(* One connection of the SNI proxy, for every limit, every number of       *)
(* handshake reads and every amount of data: the set-up ends in time, and  *)
(* a connection that ended well has lost nothing.                          *)
(***************************************************************************)
EXTENDS SniProxy, TLAPS

\* How many waits the handler has begun.
Begun == IF pc = "header" THEN 1 ELSE IF pc = "body" THEN 2 ELSE 3 + round

\* Every wait begun has a limit; what it has not used of it is still left.
Inv ==
    /\ age \in Nat /\ left \in Nat /\ round \in Nat
    /\ pc \in Setup => age + left <= Begun * SetupWait
    /\ pc = "handshake" => round < MaxRounds
    /\ pc \notin Setup => age = 0

\* One more wait adds one limit, and more waits never less than fewer.
LEMMA OneMore ==
    ASSUME NEW n \in Nat
    PROVE  (n + 1) * SetupWait = n * SetupWait + SetupWait
  BY WaitsArePos

LEMMA Monotone ==
    ASSUME NEW m \in Nat, NEW n \in Nat, m <= n
    PROVE  m * SetupWait <= n * SetupWait
  BY WaitsArePos

\* In every state of the set-up the waits begun are at most those allowed.
LEMMA InvBounds == Inv => SetupIsBounded
  <1> SUFFICES ASSUME Inv PROVE SetupIsBounded
    OBVIOUS
  <1>1. CASE pc \in Setup
    <2>1. Begun \in Nat /\ Begun <= 2 + MaxRounds
      BY <1>1, WaitsArePos DEF Inv, Begun, Setup
    <2>2. Begun * SetupWait <= (2 + MaxRounds) * SetupWait
      BY <2>1, WaitsArePos, Monotone
    <2>3. Begun * SetupWait \in Nat /\ (2 + MaxRounds) * SetupWait \in Nat
      BY <2>1, WaitsArePos
    <2> QED
      BY <1>1, <2>2, <2>3 DEF Inv, SetupIsBounded
  <1>2. CASE pc \notin Setup
    <2>1. (2 + MaxRounds) * SetupWait \in Nat
      BY WaitsArePos
    <2> QED
      BY <1>2, <2>1 DEF Inv, SetupIsBounded
  <1> QED
    BY <1>1, <1>2

\* The first wait has just begun.
LEMMA InitInv == Init => Inv
  BY WaitsArePos DEF Init, Inv, Begun, Setup

\* The handler begins another wait of the set-up.
LEMMA WaitsKeeps ==
    ASSUME Inv, pc \in Setup,
           NEW p \in {"body", "handshake"}, NEW n \in Nat, n < MaxRounds, Waits(p, n),
           (IF p = "body" THEN 2 ELSE 3 + n) = Begun + 1
    PROVE  Inv'
  <1>1. Begun \in Nat
    BY DEF Inv, Begun
  <1>2. Begun' = Begun + 1
    BY DEF Waits, Begun, Inv
  <1>3. Begun' * SetupWait = Begun * SetupWait + SetupWait
    BY <1>1, <1>2, OneMore
  <1>4. Begun * SetupWait \in Nat
    BY <1>1, WaitsArePos
  <1>5. age' = age /\ left' = SetupWait /\ age <= Begun * SetupWait
    BY <1>4 DEF Waits, Inv
  <1> QED
    BY <1>3, <1>4, <1>5, WaitsArePos DEF Inv, Waits, Setup

\* The set-up is over.
LEMMA EndKeeps ==
    ASSUME Inv, NEW p, p \notin Setup, SetupEnds(p)
    PROVE  Inv'
  BY DEF Inv, SetupEnds, Setup

\* The steps of the handler.
LEMMA HandlerKeeps ==
    ASSUME Inv, HandlerStep
    PROVE  Inv'
  <1>1. CASE HandlerCloses
    BY <1>1, EndKeeps DEF HandlerCloses, Setup
  <1>2. CASE HeaderArrives
    BY <1>2, WaitsKeeps, WaitsArePos DEF HeaderArrives, Begun, Setup
  <1>3. CASE BodyArrives
    BY <1>3, WaitsKeeps, WaitsArePos DEF BodyArrives, Begun, Setup
  <1>4. CASE HandshakeReads
    <2>1. CASE round + 1 = MaxRounds
      BY <1>1, <1>4, <2>1 DEF HandshakeReads
    <2>2. CASE round + 1 # MaxRounds
      <3>1. pc = "handshake" /\ Waits("handshake", round + 1)
        BY <1>4, <2>2 DEF HandshakeReads
      <3>2. round \in Nat /\ round < MaxRounds
        BY <3>1 DEF Inv
      <3>3. round + 1 \in Nat /\ round + 1 < MaxRounds
        BY <2>2, <3>2, WaitsArePos
      <3>4. 3 + (round + 1) = Begun + 1
        BY <3>1, <3>2 DEF Begun
      <3> QED
        BY <3>1, <3>3, <3>4, WaitsKeeps DEF Setup
    <2> QED
      BY <2>1, <2>2
  <1>5. CASE HandshakeDone
    BY <1>5, EndKeeps DEF HandshakeDone, Setup
  <1>6. CASE SocksGreeting \/ SocksAuth \/ SocksRequest
    BY <1>6 DEF SocksGreeting, SocksAuth, SocksRequest, SocksStep, Inv, Setup
  <1>7. CASE DialOk
    BY <1>7 DEF DialOk, clocks, Inv, Setup
  <1>8. CASE SetupFails \/ SetupTimesOut \/ DialFails \/ RelayEnded
    BY <1>1, <1>8 DEF SetupFails, SetupTimesOut, DialFails, RelayEnded
  <1> QED
    BY <1>2, <1>3, <1>4, <1>5, <1>6, <1>7, <1>8 DEF HandlerStep

\* The tasks and the peers leave the handler and its time alone.
LEMMA OthersKeep ==
    ASSUME Inv, UpStep \/ DownStep \/ Peers \/ UNCHANGED vars
    PROVE  Inv'
  <1>1. UNCHANGED <<handlerV, age>>
    <2>1. CASE UpStep
      BY <2>1 DEF UpStep, UpReads, UpBadRecord, UpReadEnds, UpTimesOut, UpWrites,
                  UpWriteFails, UpStops, clocks
    <2>2. CASE DownStep
      BY <2>2 DEF DownStep, DownReads, DownReadEnds, DownTimesOut, DownWrites,
                  DownWriteFails, DownStops, downRest, clocks
    <2>3. CASE Peers
      BY <2>3 DEF Peers, ClientSends, ClientLeaves, BackendSends, BackendEnds, clocks
    <2>4. CASE UNCHANGED vars
      BY <2>4 DEF vars, clocks
    <2> QED
      BY <2>1, <2>2, <2>3, <2>4
  <1> QED
    BY <1>1 DEF handlerV, Inv, Begun

\* Time that passes in a wait is taken from what the wait has left.
LEMMA TickKeeps ==
    ASSUME Inv, Tick
    PROVE  Inv'
  <1>1. left' \in Nat /\ (left > 0 => left' = left - 1)
    BY DEF Tick, Less, Inv
  <1>2. CASE pc \in Setup
    <2>1. left > 0
      BY <1>2 DEF Tick, Prompt, Inv
    <2>2. age' + left' = age + left /\ age' \in Nat
      BY <1>1, <1>2, <2>1 DEF Tick, Inv
    <2> QED
      BY <1>1, <1>2, <2>2 DEF Tick, Inv, Begun
  <1>3. CASE pc \notin Setup
    BY <1>1, <1>3 DEF Tick, Inv, Setup
  <1> QED
    BY <1>2, <1>3

\* A client that sends the parts of its handshake as slowly as it can is cut
\* off after (2 + MaxRounds) limits, whatever the limit and the number.
THEOREM SetupBounded == Spec => []SetupIsBounded
  <1>1. Inv /\ [Next]_vars => Inv'
    BY HandlerKeeps, OthersKeep, TickKeeps DEF Next
  <1> QED
    BY <1>1, InitInv, InvBounds, PTL DEF Spec

-----------------------------------------------------------------------------
(* What the connection has done with the data. *)

\* A task in its write holds one chunk it has taken and not passed on.
InHand(task) == IF task = "write" THEN 1 ELSE 0

\* No chunk is counted twice.
Booked ==
    /\ wrote + cq + InHand(up) <= sent
    /\ got + bq + InHand(down) <= made

TypeInv == TypeOK /\ Inv /\ Booked

\* None of the reasons a loss may have.  Each of them is final.
Clean == ~failed /\ client = "open" /\ silent = {} /\ backend # "reset"

\* There is no relay yet, or there never was one.
NotBegun ==
    /\ up = "none" /\ down = "none" /\ backend = "none" /\ ~bclosed
    /\ sent = 0 /\ wrote = 0 /\ made = 0 /\ got = 0 /\ cquiet = 0 /\ bquiet = 0

\* A task that waits for data began to wait no later than the end it waits
\* for fell silent: its limit runs out only when the end's has.
UpPatient ==
    /\ cquiet < ReadWait
    /\ up = "read" => uleft > 0 /\ (cq = 0 => uleft + cquiet >= ReadWait)

DownPatient ==
    /\ bquiet < IdleWait
    /\ down = "read" => dleft > 0 /\ (bq = 0 => dleft + bquiet >= IdleWait)

\* While nothing has gone wrong a task ends only after the backend has ended,
\* and every chunk the backend sent is with the client, with the task, or
\* still to be read.
Complete ==
    /\ up = "done" => backend = "eof"
    /\ down = "done" => backend = "eof" /\ bq = 0
    /\ got + bq + InHand(down) = made

\* The inductive invariant behind LossIsExplained.
LossInv ==
    /\ pc \notin {"relay", "done"} => NotBegun
    /\ bclosed => up = "done"
    /\ Clean /\ pc = "relay" => UpPatient /\ DownPatient /\ Complete
    /\ Clean /\ pc = "done" => NotBegun \/ (backend = "eof" /\ got = made)

\* What the steps of a task, of the peers and of the clock are made of.
LEMMA TasksKnown ==
    TypeOK => up \in {"none", "read", "write", "done"} /\ down \in {"none", "read", "write", "done"}
  BY DEF TypeOK

LEMMA PartsFit ==
    ASSUME NEW a \in Nat, NEW b \in Nat, NEW c \in Nat, NEW m \in Nat, a + b + c <= m
    PROVE  a \in 0..m /\ b \in 0..m
  OBVIOUS

\* The handler touches the tasks, the ends and the data only when the dial
\* succeeds.
LEMMA HandlerTouches ==
    ASSUME HandlerStep
    PROVE  DialOk \/ UNCHANGED setupRest
  BY DEF HandlerStep, SetupFails, SetupTimesOut, HeaderArrives, BodyArrives, HandshakeReads,
         HandshakeDone, SocksGreeting, SocksAuth, SocksRequest, SocksStep, DialFails,
         RelayEnded, HandlerCloses, Waits

-----------------------------------------------------------------------------
(* Type correctness. *)

LEMMA InitTyped == Init => TypeInv
  <1> SUFFICES ASSUME Init PROVE TypeInv
    OBVIOUS
  <1>1. 0 \in 0..MaxRounds /\ SetupWait \in 0..SetupWait /\ 0 \in 0..ReadWait
        /\ 0 \in 0..IdleWait /\ 0 \in 0..MaxData /\ 0 \in 0..0
    BY WaitsArePos, BoundIsNat
  <1>2. TypeOK
    BY <1>1 DEF Init, TypeOK, Setup
  <1>3. Booked
    BY DEF Init, Booked, InHand
  <1> QED
    BY <1>2, <1>3, InitInv DEF TypeInv

\* Where the handler goes.
LEMMA HandlerTyped ==
    ASSUME TypeInv, HandlerStep
    PROVE  /\ pc' \in Setup \cup Socks \cup {"dial", "relay", "done"}
           /\ mode' \in Modes \cup {"none"}
           /\ round' \in 0..MaxRounds /\ left' \in 0..SetupWait /\ age' \in Nat
  <1> USE WaitsArePos DEF TypeInv, TypeOK
  <1>1. 0 \in 0..MaxRounds /\ 0 \in 0..SetupWait /\ SetupWait \in 0..SetupWait
    OBVIOUS
  <1>2. CASE HandlerCloses
    BY <1>1, <1>2 DEF HandlerCloses, SetupEnds, setupRest
  <1>3. CASE HeaderArrives \/ BodyArrives
    BY <1>1, <1>3 DEF HeaderArrives, BodyArrives, Waits, Setup
  <1>4. CASE HandshakeReads /\ ~HandlerCloses
    <2>1. pc = "handshake" /\ round + 1 # MaxRounds /\ Waits("handshake", round + 1)
      BY <1>4 DEF HandshakeReads
    <2>2. round + 1 \in 0..MaxRounds
      BY <2>1 DEF Inv
    <2> QED
      BY <1>1, <2>1, <2>2 DEF Waits, Setup
  <1>5. CASE HandshakeDone
    BY <1>1, <1>5 DEF HandshakeDone, SetupEnds, Socks
  <1>6. CASE SocksGreeting \/ SocksAuth \/ SocksRequest
    BY <1>6 DEF SocksGreeting, SocksAuth, SocksRequest, SocksStep, Socks
  <1>7. CASE DialOk
    BY <1>7 DEF DialOk, clocks
  <1>8. CASE SetupFails \/ SetupTimesOut \/ DialFails \/ RelayEnded
    BY <1>2, <1>8 DEF SetupFails, SetupTimesOut, DialFails, RelayEnded
  <1> QED
    BY <1>2, <1>3, <1>4, <1>5, <1>6, <1>7, <1>8 DEF HandlerStep, HandshakeReads

\* The handler's steps.
LEMMA HandlerKeepsTypes ==
    ASSUME TypeInv, LossInv, HandlerStep
    PROVE  TypeOK' /\ Booked'
  <1>1. CASE DialOk
    <2>1. UNCHANGED <<clientV, bclosed, made, bq, got, clocks, failed>>
      BY <1>1 DEF DialOk
    <2>2. /\ up' = "read" /\ uleft' = ReadWait /\ down' = "read" /\ dleft' = IdleWait
          /\ backend' = "open" /\ up = "none" /\ down = "none"
      BY <1>1 DEF DialOk, LossInv, NotBegun
    <2>3. ReadWait \in 0..ReadWait /\ IdleWait \in 0..IdleWait
      BY WaitsArePos
    <2>4. TypeOK'
      BY <2>1, <2>2, <2>3, HandlerTyped DEF clientV, clocks, TypeInv, TypeOK
    <2>5. Booked'
      BY <2>1, <2>2 DEF clientV, Booked, InHand, TypeInv
    <2> QED
      BY <2>4, <2>5
  <1>2. CASE UNCHANGED setupRest
    <2>1. TypeOK'
      BY <1>2, HandlerTyped DEF setupRest, upV, downV, clientV, backendV, TypeInv, TypeOK
    <2>2. Booked'
      BY <1>2 DEF setupRest, upV, downV, clientV, backendV, TypeInv, Booked, InHand
    <2> QED
      BY <2>1, <2>2
  <1> QED
    BY <1>1, <1>2, HandlerTouches

\* The tasks' steps: a chunk moves from one count to the next.
LEMMA UpKeepsTypes ==
    ASSUME TypeInv, UpStep
    PROVE  TypeOK' /\ Booked'
  <1> USE WaitsArePos, BoundIsNat, TasksKnown
      DEF TypeInv, handlerV, downV, clientV, backendV, clocks
  <1>0. /\ sent \in Nat /\ cq \in Nat /\ wrote \in Nat /\ sent <= MaxData
        /\ made \in Nat /\ bq \in Nat /\ got \in Nat
        /\ ReadWait \in 0..ReadWait
    BY DEF TypeOK
  <1>1. UNCHANGED <<handlerV, downV, client, sent, backend, made, bq, got, clocks>>
    BY DEF UpStep, UpReads, UpBadRecord, UpReadEnds, UpTimesOut, UpWrites, UpWriteFails, UpStops
  <1>2. /\ up' \in {"none", "read", "write", "done"}
        /\ uleft' \in {uleft, ReadWait} /\ failed' \in BOOLEAN /\ bclosed' \in BOOLEAN
    BY <1>0 DEF TypeOK, UpStep, UpReads, UpBadRecord, UpReadEnds, UpTimesOut, UpWrites, UpWriteFails, UpStops
  <1>3. wrote' \in Nat /\ cq' \in Nat /\ wrote' + cq' + InHand(up') <= sent
    <2>1. CASE UpReads
      BY <1>0, <2>1 DEF UpReads, Booked, InHand
    <2>2. CASE UpWrites
      BY <1>0, <2>2 DEF UpWrites, Booked, InHand
    <2>3. CASE UpBadRecord \/ UpReadEnds \/ UpTimesOut \/ UpWriteFails
      BY <1>0, <2>3 DEF UpBadRecord, UpReadEnds, UpTimesOut, UpWriteFails, UpStops, Booked, InHand
    <2> QED
      BY <2>1, <2>2, <2>3 DEF UpStep
  <1>4. cq' \in 0..sent /\ wrote' \in 0..sent
    <2>1. InHand(up') \in Nat
      BY DEF InHand
    <2> QED
      BY <1>0, <1>3, <2>1, PartsFit
  <1>5. TypeOK'
    BY <1>0, <1>1, <1>2, <1>4 DEF TypeOK
  <1>6. Booked'
    BY <1>1, <1>3 DEF Booked, InHand
  <1> QED
    BY <1>5, <1>6

LEMMA DownKeepsTypes ==
    ASSUME TypeInv, DownStep
    PROVE  TypeOK' /\ Booked'
  <1> USE WaitsArePos, BoundIsNat, TasksKnown
      DEF TypeInv, handlerV, upV, clientV, clocks, downRest
  <1>0. /\ made \in Nat /\ bq \in Nat /\ got \in Nat /\ IdleWait \in 0..IdleWait
    BY DEF TypeOK
  <1>1. UNCHANGED downRest
    BY DEF DownStep, DownReads, DownReadEnds, DownTimesOut, DownWrites, DownWriteFails, DownStops
  <1>2. /\ down' \in {"none", "read", "write", "done"}
        /\ dleft' \in {dleft, IdleWait} /\ failed' \in BOOLEAN
    BY <1>0 DEF TypeOK, DownStep, DownReads, DownReadEnds, DownTimesOut, DownWrites, DownWriteFails, DownStops
  <1>3. got' \in Nat /\ bq' \in Nat /\ got' + bq' + InHand(down') <= made
    BY <1>0 DEF DownStep, DownReads, DownReadEnds, DownTimesOut, DownWrites, DownWriteFails,
                DownStops, Booked, InHand
  <1>4. bq' \in 0..made /\ got' \in 0..made
    <2>1. InHand(down') \in Nat
      BY DEF InHand
    <2> QED
      BY <1>0, <1>3, <2>1, PartsFit
  <1>5. TypeOK'
    BY <1>0, <1>1, <1>2, <1>4 DEF TypeOK
  <1>6. Booked'
    BY <1>1, <1>3 DEF Booked, InHand
  <1> QED
    BY <1>5, <1>6

\* One more chunk, also where the count starts anew.
LEMMA OneMoreFits ==
    ASSUME NEW n \in Nat, NEW q \in Nat, NEW a \in Nat, NEW h \in {0, 1}, n <= MaxData,
           a + q + h <= n, NEW n2, NEW a2,
           \/ n < MaxData /\ n2 = n + 1 /\ a2 = a
           \/ MaxData > 0 /\ n = MaxData /\ a = n /\ n2 = 1 /\ a2 = 0
    PROVE  /\ n2 \in 0..MaxData /\ q + 1 \in 0..n2 /\ q \in 0..n2 /\ a2 \in 0..n2
           /\ a2 + (q + 1) + h <= n2 /\ a2 + q + h <= n2
  BY BoundIsNat

LEMMA PeersKeepTypes ==
    ASSUME TypeInv, Peers \/ Tick \/ UNCHANGED vars
    PROVE  TypeOK' /\ Booked'
  <1> USE WaitsArePos, BoundIsNat, TasksKnown
      DEF TypeInv, handlerV, upV, downV, clientV, backendV, clocks
  <1>0. /\ sent \in Nat /\ cq \in Nat /\ wrote \in Nat /\ made \in Nat /\ bq \in Nat /\ got \in Nat
        /\ sent <= MaxData /\ made <= MaxData /\ wrote + cq <= sent /\ got + bq <= made
        /\ 0 \in 0..ReadWait /\ 0 \in 0..IdleWait
    BY DEF TypeOK, Booked, InHand
  <1>7. /\ InHand(up) \in {0, 1} /\ wrote + cq + InHand(up) <= sent
        /\ InHand(down) \in {0, 1} /\ got + bq + InHand(down) <= made
    BY DEF Booked, InHand
  <1>1. CASE ClientSends
    <2>1. /\ sent' \in 0..MaxData /\ cq' \in 0..sent' /\ wrote' \in 0..sent'
          /\ wrote' + cq' + InHand(up) <= sent'
      BY <1>0, <1>1, <1>7, OneMoreFits DEF ClientSends, OneMoreOf
    <2>2. UNCHANGED <<handlerV, upV, downV, failed, client, backendV, age, bquiet, silent>>
          /\ cquiet' = 0
      BY <1>1 DEF ClientSends
    <2>3. TypeOK'
      BY <1>0, <2>1, <2>2 DEF TypeOK
    <2> QED
      BY <2>1, <2>2, <2>3 DEF Booked, InHand
  <1>2. CASE BackendSends
    <2>1. /\ made' \in 0..MaxData /\ bq' \in 0..made' /\ got' \in 0..made'
          /\ got' + bq' + InHand(down) <= made'
      <3>1. bq' = bq \/ bq' = bq + 1
        BY <1>2 DEF BackendSends
      <3> QED
        BY <1>0, <1>2, <1>7, <3>1, OneMoreFits DEF BackendSends, OneMoreOf
    <2>2. UNCHANGED <<handlerV, upV, downV, failed, clientV, backend, bclosed, age, cquiet, silent>>
          /\ bquiet' = 0
      BY <1>2 DEF BackendSends
    <2>3. TypeOK'
      BY <1>0, <2>1, <2>2 DEF TypeOK
    <2> QED
      BY <2>1, <2>2, <2>3 DEF Booked, InHand
  <1>3. CASE ClientLeaves
    BY <1>3 DEF ClientLeaves, TypeOK, Booked, InHand
  <1>5. CASE BackendEnds
    BY <1>5 DEF BackendEnds, TypeOK, Booked, InHand
  <1>6. CASE UNCHANGED vars
    BY <1>6 DEF vars, TypeOK, Booked, InHand
  <1>4. CASE Tick
    <2>1. /\ left' \in 0..SetupWait /\ uleft' \in 0..ReadWait /\ dleft' \in 0..IdleWait
          /\ age' \in Nat
      BY <1>4 DEF Tick, Less, TypeOK
    <2>2. cquiet' \in 0..ReadWait /\ bquiet' \in 0..IdleWait
      BY <1>4 DEF Tick, More, TypeOK
    <2>3. silent' \subseteq {"client", "backend"}
      BY <1>4 DEF Tick, TypeOK
    <2>4. UNCHANGED <<pc, mode, round, up, down, failed, clientV, backendV>>
      BY <1>4 DEF Tick
    <2>5. TypeOK'
      BY <2>1, <2>2, <2>3, <2>4 DEF TypeOK
    <2> QED
      BY <2>4, <2>5 DEF Booked, InHand
  <1> QED
    BY <1>1, <1>2, <1>3, <1>4, <1>5, <1>6 DEF Peers

-----------------------------------------------------------------------------
(* A connection that ended well lost nothing. *)

LEMMA InitNothingLost == Init => LossInv
  BY DEF Init, LossInv, NotBegun, Setup, Clean

\* The handler: until the dial succeeds there is nothing to lose, and it ends
\* the relay only when both tasks have ended, unless one has raised.
LEMMA HandlerLosesNothing ==
    ASSUME TypeInv, LossInv, HandlerStep
    PROVE  LossInv'
  <1> USE WaitsArePos DEF LossInv, NotBegun, Clean
  <1>1. CASE DialOk
    <2>1. UNCHANGED <<clientV, bclosed, made, bq, got, clocks, failed>>
      BY <1>1 DEF DialOk
    <2>2. /\ up' = "read" /\ uleft' = ReadWait /\ down' = "read" /\ dleft' = IdleWait
          /\ backend' = "open" /\ pc' = "relay" /\ NotBegun
      BY <1>1 DEF DialOk
    <2>3. cquiet' = 0 /\ bquiet' = 0 /\ got' = 0 /\ made' = 0
      BY <2>1, <2>2 DEF clocks
    <2>4. bq' = 0
      BY <2>1, <2>2 DEF TypeInv, TypeOK
    <2>5. UpPatient' /\ DownPatient' /\ Complete'
      BY <2>2, <2>3, <2>4 DEF UpPatient, DownPatient, Complete, InHand
    <2> QED
      BY <2>1, <2>2, <2>5
  <1>2. CASE RelayEnded
    <2>1. UNCHANGED setupRest /\ pc' = "done" /\ pc = "relay" /\ Gathered
      BY <1>2 DEF RelayEnded, HandlerCloses, SetupEnds, Gathered
    <2>2. Clean => backend = "eof" /\ got = made
      BY <2>1 DEF Gathered, Complete, InHand, TypeInv, TypeOK
    <2> QED
      BY <2>1, <2>2 DEF setupRest, upV, downV, clientV, backendV
  <1>3. CASE ~DialOk /\ ~RelayEnded
    <2>1. UNCHANGED setupRest
      BY <1>3, HandlerTouches
    <2>2. pc \notin {"relay", "done"} /\ pc' # "relay"
      BY <1>3 DEF HandlerStep, SetupFails, SetupTimesOut, HeaderArrives, BodyArrives,
                  HandshakeReads, HandshakeDone, SocksGreeting, SocksAuth, SocksRequest,
                  SocksStep, DialFails, HandlerCloses, Waits, SetupEnds, Setup, Socks
    <2> QED
      BY <2>1, <2>2 DEF setupRest, upV, downV, clientV, backendV
  <1> QED
    BY <1>1, <1>2, <1>3

\* The task towards the backend ends cleanly only after the backend's end: its
\* own limit cannot have run out, since the client was not silent for as long.
LEMMA UpLosesNothing ==
    ASSUME TypeInv, LossInv, UpStep
    PROVE  LossInv'
  <1> USE WaitsArePos DEF handlerV, downV, clientV, backendV, clocks
  <1>1. UNCHANGED <<pc, down, dleft, client, backend, made, bq, got, cquiet, bquiet, silent>>
    BY DEF UpStep, UpReads, UpBadRecord, UpReadEnds, UpTimesOut, UpWrites, UpWriteFails, UpStops
  <1>2. pc \in {"relay", "done"}
    BY DEF LossInv, NotBegun, UpStep, UpReads, UpBadRecord, UpReadEnds, UpTimesOut, UpWrites,
           UpWriteFails
  <1>3. ~(pc = "done" /\ NotBegun)
    BY DEF NotBegun, UpStep, UpReads, UpBadRecord, UpReadEnds, UpTimesOut, UpWrites, UpWriteFails
  <1>4. up \in {"read", "write"}
    BY DEF UpStep, UpReads, UpBadRecord, UpReadEnds, UpTimesOut, UpWrites, UpWriteFails
  <1>5. Clean' => Clean
    <2>1. failed => failed'
      BY DEF UpStep, UpReads, UpBadRecord, UpReadEnds, UpTimesOut, UpWrites, UpWriteFails, UpStops
    <2> QED
      BY <1>1, <2>1 DEF Clean
  <1>6. bclosed' => up' = "done"
    <2>1. up' = "done" \/ UNCHANGED bclosed
      BY DEF UpStep, UpReads, UpBadRecord, UpReadEnds, UpTimesOut, UpWrites, UpWriteFails, UpStops
    <2> QED
      BY <1>4, <2>1 DEF LossInv
  <1>7. Clean' /\ pc = "done" => backend = "eof" /\ got = made
    BY <1>3, <1>5 DEF LossInv
  <1>8. ASSUME Clean', pc = "relay"
        PROVE  UpPatient' /\ DownPatient' /\ Complete'
    <2>1. UpPatient /\ DownPatient /\ Complete
      BY <1>5, <1>8 DEF LossInv
    <2>2. DownPatient'
      BY <1>1, <2>1 DEF DownPatient
    <2>3. cquiet \in Nat /\ uleft \in Nat
      BY DEF TypeInv, TypeOK
    <2>4. CASE up' = "done"
      <3>1. ~UpBadRecord
        BY <1>8 DEF UpBadRecord, UpStops, Clean
      <3>2. ~UpReadEnds
        BY <1>5, <1>8 DEF UpReadEnds, ClientOver, Clean
      <3>3. ~UpTimesOut
        BY <2>1, <2>3 DEF UpTimesOut, UpStops, UpPatient
      <3>4. UpWriteFails => backend = "eof"
        BY <1>5, <1>8 DEF UpWriteFails, BackendLost, Clean
      <3>5. backend = "eof"
        BY <1>4, <2>4, <3>1, <3>2, <3>3, <3>4 DEF UpStep, UpReads, UpWrites
      <3> QED
        BY <1>1, <2>1, <2>2, <2>4, <3>5 DEF UpPatient, Complete
    <2>5. CASE up' # "done"
      <3>1. \/ up' = "write"
            \/ up' = "read" /\ uleft' = ReadWait
        BY <2>5 DEF UpStep, UpReads, UpBadRecord, UpReadEnds, UpTimesOut, UpWrites, UpWriteFails, UpStops
      <3>2. UpPatient'
        BY <1>1, <2>1, <2>3, <3>1 DEF UpPatient
      <3> QED
        BY <1>1, <2>1, <2>2, <2>5, <3>2 DEF Complete
    <2> QED
      BY <2>4, <2>5
  <1> QED
    BY <1>1, <1>2, <1>6, <1>7, <1>8 DEF LossInv

\* The task towards the client moves chunks and ends cleanly only when it has
\* passed on everything the backend had sent before it ended.
LEMMA DownLosesNothing ==
    ASSUME TypeInv, LossInv, DownStep
    PROVE  LossInv'
  <1> USE WaitsArePos DEF handlerV, upV, clientV, clocks, downRest
  <1>1. UNCHANGED <<pc, up, uleft, cq, sent, wrote, client, backend, bclosed, made, cquiet,
                    bquiet, silent>>
    BY DEF DownStep, DownReads, DownReadEnds, DownTimesOut, DownWrites, DownWriteFails, DownStops
  <1>2. down \in {"read", "write"}
    BY DEF DownStep, DownReads, DownReadEnds, DownTimesOut, DownWrites, DownWriteFails
  <1>3. pc \in {"relay", "done"} /\ ~NotBegun
    BY <1>2 DEF LossInv, NotBegun
  <1>4. failed => failed'
    BY DEF DownStep, DownReads, DownReadEnds, DownTimesOut, DownWrites, DownWriteFails, DownStops
  <1>5. Clean' => Clean
    BY <1>1, <1>4 DEF Clean
  <1>6. /\ got \in Nat /\ bq \in Nat /\ made \in Nat /\ bquiet \in Nat /\ dleft \in Nat
        /\ got + bq + InHand(down) <= made
    BY DEF TypeInv, TypeOK, Booked
  <1>7. ASSUME Clean', pc = "done"
        PROVE  backend = "eof" /\ got' = made'
    <2>1. backend = "eof" /\ got = made
      BY <1>3, <1>5, <1>7 DEF LossInv
    <2>2. got' = got
      BY <1>7 DEF DownStep, DownReads, DownReadEnds, DownTimesOut, DownWrites, DownWriteFails, DownStops
    <2> QED
      BY <1>1, <2>1, <2>2
  <1>8. ASSUME Clean', pc = "relay"
        PROVE  UpPatient' /\ DownPatient' /\ Complete'
    <2>1. UpPatient /\ DownPatient /\ Complete
      BY <1>5, <1>8 DEF LossInv
    <2>2. UpPatient'
      BY <1>1, <2>1 DEF UpPatient
    <2>3. CASE DownReads
      BY <1>1, <1>6, <2>1, <2>2, <2>3 DEF DownReads, DownPatient, Complete, InHand
    <2>4. CASE DownWrites
      BY <1>1, <1>6, <1>8, <2>1, <2>2, <2>4 DEF DownWrites, DownPatient, Complete, InHand
    <2>5. CASE DownReadEnds
      <3>1. backend = "eof" /\ bq = 0
        BY <1>8, <2>1, <2>5, <1>5 DEF DownReadEnds, BackendOver, Clean, LossInv, Complete
      <3> QED
        BY <1>1, <1>6, <2>1, <2>2, <2>5, <3>1 DEF DownReadEnds, DownStops, DownPatient, Complete, InHand
    <2>6. ~DownTimesOut
      BY <1>6, <2>1 DEF DownTimesOut, DownStops, DownPatient
    <2>7. ~DownWriteFails
      BY <1>5, <1>8 DEF DownWriteFails, Clean
    <2> QED
      BY <2>3, <2>4, <2>5, <2>6, <2>7 DEF DownStep
  <1> QED
    BY <1>1, <1>3, <1>7, <1>8 DEF LossInv

\* The ends.
LEMMA PeersLoseNothing ==
    ASSUME TypeInv, LossInv, Peers
    PROVE  LossInv'
  <1> USE WaitsArePos DEF handlerV, upV, downV, clientV, backendV, clocks
  <1>1. UNCHANGED <<pc, up, uleft, down, dleft, failed, bclosed, silent>>
    BY DEF Peers, ClientSends, ClientLeaves, BackendSends, BackendEnds
  <1>2. Clean' => Clean
    BY <1>1 DEF Clean, Peers, ClientSends, ClientLeaves, BackendSends, BackendEnds
  <1>3. pc = "done" => ~NotBegun
    BY DEF NotBegun, Peers, ClientSends, ClientLeaves, BackendSends, BackendEnds
  <1>4. pc \in {"relay", "done"}
    BY DEF LossInv, NotBegun, Peers, ClientSends, ClientLeaves, BackendSends, BackendEnds
  <1>5. Clean' /\ pc = "done" => backend' = "eof" /\ got' = made'
    BY <1>1, <1>2, <1>3 DEF LossInv, Clean, Peers, ClientSends, ClientLeaves, BackendSends, BackendEnds
  <1>6. /\ cq \in Nat /\ got \in Nat /\ bq \in Nat /\ made \in Nat /\ cquiet \in Nat
        /\ bquiet \in Nat /\ uleft \in Nat /\ dleft \in Nat
    BY DEF TypeInv, TypeOK
  <1>7. ASSUME Clean', pc = "relay"
        PROVE  UpPatient' /\ DownPatient' /\ Complete'
    <2>1. UpPatient /\ DownPatient /\ Complete
      BY <1>2, <1>7 DEF LossInv
    <2>2. CASE ClientSends
      BY <1>1, <1>6, <2>1, <2>2 DEF ClientSends, UpPatient, DownPatient, Complete, InHand
    <2>3. CASE BackendSends
      <3>1. ~bclosed /\ up # "done" /\ down # "done"
        BY <2>1, <2>3 DEF BackendSends, Complete, LossInv
      <3> QED
        <4>1. /\ bq' = bq + 1 /\ bquiet' = 0 /\ UNCHANGED <<cq, cquiet, backend>>
              /\ \/ made' = made + 1 /\ got' = got
                 \/ got = made /\ made' = 1 /\ got' = 0
          BY <2>3, <3>1 DEF BackendSends, OneMoreOf
        <4>2. UpPatient' /\ DownPatient'
          BY <1>1, <1>6, <2>1, <4>1 DEF UpPatient, DownPatient
        <4>3. InHand(down) \in {0, 1} /\ got + bq + InHand(down) = made
          BY <2>1 DEF Complete, InHand
        <4>4. got' + bq' + InHand(down) = made'
          BY <1>6, <4>1, <4>3
        <4> QED
          BY <1>1, <2>1, <3>1, <4>1, <4>2, <4>4 DEF Complete, InHand
    <2>4. CASE ClientLeaves
      BY <1>7, <2>4 DEF ClientLeaves, Clean
    <2>5. CASE BackendEnds
      BY <1>1, <1>7, <2>1, <2>5 DEF BackendEnds, Clean, UpPatient, DownPatient, Complete
    <2> QED
      BY <2>2, <2>3, <2>4, <2>5 DEF Peers
  <1> QED
    BY <1>1, <1>4, <1>5, <1>7 DEF LossInv

\* Time: a task that waits has nothing to read, so its limit and the silence
\* of the end it waits for run together, and the end's limit is reached first.
LEMMA TickLosesNothing ==
    ASSUME TypeInv, LossInv, Tick
    PROVE  LossInv'
  <1> USE WaitsArePos
  <1>1. UNCHANGED <<pc, mode, round, up, down, failed, clientV, backendV>>
    BY DEF Tick
  <1>2. Clean' => Clean
    BY <1>1 DEF Clean, clientV, backendV, Tick
  <1>3. pc # "relay" => UNCHANGED <<cquiet, bquiet>>
    BY DEF Tick, More
  <1>4. NotBegun /\ pc # "relay" => NotBegun'
    BY <1>1, <1>3 DEF NotBegun, clientV, backendV
  <1>5. ASSUME Clean', pc = "relay"
        PROVE  UpPatient' /\ DownPatient' /\ Complete'
    <2>1. UpPatient /\ DownPatient /\ Complete
      BY <1>2, <1>5 DEF LossInv
    <2>2. /\ cq \in Nat /\ bq \in Nat /\ cquiet \in Nat /\ bquiet \in Nat
          /\ uleft \in Nat /\ dleft \in Nat
      BY DEF TypeInv, TypeOK
    <2>3. /\ up = "read" => cq = 0
          /\ down = "read" => bq = 0
      BY <2>2 DEF Tick, Prompt
    <2>4. cquiet' = cquiet + 1 /\ bquiet' = bquiet + 1
      BY <1>5, <2>1, <2>2 DEF Tick, More, UpPatient, DownPatient
    <2>5. cquiet' # ReadWait /\ bquiet' # IdleWait
      BY <1>5 DEF Tick, Clean
    <2>6. /\ uleft > 0 => uleft' = uleft - 1
          /\ dleft > 0 => dleft' = dleft - 1
      BY DEF Tick, Less
    <2>7. UpPatient'
      BY <1>1, <2>1, <2>2, <2>3, <2>4, <2>5, <2>6 DEF UpPatient, clientV
    <2>8. DownPatient'
      BY <1>1, <2>1, <2>2, <2>3, <2>4, <2>5, <2>6 DEF DownPatient, backendV
    <2> QED
      BY <1>1, <2>1, <2>7, <2>8 DEF Complete, backendV
  <1> QED
    BY <1>1, <1>2, <1>3, <1>4, <1>5 DEF LossInv, clientV, backendV

LEMMA StepLosesNothing ==
    ASSUME TypeInv, LossInv, [Next]_vars
    PROVE  TypeInv' /\ LossInv'
  <1>1. CASE UNCHANGED vars
    BY <1>1, PeersKeepTypes, OthersKeep
    DEF vars, handlerV, upV, downV, clientV, backendV, clocks, TypeInv, LossInv, NotBegun, Clean,
        UpPatient, DownPatient, Complete
  <1>2. CASE Next
    <2>1. LossInv'
      BY <1>2, HandlerLosesNothing, UpLosesNothing, DownLosesNothing, PeersLoseNothing,
         TickLosesNothing DEF Next
    <2>2. TypeOK' /\ Booked'
      BY <1>2, HandlerKeepsTypes, UpKeepsTypes, DownKeepsTypes, PeersKeepTypes DEF Next
    <2>3. Inv'
      BY <1>2, HandlerKeeps, OthersKeep, TickKeeps DEF Next, TypeInv
    <2> QED
      BY <2>1, <2>2, <2>3 DEF TypeInv
  <1> QED
    BY <1>1, <1>2

\* Every variable keeps its range: in particular neither side is ever given
\* more than the other has sent.
THEOREM ConnectionTypes == Spec => []TypeInv
  <1> QED
    BY InitTyped, InitNothingLost, StepLosesNothing, PTL DEF Spec

\* A connection that has ended without a task that raised, a client that left,
\* a backend that reset or an end silent for its whole limit has delivered
\* everything the backend sent, and everything the client sent unless the
\* backend ended first - whatever the limits and however the steps interleave.
THEOREM NothingLost == Spec => []LossIsExplained
  <1>1. TypeInv /\ LossInv => LossIsExplained
    BY DEF LossInv, LossIsExplained, NotBegun, Clean, Downloaded, Uploaded
  <1> QED
    BY <1>1, InitTyped, InitNothingLost, StepLosesNothing, PTL DEF Spec
=============================================================================
