-------------------------- MODULE MuxServerProofs --------------------------
(***************************************************************************)
(* Theorems about MuxServer, for every set of stream ids and connections   *)
(* and every bound: the types; the stream table against the open           *)
(* connections; what a client sees of a stream; what becomes of its data.   *)
(***************************************************************************)
EXTENDS MuxServer, TLAPS

-----------------------------------------------------------------------------
(* Facts about the two queues. *)

LEMMA TailInSeq ==
    ASSUME NEW S, NEW q \in Seq(S), q # <<>>
    PROVE  /\ Head(q) \in S
           /\ Tail(q) \in Seq(S)
           /\ Len(Tail(q)) = Len(q) - 1
           /\ \A i \in DOMAIN Tail(q) : i + 1 \in DOMAIN q /\ Tail(q)[i] = q[i + 1]
  OBVIOUS

LEMMA AppendInSeq ==
    ASSUME NEW S, NEW q \in Seq(S), NEW e \in S
    PROVE  /\ Append(q, e) \in Seq(S)
           /\ Len(Append(q, e)) = Len(q) + 1
           /\ \A i \in DOMAIN q : Append(q, e)[i] = q[i]
           /\ Append(q, e)[Len(q) + 1] = e
           /\ DOMAIN Append(q, e) = DOMAIN q \cup {Len(q) + 1}
  OBVIOUS

LEMMA HeadOfAppend ==
    ASSUME NEW S, NEW q \in Seq(S), NEW e \in S
    PROVE  /\ Append(q, e) # <<>>
           /\ q # <<>> => Head(Append(q, e)) = Head(q)
           /\ q = <<>> => Head(Append(q, e)) = e
<1>1. Head(q) = q[1] /\ Head(Append(q, e)) = Append(q, e)[1] /\ Len(Append(q, e)) = Len(q) + 1
  OBVIOUS
<1>2. q # <<>> => 1 \in DOMAIN q
  OBVIOUS
<1>3. q = <<>> => Len(q) = 0
  OBVIOUS
<1>4. Append(q, e) # <<>>
  BY <1>1
<1> QED BY <1>1, <1>2, <1>3, <1>4, AppendInSeq

LEMMA FrameMade ==
    ASSUME NEW t \in FrameTypes, NEW s \in Sids, NEW k \in Nat,
           NEW tl \in {"plain", "padlike"}
    PROVE  /\ MkFrame(t, s, k, tl) \in Frame
           /\ MkFrame(t, s, k, tl).type = t
           /\ MkFrame(t, s, k, tl).sid = s
  BY DEF MkFrame, Frame

LEMMA HeadFrame ==
    ASSUME NEW q \in Seq(Frame), q # <<>>
    PROVE  /\ Head(q) \in Frame
           /\ Head(q).type \in FrameTypes
           /\ Head(q).sid \in Sids
           /\ Head(q).n \in Nat
           /\ Tail(q) \in Seq(Frame)
  <1>1. Head(q) \in Frame /\ Tail(q) \in Seq(Frame)
    BY TailInSeq
  <1> QED BY <1>1 DEF Frame

LEMMA SentTyped ==
    ASSUME out \in [Sids -> Seq(Msg)], NEW s \in Sids,
           NEW t \in {"OK", "ERR", "DATA", "FIN"}, NEW k \in Nat
    PROVE  Sent(s, MkMsg(t, k)) \in [Sids -> Seq(Msg)]
  <1>1. MkMsg(t, k) \in Msg
    BY DEF MkMsg, Msg
  <1>2. Append(out[s], MkMsg(t, k)) \in Seq(Msg)
    BY <1>1
  <1> QED BY <1>2 DEF Sent

LEMMA HandleCloseTyped ==
    ASSUME TypeOK, NEW s \in Sids, HandleClose(s)
    PROVE  streams' \in [Sids -> Conns \cup {None}] /\ st' \in [Conns -> ConnStates]
  BY DEF TypeOK, HandleClose, ConnStates

LEMMA CleanupTyped ==
    ASSUME TypeOK, CleanupAll
    PROVE  streams' \in [Sids -> Conns \cup {None}] /\ st' \in [Conns -> ConnStates]
  BY DEF TypeOK, CleanupAll, ConnStates

-----------------------------------------------------------------------------
(* Type correctness: one lemma per group of actions. *)

LEMMA ClientTyped == TypeOK /\ Client => TypeOK'
<1> SUFFICES ASSUME TypeOK, Client PROVE TypeOK'
  OBVIOUS
<1> USE TailsKnown, BoundsAreNat DEF TypeOK, net, server, conn, client, vars
<1>1. ASSUME NEW s \in Sids, NEW k \in {0, 1}, ClientOpen(s, k)
      PROVE  TypeOK'
  <2>1. MkFrame("NEW_STREAM", s, k, "plain") \in Frame
    BY FrameMade DEF FrameTypes
  <2>2. inbox' \in Seq(Frame)
    BY <1>1, <2>1, AppendInSeq DEF ClientOpen, ClientSends
  <2> QED BY <1>1, <2>2 DEF ClientOpen, ClientSends
<1>2. ASSUME NEW s \in Sids, NEW tl \in Tails, ClientData(s, tl)
      PROVE  TypeOK'
  <2>1. MkFrame("DATA", s, nsent[s] + 1, tl) \in Frame
    <3>1. nsent[s] + 1 \in Nat /\ tl \in {"plain", "padlike"}
      BY <1>2 DEF TypeOK
    <3> QED BY <3>1, FrameMade DEF FrameTypes
  <2>2. inbox' \in Seq(Frame)
    BY <1>2, <2>1, AppendInSeq DEF ClientData, ClientSends
  <2> QED BY <1>2, <2>2 DEF ClientData, ClientSends
<1>3. ASSUME NEW s \in Sids, NEW t \in {"CLOSE", "FIN"}, ClientEnds(s, t)
      PROVE  TypeOK'
  <2>1. MkFrame(t, s, 0, "plain") \in Frame
    BY FrameMade DEF FrameTypes
  <2>2. inbox' \in Seq(Frame)
    BY <1>3, <2>1, AppendInSeq DEF ClientEnds, ClientSends
  <2> QED BY <1>3, <2>2 DEF ClientEnds, ClientSends
<1>4. ASSUME NEW s \in Sids, ClientText(s)
      PROVE  TypeOK'
  <2>1. MkFrame("TEXT", s, 0, "plain") \in Frame
    BY FrameMade DEF FrameTypes
  <2>2. inbox' \in Seq(Frame)
    BY <1>4, <2>1, AppendInSeq DEF ClientText, ClientSends
  <2> QED BY <1>4, <2>2 DEF ClientText, ClientSends
<1>5. ASSUME NEW s \in Sids, ClientLeaves(s)
      PROVE  TypeOK'
  <2>1. MkFrame("DISC", s, 0, "plain") \in Frame
    BY FrameMade DEF FrameTypes
  <2>2. inbox' \in Seq(Frame)
    BY <1>5, <2>1, AppendInSeq DEF ClientLeaves
  <2> QED BY <1>5, <2>2 DEF ClientLeaves
<1> QED BY <1>1, <1>2, <1>3, <1>4, <1>5 DEF Client

LEMMA HandlerTyped == TypeOK /\ Handler => TypeOK'
<1> SUFFICES ASSUME TypeOK, Handler PROVE TypeOK'
  OBVIOUS
<1> USE DEF net, server, conn, client, vars
<1>0. inbox # <<>> =>
         /\ Head(inbox) \in Frame /\ Head(inbox).sid \in Sids
         /\ Head(inbox).n \in Nat /\ Tail(inbox) \in Seq(Frame)
  BY HeadFrame DEF TypeOK
<1>1. CASE FirstFrame
  <2>1. inbox' \in Seq(Frame) /\ phase' \in {"first", "loop", "done"}
    BY <1>0, <1>1 DEF FirstFrame
  <2>2. ready' \in Seq(Frame)
    <3>1. PICK k \in Nat : \/ ready' = Append(ready, MkFrame("NEW_STREAM", Head(inbox).sid, k, "plain"))
                           \/ ready' = ready
      BY <1>0, <1>1 DEF FirstFrame
    <3>2. MkFrame("NEW_STREAM", Head(inbox).sid, k, "plain") \in Frame
      <4>1. Head(inbox).sid \in Sids /\ "NEW_STREAM" \in FrameTypes
        BY <1>0, <1>1 DEF FirstFrame, FrameTypes
      <4> QED BY <4>1, FrameMade
    <3>3. Append(ready, MkFrame("NEW_STREAM", Head(inbox).sid, k, "plain")) \in Seq(Frame)
      BY <3>2, AppendInSeq DEF TypeOK
    <3> QED BY <3>1, <3>3 DEF TypeOK
  <2> QED BY <1>1, <2>1, <2>2 DEF FirstFrame, TypeOK
<1>2. CASE NoSession
  BY <1>2 DEF NoSession, TypeOK
<1>3. CASE ReadSpawn
  <2>1. ready' \in Seq(Frame)
    BY <1>0, <1>3, AppendInSeq DEF ReadSpawn, TypeOK
  <2> QED BY <1>0, <1>3, <2>1 DEF ReadSpawn, TypeOK
<1>4. CASE ReadSkip
  BY <1>0, <1>4 DEF ReadSkip, TypeOK
<1>5. CASE ReadClose
  <2>1. streams' \in [Sids -> Conns \cup {None}] /\ st' \in [Conns -> ConnStates]
    BY <1>0, <1>5, HandleCloseTyped DEF ReadClose
  <2> QED BY <1>0, <1>5, <2>1 DEF ReadClose, TypeOK
<1>6. CASE ReadFin
  <2>1. streams' \in [Sids -> Conns \cup {None}] /\ st' \in [Conns -> ConnStates]
    BY <1>0, <1>6, HandleCloseTyped DEF ReadFin
  <2>2. out' \in [Sids -> Seq(Msg)]
    BY <1>0, <1>6, SentTyped DEF ReadFin, TypeOK
  <2> QED BY <1>0, <1>6, <2>1, <2>2 DEF ReadFin, TypeOK
<1>7. CASE ReadEnds
  <2>1. streams' \in [Sids -> Conns \cup {None}] /\ st' \in [Conns -> ConnStates]
    BY <1>7, CleanupTyped DEF ReadEnds, EndSession
  <2> QED BY <1>0, <1>7, <2>1 DEF ReadEnds, EndSession, TypeOK
<1> QED BY <1>1, <1>2, <1>3, <1>4, <1>5, <1>6, <1>7 DEF Handler, ReadLoop

LEMMA TasksTyped == TypeOK /\ Tasks => TypeOK'
<1> SUFFICES ASSUME TypeOK, Tasks PROVE TypeOK'
  OBVIOUS
<1> USE DEF net, server, conn, client, vars
<1>0. ready # <<>> =>
         /\ Head(ready) \in Frame /\ Head(ready).sid \in Sids
         /\ Head(ready).n \in Nat /\ Tail(ready) \in Seq(Frame)
  BY HeadFrame DEF TypeOK
<1>1. CASE StartNew
  <2>1. CASE Head(ready).n = 0
    <3>1. out' \in [Sids -> Seq(Msg)]
      BY <1>0, <1>1, <2>1, SentTyped DEF StartNew, TypeOK
    <3> QED BY <1>0, <1>1, <2>1, <3>1 DEF StartNew, TypeOK
  <2>2. CASE Head(ready).n # 0
    <3>1. PICK c \in Conns : Connecting(Head(ready).sid, c)
      BY <1>1, <2>2 DEF StartNew
    <3> QED BY <1>0, <1>1, <2>2, <3>1 DEF StartNew, Connecting, TypeOK, ConnStates
  <2> QED BY <2>1, <2>2
<1>2. CASE StartData
  <2>1. ready' \in Seq(Frame)
    BY <1>0, <1>2 DEF StartData
  <2>2. rx' \in [Conns -> Seq(Nat)]
    <3> DEFINE c == streams[Head(ready).sid]
    <3>1. CASE rx' = rx
      BY <3>1 DEF TypeOK
    <3>2. CASE rx' # rx
      <4>1. c \in Conns /\ rx' = [rx EXCEPT ![c] = Append(@, Head(ready).n)]
        BY <1>0, <1>2, <3>2 DEF StartData, TypeOK
      <4>2. Append(rx[c], Head(ready).n) \in Seq(Nat)
        <5> rx[c] \in Seq(Nat) /\ Head(ready).n \in Nat
          BY <1>0, <1>2, <4>1 DEF TypeOK, StartData
        <5> HIDE DEF c
        <5> QED BY AppendInSeq
      <4> QED BY <4>1, <4>2 DEF TypeOK
    <3> QED BY <3>1, <3>2
  <2>3. draining' \subseteq Sids \X Conns
    BY <1>0, <1>2 DEF StartData, TypeOK
  <2> QED BY <1>2, <2>1, <2>2, <2>3 DEF StartData, TypeOK
<1> QED BY <1>1, <1>2 DEF Tasks


LEMMA ConnTyped ==
    ASSUME TypeOK, ConnNamed, NEW c \in Conns, Connect(c) \/ Backend(c) \/ Relay(c)
    PROVE  TypeOK'
<1> USE DEF net, server, conn, client, vars
<1>1. st[c] # "none" => csid[c] \in Sids
  BY DEF TypeOK, ConnNamed
<1>2. ASSUME NEW t \in {"OK", "ERR", "DATA", "FIN"}, NEW k \in Nat, csid[c] \in Sids
      PROVE  Sent(csid[c], MkMsg(t, k)) \in [Sids -> Seq(Msg)]
  BY <1>2, SentTyped DEF TypeOK
<1>3. relay[c] # "none" => csid[c] \in Sids
  BY <1>1 DEF ConnNamed
<1>4. CASE ConnectOk(c)
  <2>1. out' \in [Sids -> Seq(Msg)]
    BY <1>1, <1>2, <1>4 DEF ConnectOk
  <2>2. streams' \in [Sids -> Conns \cup {None}]
    BY <1>1, <1>4 DEF ConnectOk, Register, TypeOK
  <2>3. relay' \in [Conns -> RelayStates] /\ st' \in [Conns -> ConnStates]
    BY <1>4 DEF ConnectOk, StartRelay, TypeOK, RelayStates, ConnStates
  <2> QED BY <1>4, <2>1, <2>2, <2>3 DEF ConnectOk, TypeOK
<1>5. CASE ConnectFails(c)
  <2>1. out' \in [Sids -> Seq(Msg)]
    BY <1>1, <1>2, <1>5 DEF ConnectFails
  <2>2. st' \in [Conns -> ConnStates]
    BY <1>5 DEF ConnectFails, TypeOK, ConnStates
  <2> QED BY <1>5, <2>1, <2>2 DEF ConnectFails, TypeOK
<1>6. CASE BackendSends(c) \/ BackendSendsOn(c)
  <2>1. CASE BackendSends(c)
    BY <2>1 DEF BackendSends, TypeOK
  <2>2. CASE BackendSendsOn(c)
    BY <2>2 DEF BackendSendsOn, TypeOK
  <2> QED BY <1>6, <2>1, <2>2
<1>7. ASSUME NEW how \in {"eof", "reset", "oserr"}, BackendEnds(c, how)
      PROVE  TypeOK'
  BY <1>7 DEF BackendEnds, TypeOK, PeerStates
<1>8. CASE RelayData(c)
  <2>1. out' \in [Sids -> Seq(Msg)]
    <3>1. taken[c] + 1 \in Nat
      BY DEF TypeOK
    <3> QED BY <1>2, <1>3, <1>8, <3>1 DEF RelayData
  <2>2. relay' \in [Conns -> RelayStates] /\ taken' \in [Conns -> Nat]
    BY <1>8 DEF RelayData, TypeOK, RelayStates
  <2> QED BY <1>8, <2>1, <2>2 DEF RelayData, TypeOK
<1>9. CASE RelayFin(c)
  <2>1. out' \in [Sids -> Seq(Msg)]
    BY <1>2, <1>3, <1>9 DEF RelayFin
  <2> QED BY <1>9, <2>1 DEF RelayFin, TypeOK, RelayStates
<1>10. CASE RelayDies(c) \/ RelaySendsOn(c)
  BY <1>10 DEF RelayDies, RelaySendsOn, TypeOK, RelayStates
<1>11. CASE RelayCloses(c)
  <2>1. streams' \in [Sids -> Conns \cup {None}] /\ st' \in [Conns -> ConnStates]
    BY <1>3, <1>11, HandleCloseTyped DEF RelayCloses
  <2> QED BY <1>11, <2>1 DEF RelayCloses, TypeOK, RelayStates
<1> QED BY <1>4, <1>5, <1>6, <1>7, <1>8, <1>9, <1>10, <1>11 DEF Connect, Backend, Relay

LEMMA DrainTyped ==
    ASSUME TypeOK, NEW s \in Sids, NEW c \in Conns, Drain(s, c)
    PROVE  TypeOK'
<1> USE DEF net, server, conn, client, vars
<1>1. CASE DrainOk(s, c)
  BY <1>1 DEF DrainOk, TypeOK
<1>2. CASE DrainFails(s, c)
  <2>1. streams' \in [Sids -> Conns \cup {None}] /\ st' \in [Conns -> ConnStates]
    BY <1>2, HandleCloseTyped DEF DrainFails
  <2> QED BY <1>2, <2>1 DEF DrainFails, TypeOK
<1> QED BY <1>1, <1>2 DEF Drain

\* Closing writers keeps the names: whatever is in the table has been up.
LEMMA HandleCloseNamed ==
    ASSUME TypeOK, ConnNamed, NEW s \in Sids, HandleClose(s),
           UNCHANGED csid,
           \A c \in Conns : relay'[c] # "none" => relay[c] # "none"
    PROVE  ConnNamed'
<1>1. \A c \in Conns : st'[c] = IF c = streams[s] THEN "closed" ELSE st[c]
  BY DEF HandleClose
<1>2. \A x \in Sids : streams'[x] # None => streams'[x] = streams[x] /\ streams[x] \in Conns
  BY DEF HandleClose, TypeOK
<1>3. \A c \in Conns : c = streams[s] => st[c] \in {"open", "closed"}
  BY NoneIsNoName DEF ConnNamed
<1>4. ASSUME NEW c \in Conns
      PROVE  /\ csid'[c] = None <=> st'[c] = "none"
             /\ relay'[c] # "none" => st'[c] \in {"open", "closed"}
  BY <1>1, <1>3 DEF ConnNamed
<1>5. ASSUME NEW x \in Sids, streams'[x] # None
      PROVE  st'[streams'[x]] \in {"open", "closed"}
  BY <1>1, <1>2, <1>5 DEF ConnNamed
<1> QED BY <1>4, <1>5 DEF ConnNamed

LEMMA CleanupNamed ==
    ASSUME TypeOK, ConnNamed, CleanupAll, UNCHANGED <<csid, relay>>
    PROVE  ConnNamed'
<1>1. \A c \in Conns : st'[c] = IF \E s \in Sids : streams[s] = c THEN "closed" ELSE st[c]
  BY DEF CleanupAll
<1>2. \A c \in Conns : (\E s \in Sids : streams[s] = c) => st[c] \in {"open", "closed"}
  BY NoneIsNoName DEF ConnNamed
<1>3. \A x \in Sids : streams'[x] = None
  BY DEF CleanupAll
<1> QED BY <1>1, <1>2, <1>3 DEF ConnNamed

LEMMA NamedPreserved ==
    ASSUME TypeOK, ConnNamed, Next
    PROVE  ConnNamed'
<1> USE NoneIsNoName DEF net, server, conn, client, vars
<1>1. CASE Client
  BY <1>1 DEF Client, ClientOpen, ClientData, ClientEnds, ClientText, ClientLeaves,
              ClientSends, ConnNamed
<1>2. CASE Handler
  <2>0. inbox # <<>> => Head(inbox).sid \in Sids
    BY HeadFrame DEF TypeOK
  <2>1. CASE FirstFrame \/ NoSession \/ ReadSpawn \/ ReadSkip
    BY <2>1 DEF FirstFrame, NoSession, ReadSpawn, ReadSkip, ConnNamed
  <2>2. CASE ReadClose
    BY <2>0, <2>2, HandleCloseNamed DEF ReadClose
  <2>3. CASE ReadFin
    BY <2>0, <2>3, HandleCloseNamed DEF ReadFin
  <2>4. CASE ReadEnds
    BY <2>4, CleanupNamed DEF ReadEnds, EndSession
  <2> QED BY <1>2, <2>1, <2>2, <2>3, <2>4 DEF Handler, ReadLoop
<1>3. CASE Tasks
  <2>0. ready # <<>> => Head(ready).sid \in Sids
    BY HeadFrame DEF TypeOK
  <2>1. CASE StartNew
    <3>1. CASE UNCHANGED <<st, csid>>
      BY <2>1, <3>1 DEF StartNew, ConnNamed
    <3>2. ASSUME NEW c \in Conns, st[c] = "none", Connecting(Head(ready).sid, c)
          PROVE  ConnNamed'
      <4>1. \A x \in Sids : streams[x] # c
        BY <3>2, NoneIsNoName DEF ConnNamed
      <4>2. UNCHANGED <<streams, relay>>
        BY <2>1 DEF StartNew
      <4>3. Head(ready).sid \in Sids
        BY <2>0, <2>1 DEF StartNew
      <4>4. st' = [st EXCEPT ![c] = "connecting"] /\ csid' = [csid EXCEPT ![c] = Head(ready).sid]
        BY <3>2 DEF Connecting
      <4>5. st \in [Conns -> ConnStates] /\ csid \in [Conns -> Sids \cup {None}]
        BY DEF TypeOK
      <4>6. \A d \in Conns : d # c => st'[d] = st[d] /\ csid'[d] = csid[d]
        BY <4>4, <4>5
      <4>7. st'[c] = "connecting" /\ csid'[c] # None
        BY <4>3, <4>4, <4>5
      <4>8. relay[c] = "none"
        BY <3>2 DEF ConnNamed
      <4>9. ASSUME NEW d \in Conns
            PROVE  /\ csid'[d] = None <=> st'[d] = "none"
                   /\ relay'[d] # "none" => st'[d] \in {"open", "closed"}
        BY <4>2, <4>6, <4>7, <4>8 DEF ConnNamed
      <4>10. ASSUME NEW x \in Sids, streams'[x] # None
             PROVE  st'[streams'[x]] \in {"open", "closed"}
        <5>1. streams'[x] = streams[x] /\ streams[x] \in Conns /\ streams[x] # c
          BY <4>1, <4>2, <4>10 DEF TypeOK
        <5> QED BY <4>6, <4>10, <5>1 DEF ConnNamed
      <4> QED BY <4>9, <4>10 DEF ConnNamed
    <3> QED BY <2>1, <3>1, <3>2 DEF StartNew
  <2>2. CASE StartData
    BY <2>2 DEF StartData, ConnNamed
  <2> QED BY <1>3, <2>1, <2>2 DEF Tasks
<1>4. ASSUME NEW c \in Conns, Connect(c)
      PROVE  ConnNamed'
  <2>1. CASE ConnectOk(c)
    BY <2>1 DEF ConnectOk, Register, StartRelay, ConnNamed, TypeOK
  <2>2. CASE ConnectFails(c)
    BY <2>2 DEF ConnectFails, ConnNamed, TypeOK
  <2> QED BY <1>4, <2>1, <2>2 DEF Connect
<1>5. ASSUME NEW c \in Conns, Backend(c)
      PROVE  ConnNamed'
  BY <1>5 DEF Backend, BackendSends, BackendSendsOn, BackendEnds, ConnNamed
<1>6. ASSUME NEW c \in Conns, Relay(c)
      PROVE  ConnNamed'
  <2>1. CASE RelayData(c) \/ RelaySendsOn(c) \/ RelayFin(c) \/ RelayDies(c)
    BY <2>1 DEF RelayData, RelaySendsOn, RelayFin, RelayDies, ConnNamed, TypeOK
  <2>2. CASE RelayCloses(c)
    <3>1. csid[c] \in Sids
      <4>1. relay[c] = "closing"
        BY <2>2 DEF RelayCloses
      <4>2. csid[c] # None
        BY <4>1 DEF ConnNamed
      <4> QED BY <4>2 DEF TypeOK
    <3>2. \A d \in Conns : relay'[d] # "none" => relay[d] # "none"
      BY <2>2 DEF RelayCloses, TypeOK
    <3> QED BY <2>2, <3>1, <3>2, HandleCloseNamed DEF RelayCloses
  <2> QED BY <1>6, <2>1, <2>2 DEF Relay
<1>7. ASSUME NEW s \in Sids, NEW c \in Conns, Drain(s, c)
      PROVE  ConnNamed'
  <2>1. CASE DrainOk(s, c)
    BY <2>1 DEF DrainOk, ConnNamed
  <2>2. CASE DrainFails(s, c)
    BY <2>2, HandleCloseNamed DEF DrainFails
  <2> QED BY <1>7, <2>1, <2>2 DEF Drain
<1> QED BY <1>1, <1>2, <1>3, <1>4, <1>5, <1>6, <1>7 DEF Next

\* Every variable of a session keeps its type, and every connection that has
\* been started keeps the stream id it was started for (TypeInv).
THEOREM TypeCorrect == Spec => []TypeInv
<1>1. Init => TypeInv
  BY DEF Init, TypeInv, TypeOK, ConnNamed, ConnStates, PeerStates, RelayStates
<1>2. TypeInv /\ [Next]_vars => TypeInv'
  <2> SUFFICES ASSUME TypeInv, [Next]_vars PROVE TypeInv'
    OBVIOUS
  <2>1. CASE Next
    <3>1. TypeOK'
      BY <2>1, ClientTyped, HandlerTyped, TasksTyped, ConnTyped, DrainTyped DEF Next, TypeInv
    <3>2. ConnNamed'
      BY <2>1, NamedPreserved DEF TypeInv
    <3> QED BY <3>1, <3>2 DEF TypeInv
  <2>2. CASE UNCHANGED vars
    BY <2>2 DEF vars, net, server, conn, client, TypeInv, TypeOK, ConnNamed
  <2> QED BY <2>1, <2>2
<1> QED BY <1>1, <1>2, PTL DEF Spec

-----------------------------------------------------------------------------
(* The stream table, for disciplined clients and fresh stream ids. *)

LEMMA AppendNewOnce ==
    ASSUME NEW q \in Seq(Frame), NEW f \in Frame, NewOnce(q),
           IsNew(f) => \A i \in DOMAIN q : IsNew(q[i]) => q[i].sid # f.sid
    PROVE  NewOnce(Append(q, f))
  BY AppendInSeq DEF NewOnce

LEMMA TailNewOnce ==
    ASSUME NEW q \in Seq(Frame), q # <<>>, NewOnce(q)
    PROVE  /\ NewOnce(Tail(q))
           /\ IsNew(Head(q)) =>
                 \A i \in DOMAIN Tail(q) : IsNew(Tail(q)[i]) => Tail(q)[i].sid # Head(q).sid
<1>1. \A i \in DOMAIN Tail(q) : i + 1 \in DOMAIN q /\ Tail(q)[i] = q[i + 1] /\ i \in Nat /\ i # 0
  OBVIOUS
<1>2. 1 \in DOMAIN q /\ Head(q) = q[1]
  OBVIOUS
<1>3. NewOnce(Tail(q))
  <2> SUFFICES ASSUME NEW i \in DOMAIN Tail(q), NEW j \in DOMAIN Tail(q),
                      IsNew(Tail(q)[i]), IsNew(Tail(q)[j]), Tail(q)[i].sid = Tail(q)[j].sid
               PROVE  i = j
    BY DEF NewOnce
  <2>1. i + 1 = j + 1
    BY <1>1 DEF NewOnce
  <2> QED BY <1>1, <2>1
<1>4. ASSUME NEW i \in DOMAIN Tail(q), IsNew(Head(q)), IsNew(Tail(q)[i])
      PROVE  Tail(q)[i].sid # Head(q).sid
  <2>1. i + 1 # 1
    BY <1>1
  <2> QED BY <1>1, <1>2, <1>4, <2>1 DEF NewOnce
<1> QED BY <1>3, <1>4

\* Taking a frame from a queue keeps the ids apart.
LEMMA QueuesShrink ==
    ASSUME TypeOK, OneOpenPerId, UNCHANGED <<csid, opened>>,
           inbox' = inbox \/ (inbox # <<>> /\ inbox' = Tail(inbox)),
           ready' = ready \/ (ready # <<>> /\ ready' = Tail(ready))
    PROVE  OneOpenPerId'
<1>0. ASSUME NEW q \in Seq(Frame), q # <<>>
      PROVE  \A i \in DOMAIN Tail(q) : \E j \in DOMAIN q : Tail(q)[i] = q[j]
  BY <1>0, TailInSeq
<1>1. \A i \in DOMAIN inbox' : \E j \in DOMAIN inbox : inbox'[i] = inbox[j]
  <2>1. CASE inbox' = inbox
    BY <2>1
  <2>2. CASE inbox # <<>> /\ inbox' = Tail(inbox)
    BY <1>0, <2>2 DEF TypeOK
  <2> QED BY <2>1, <2>2
<1>2. \A i \in DOMAIN ready' : \E j \in DOMAIN ready : ready'[i] = ready[j]
  <2>1. CASE ready' = ready
    BY <2>1
  <2>2. CASE ready # <<>> /\ ready' = Tail(ready)
    BY <1>0, <2>2 DEF TypeOK
  <2> QED BY <2>1, <2>2
<1>3. NewOnce(inbox') /\ NewOnce(ready')
  BY TailNewOnce DEF TypeOK, OneOpenPerId
<1>4. NewUnused(inbox)' /\ NewUnused(ready)'
  BY <1>1, <1>2 DEF NewUnused, OneOpenPerId
<1>5. \A i \in DOMAIN inbox', j \in DOMAIN ready' :
         IsNew(inbox'[i]) /\ IsNew(ready'[j]) => inbox'[i].sid # ready'[j].sid
  BY <1>1, <1>2 DEF OneOpenPerId
<1> QED BY <1>3, <1>4, <1>5 DEF OneOpenPerId

\* The client's sends: a NEW_STREAM uses an id that was not opened before.
LEMMA ClientOncePreserved ==
    ASSUME ~ReuseIds, TypeOK, OneOpenPerId, Client
    PROVE  OneOpenPerId'
<1> USE DEF net, server, conn, client
<1>1. ASSUME NEW f \in Frame, ~IsNew(f), inbox' = Append(inbox, f),
             UNCHANGED <<ready, csid, opened>>
      PROVE  OneOpenPerId'
  <2>1. NewOnce(inbox')
    BY <1>1, AppendNewOnce DEF OneOpenPerId, TypeOK
  <2>2. \A i \in DOMAIN inbox' : IsNew(inbox'[i]) => i \in DOMAIN inbox /\ inbox'[i] = inbox[i]
    BY <1>1, AppendInSeq DEF TypeOK
  <2>3. NewUnused(inbox)' /\ NewUnused(ready)'
    BY <1>1, <2>2 DEF NewUnused, OneOpenPerId
  <2> QED BY <1>1, <2>1, <2>2, <2>3 DEF OneOpenPerId
<1>2. ASSUME NEW s \in Sids, NEW k \in {0, 1}, ClientOpen(s, k)
      PROVE  OneOpenPerId'
  <2> DEFINE f == MkFrame("NEW_STREAM", s, k, "plain")
  <2>1. f \in Frame /\ f.sid = s
    BY FrameMade DEF FrameTypes
  <2>2. inbox' = Append(inbox, f) /\ opened' = opened \cup {s} /\ s \notin opened
        /\ UNCHANGED <<ready, csid>>
    BY <1>2 DEF ClientOpen, ClientSends
  <2> HIDE DEF f
  <2>3. NewOnce(inbox')
    BY <2>1, <2>2, AppendNewOnce DEF OneOpenPerId, TypeOK, NewUnused
  <2>4. \A i \in DOMAIN inbox' : \/ i \in DOMAIN inbox /\ inbox'[i] = inbox[i]
                                 \/ inbox'[i] = f
    BY <2>1, <2>2, AppendInSeq DEF TypeOK
  <2>5. \A c \in Conns : csid[c] # s
    BY <2>2, NoneIsNoName DEF OneOpenPerId
  <2>6. NewUnused(inbox)'
    BY <2>1, <2>2, <2>4, <2>5 DEF NewUnused, OneOpenPerId
  <2>7. NewUnused(ready)'
    BY <2>2 DEF NewUnused, OneOpenPerId
  <2>8. \A i \in DOMAIN inbox', j \in DOMAIN ready :
           IsNew(inbox'[i]) /\ IsNew(ready[j]) => inbox'[i].sid # ready[j].sid
    BY <2>1, <2>2, <2>4 DEF OneOpenPerId, NewUnused
  <2> QED BY <2>2, <2>3, <2>6, <2>7, <2>8 DEF OneOpenPerId
<1>3. ASSUME NEW s \in Sids, NEW tl \in Tails, ClientData(s, tl)
      PROVE  OneOpenPerId'
  <2>1. nsent[s] + 1 \in Nat /\ tl \in {"plain", "padlike"}
    BY <1>3, TailsKnown DEF TypeOK
  <2>2. MkFrame("DATA", s, nsent[s] + 1, tl) \in Frame
    BY <2>1, FrameMade DEF FrameTypes
  <2> QED BY <1>1, <1>3, <2>2 DEF ClientData, ClientSends, IsNew, MkFrame
<1>4. ASSUME NEW s \in Sids, NEW t \in {"CLOSE", "FIN", "TEXT", "DISC"}
      PROVE  MkFrame(t, s, 0, "plain") \in Frame /\ ~IsNew(MkFrame(t, s, 0, "plain"))
  BY FrameMade DEF FrameTypes, IsNew
<1>5. ASSUME NEW s \in Sids, (\E t \in {"CLOSE", "FIN"} : ClientEnds(s, t))
                             \/ ClientText(s) \/ ClientLeaves(s)
      PROVE  OneOpenPerId'
  <2>1. PICK t \in {"CLOSE", "FIN", "TEXT", "DISC"} :
           inbox' = Append(inbox, MkFrame(t, s, 0, "plain"))
    BY <1>5 DEF ClientEnds, ClientText, ClientLeaves, ClientSends
  <2>2. UNCHANGED <<ready, csid, opened>>
    BY <1>5 DEF ClientEnds, ClientText, ClientLeaves, ClientSends
  <2> QED BY <1>1, <1>4, <2>1, <2>2
<1> QED BY <1>2, <1>3, <1>5 DEF Client

\* A frame moved from the inbox to a task, in either phase.
LEMMA SpawnOnce ==
    ASSUME TypeOK, OneOpenPerId, inbox # <<>>, inbox' = Tail(inbox),
           NEW f \in Frame, f.type = Head(inbox).type, f.sid = Head(inbox).sid,
           ready' = Append(ready, f), UNCHANGED <<csid, opened>>
    PROVE  OneOpenPerId'
<1>1. /\ Head(inbox) = inbox[1] /\ 1 \in DOMAIN inbox
      /\ \A i \in DOMAIN inbox' : i + 1 \in DOMAIN inbox /\ inbox'[i] = inbox[i + 1]
  BY TailInSeq DEF TypeOK
<1>2. NewOnce(inbox') /\ (IsNew(f) =>
         \A i \in DOMAIN inbox' : IsNew(inbox'[i]) => inbox'[i].sid # f.sid)
  BY TailNewOnce DEF OneOpenPerId, TypeOK, IsNew
<1>3. IsNew(f) => /\ f.sid \in opened /\ \A c \in Conns : csid[c] # f.sid
                  /\ \A j \in DOMAIN ready : IsNew(ready[j]) => ready[j].sid # f.sid
  BY <1>1 DEF OneOpenPerId, NewUnused, IsNew
<1>4. NewOnce(ready')
  BY <1>3, AppendNewOnce DEF OneOpenPerId, TypeOK
<1>5. \A j \in DOMAIN ready' : (j \in DOMAIN ready /\ ready'[j] = ready[j]) \/ ready'[j] = f
  BY AppendInSeq DEF TypeOK
<1>6. NewUnused(inbox)'
  BY <1>1 DEF NewUnused, OneOpenPerId
<1>7. NewUnused(ready)'
  BY <1>3, <1>5 DEF NewUnused, OneOpenPerId
<1>8. \A i \in DOMAIN inbox', j \in DOMAIN ready' :
         IsNew(inbox'[i]) /\ IsNew(ready'[j]) => inbox'[i].sid # ready'[j].sid
  <2> SUFFICES ASSUME NEW i \in DOMAIN inbox', NEW j \in DOMAIN ready',
                      IsNew(inbox'[i]), IsNew(ready'[j])
               PROVE  inbox'[i].sid # ready'[j].sid
    OBVIOUS
  <2>1. CASE j \in DOMAIN ready /\ ready'[j] = ready[j]
    BY <1>1, <2>1 DEF OneOpenPerId
  <2>2. CASE ready'[j] = f
    BY <1>2, <2>2
  <2> QED BY <1>5, <2>1, <2>2
<1> QED BY <1>2, <1>4, <1>6, <1>7, <1>8 DEF OneOpenPerId

LEMMA HandlerOncePreserved ==
    ASSUME TypeOK, OneOpenPerId, FirstIsNew, Handler
    PROVE  OneOpenPerId'
<1> USE DEF net, server, conn, client
<1>1. CASE FirstFrame
  <2>1. Head(inbox).type = "NEW_STREAM" /\ inbox # <<>>
    BY <1>1 DEF FirstFrame, FirstIsNew
  <2>2. Head(inbox).sid \in Sids /\ Head(inbox).n \in Nat
    BY <2>1, HeadFrame DEF TypeOK
  <2>3. MkFrame("NEW_STREAM", Head(inbox).sid, Head(inbox).n, "plain") \in Frame
    BY <2>2, FrameMade DEF FrameTypes
  <2>4. CASE UNCHANGED ready
    BY <1>1, <2>1, <2>4, QueuesShrink DEF FirstFrame
  <2>5. CASE ready' = Append(ready, MkFrame("NEW_STREAM", Head(inbox).sid, Head(inbox).n, "plain"))
    BY <1>1, <2>1, <2>3, <2>5, SpawnOnce DEF FirstFrame, MkFrame
  <2> QED BY <1>1, <2>1, <2>4, <2>5 DEF FirstFrame
<1>2. CASE NoSession
  <2> inbox' = inbox /\ ready' = ready /\ UNCHANGED <<csid, opened>>
    BY <1>2 DEF NoSession
  <2> QED BY QueuesShrink
<1>3. CASE ReadSpawn
  <2>1. Head(inbox) \in Frame
    BY <1>3, HeadFrame DEF ReadSpawn, TypeOK
  <2> QED BY <1>3, <2>1, SpawnOnce DEF ReadSpawn
<1>4. CASE ReadSkip \/ ReadClose \/ ReadFin \/ ReadEnds
  BY <1>4, QueuesShrink DEF ReadSkip, ReadClose, ReadFin, ReadEnds
<1> QED BY <1>1, <1>2, <1>3, <1>4 DEF Handler, ReadLoop

LEMMA TasksOncePreserved ==
    ASSUME TypeOK, ConnNamed, OneOpenPerId, Tasks
    PROVE  OneOpenPerId'
<1> USE DEF net, server, conn, client
<1>1. CASE UNCHANGED csid
  BY <1>1, QueuesShrink DEF Tasks, StartNew, StartData
<1>2. ASSUME NEW c \in Conns, StartNew, st[c] = "none", Connecting(Head(ready).sid, c)
      PROVE  OneOpenPerId'
  <2> DEFINE s == Head(ready).sid
  <2>1. /\ Head(ready) = ready[1] /\ 1 \in DOMAIN ready /\ IsNew(Head(ready))
        /\ \A i \in DOMAIN ready' : i + 1 \in DOMAIN ready /\ ready'[i] = ready[i + 1]
    BY <1>2, TailInSeq DEF StartNew, TypeOK, IsNew
  <2>2. NewOnce(ready') /\ \A i \in DOMAIN ready' : IsNew(ready'[i]) => ready'[i].sid # s
    BY <1>2, <2>1, TailNewOnce DEF StartNew, OneOpenPerId, TypeOK
  <2>3. s \in Sids /\ s \in opened /\ \A d \in Conns : csid[d] # s
    BY <1>2, <2>1, HeadFrame DEF StartNew, OneOpenPerId, NewUnused, TypeOK
  <2>4. \A i \in DOMAIN inbox : IsNew(inbox[i]) => inbox[i].sid # s
    BY <2>1 DEF OneOpenPerId
  <2>5. UNCHANGED <<inbox, opened>> /\ csid' = [csid EXCEPT ![c] = s]
    BY <1>2 DEF StartNew, Connecting
  <2> HIDE DEF s
  <2>6. NewUnused(inbox)' /\ NewUnused(ready)'
    BY <2>1, <2>2, <2>4, <2>5 DEF OneOpenPerId, NewUnused, TypeOK
  <2>7. \A i \in DOMAIN inbox', j \in DOMAIN ready' :
           IsNew(inbox'[i]) /\ IsNew(ready'[j]) => inbox'[i].sid # ready'[j].sid
    BY <2>1, <2>5 DEF OneOpenPerId
  <2>8. /\ \A d \in Conns : csid'[d] \in opened' \cup {None}
        /\ \A d, e \in Conns : csid'[d] = csid'[e] /\ csid'[d] # None => d = e
    BY <2>3, <2>5 DEF OneOpenPerId, TypeOK
  <2> QED BY <2>2, <2>5, <2>6, <2>7, <2>8 DEF OneOpenPerId
<1> QED BY <1>1, <1>2 DEF Tasks, StartNew, StartData

\* The steps of connections and drains touch neither queue nor name.
LEMMA OncePreserved ==
    ASSUME Disciplined, ~ReuseIds, TypeInv, OneOpenPerId, FirstIsNew, Next
    PROVE  OneOpenPerId'
<1> USE DEF net, server, conn, client, TypeInv
<1>1. CASE Client
  BY <1>1, ClientOncePreserved
<1>2. CASE Handler
  BY <1>2, HandlerOncePreserved
<1>3. CASE Tasks
  BY <1>3, TasksOncePreserved
<1>4. ASSUME NEW c \in Conns, Connect(c) \/ Backend(c) \/ Relay(c)
      PROVE  UNCHANGED <<inbox, ready, csid, opened>>
  BY <1>4 DEF Connect, Backend, Relay, ConnectOk, ConnectFails, BackendSends, BackendSendsOn, BackendEnds,
              RelayData, RelaySendsOn, RelayFin, RelayDies, RelayCloses
<1>5. ASSUME NEW s \in Sids, NEW c \in Conns, Drain(s, c)
      PROVE  UNCHANGED <<inbox, ready, csid, opened>>
  BY <1>5 DEF Drain, DrainOk, DrainFails
<1>6. ASSUME UNCHANGED <<inbox, ready, csid, opened>>
      PROVE  OneOpenPerId'
  BY <1>6 DEF OneOpenPerId, NewOnce, NewUnused
<1> QED BY <1>1, <1>2, <1>3, <1>4, <1>5, <1>6 DEF Next

\* Until the first frame is taken nothing has been sent or started, and that
\* frame is the NEW_STREAM every disciplined client begins with.
LEMMA FirstPreserved ==
    ASSUME Disciplined, TypeInv, FirstIsNew, Next
    PROVE  FirstIsNew'
<1> SUFFICES ASSUME phase' = "first" PROVE FirstIsNew'
  BY DEF FirstIsNew
<1> USE DEF net, server, conn, client, TypeInv
<1>0. \A c \in Conns : csid[c] = None => st[c] = "none" /\ relay[c] = "none"
  BY DEF ConnNamed
<1>1. ASSUME NEW f \in Frame, inbox' = Append(inbox, f), inbox # <<>>
      PROVE  inbox' # <<>> /\ Head(inbox') = Head(inbox)
  BY <1>1, HeadOfAppend DEF TypeOK
<1>2. ASSUME NEW f \in Frame, inbox' = Append(inbox, f), inbox = <<>>
      PROVE  inbox' # <<>> /\ Head(inbox') = f
  BY <1>2, HeadOfAppend DEF TypeOK
<1>3. CASE Client
  <2>1. phase = "first" /\ UNCHANGED <<ready, csid, out>>
    BY <1>3 DEF Client, ClientOpen, ClientData, ClientEnds, ClientText, ClientLeaves, ClientSends
  <2>2. \A s \in Sids : ~StatusSeen(s)
    BY <2>1 DEF FirstIsNew, StatusSeen
  <2>3. ASSUME NEW s \in Sids, NEW k \in {0, 1}, ClientOpen(s, k)
        PROVE  FirstIsNew'
    <3>1. MkFrame("NEW_STREAM", s, k, "plain") \in Frame
          /\ MkFrame("NEW_STREAM", s, k, "plain").type = "NEW_STREAM"
      BY FrameMade DEF FrameTypes
    <3>2. inbox' # <<>> /\ Head(inbox').type \in {"NEW_STREAM", "DISC"}
      BY <1>1, <1>2, <2>1, <2>3, <3>1 DEF ClientOpen, ClientSends, FirstIsNew
    <3> QED BY <2>1, <3>2 DEF FirstIsNew
  <2>4. ASSUME NEW s \in Sids, NEW t \in {"CLOSE", "FIN"}, ClientEnds(s, t)
        PROVE  FirstIsNew'
    <3>1. MkFrame(t, s, 0, "plain") \in Frame
      BY FrameMade DEF FrameTypes
    <3>2. inbox # <<>>
      BY <2>1, <2>4 DEF ClientEnds, FirstIsNew
    <3>3. inbox' # <<>> /\ Head(inbox') = Head(inbox)
      BY <1>1, <2>4, <3>1, <3>2 DEF ClientEnds, ClientSends
    <3> QED BY <2>1, <3>2, <3>3 DEF FirstIsNew
  <2>5. ASSUME NEW s \in Sids, ClientLeaves(s)
        PROVE  FirstIsNew'
    <3>1. MkFrame("DISC", s, 0, "plain") \in Frame
          /\ MkFrame("DISC", s, 0, "plain").type = "DISC"
      BY FrameMade DEF FrameTypes
    <3>2. inbox' # <<>> /\ Head(inbox').type \in {"NEW_STREAM", "DISC"}
      BY <1>1, <1>2, <2>1, <2>5, <3>1 DEF ClientLeaves, FirstIsNew
    <3> QED BY <2>1, <3>2 DEF FirstIsNew
  <2> QED BY <1>3, <2>2, <2>3, <2>4, <2>5 DEF Client, ClientData, ClientText
<1>4. CASE Handler
  BY <1>4 DEF Handler, ReadLoop, FirstFrame, NoSession, ReadSpawn, ReadSkip, ReadClose,
              ReadFin, ReadEnds, EndSession
<1>5. CASE Tasks
  BY <1>5 DEF Tasks, StartNew, StartData, FirstIsNew
<1>6. ASSUME NEW c \in Conns, Connect(c) \/ Backend(c) \/ Relay(c)
      PROVE  FirstIsNew'
  <2>1. phase = "first"
    BY <1>6 DEF Connect, Backend, Relay, ConnectOk, ConnectFails, BackendSends, BackendSendsOn, BackendEnds,
                RelayData, RelaySendsOn, RelayFin, RelayDies, RelayCloses
  <2>2. st[c] = "none" /\ relay[c] = "none"
    BY <1>0, <2>1 DEF FirstIsNew
  <2> QED BY <1>6, <2>2 DEF Connect, Backend, Relay, ConnectOk, ConnectFails, BackendSends, BackendSendsOn,
                BackendEnds, RelayData, RelaySendsOn, RelayFin, RelayDies, RelayCloses
<1>7. ASSUME NEW s \in Sids, NEW c \in Conns, Drain(s, c)
      PROVE  FirstIsNew'
  BY <1>7 DEF Drain, DrainOk, DrainFails, FirstIsNew
<1> QED BY <1>3, <1>4, <1>5, <1>6, <1>7 DEF Next

-----------------------------------------------------------------------------
(* Every way the table changes keeps it matched with the open connections. *)

LEMMA HandleCloseMatches ==
    ASSUME TypeOK, TableMatches, NEW s \in Sids, HandleClose(s), UNCHANGED csid
    PROVE  TableMatches'
<1>1. \A c \in Conns : st'[c] = IF c = streams[s] THEN "closed" ELSE st[c]
  BY DEF HandleClose
<1>2. \A x \in Sids : streams'[x] = IF x = s THEN None ELSE streams[x]
  BY DEF HandleClose, TypeOK
<1>3. ASSUME NEW x \in Sids, streams'[x] # None
      PROVE  st'[streams'[x]] = "open" /\ csid'[streams'[x]] = x
  <2>1. x # s /\ streams'[x] = streams[x] /\ streams[x] \in Conns
    BY <1>2, <1>3 DEF TypeOK
  <2>2. streams[x] # streams[s]
    BY <1>3, <2>1, NoneIsNoName DEF TableMatches
  <2>3. st[streams[x]] = "open" /\ csid[streams[x]] = x
    BY <1>3, <2>1 DEF TableMatches
  <2>4. csid'[streams[x]] = x /\ st'[streams[x]] = st[streams[x]]
    BY <1>1, <2>1, <2>2, <2>3
  <2> QED BY <2>1, <2>3, <2>4
<1>4. ASSUME NEW c \in Conns, st'[c] = "open"
      PROVE  streams'[csid'[c]] = c
  <2>1. st[c] = "open" /\ c # streams[s] /\ streams[csid[c]] = c
    BY <1>1, <1>4 DEF TableMatches
  <2>2. csid[c] # s
    BY <2>1
  <2> QED BY <2>1, <2>2 DEF HandleClose, TypeOK
<1> QED BY <1>3, <1>4 DEF TableMatches

LEMMA CleanupMatches ==
    ASSUME TypeInv, TableMatches, CleanupAll, UNCHANGED csid
    PROVE  TableMatches'
<1>1. \A c \in Conns : st[c] = "open" => csid[c] \in Sids
  BY DEF TypeInv, TypeOK, ConnNamed
<1>2. \A c \in Conns : st'[c] # "open"
  BY <1>1 DEF CleanupAll, TableMatches
<1>3. \A x \in Sids : streams'[x] = None
  BY DEF CleanupAll
<1> QED BY <1>2, <1>3 DEF TableMatches

LEMMA MatchPreserved ==
    ASSUME TypeInv, OneOpenPerId, TableMatches, Next
    PROVE  TableMatches'
<1> USE NoneIsNoName DEF net, server, conn, client, TypeInv
<1>0. ASSUME UNCHANGED <<streams, st, csid>>
      PROVE  TableMatches'
  BY <1>0 DEF TableMatches
<1>1. CASE Client
  BY <1>0, <1>1 DEF Client, ClientOpen, ClientData, ClientEnds, ClientText, ClientLeaves, ClientSends
<1>2. CASE Handler
  <2>1. inbox # <<>> => Head(inbox).sid \in Sids
    BY HeadFrame DEF TypeOK
  <2>2. CASE FirstFrame \/ NoSession \/ ReadSpawn \/ ReadSkip
    BY <1>0, <2>2 DEF FirstFrame, NoSession, ReadSpawn, ReadSkip
  <2>3. CASE ReadClose \/ ReadFin
    BY <2>1, <2>3, HandleCloseMatches DEF ReadClose, ReadFin
  <2>4. CASE ReadEnds
    BY <2>4, CleanupMatches DEF ReadEnds, EndSession
  <2> QED BY <1>2, <2>2, <2>3, <2>4 DEF Handler, ReadLoop
<1>3. CASE Tasks
  <2>1. CASE UNCHANGED <<streams, st, csid>>
    BY <1>0, <2>1
  <2>2. ASSUME NEW c \in Conns, st[c] = "none", Connecting(Head(ready).sid, c), StartNew
        PROVE  TableMatches'
    <3>1. st' = [st EXCEPT ![c] = "connecting"] /\ csid' = [csid EXCEPT ![c] = Head(ready).sid]
          /\ UNCHANGED streams
      BY <2>2 DEF Connecting, StartNew
    <3>2. \A x \in Sids : streams[x] # c
      BY <2>2 DEF TableMatches
    <3> QED BY <2>2, <3>1, <3>2 DEF TableMatches, TypeOK
  <2> QED BY <1>3, <2>1, <2>2 DEF Tasks, StartNew, StartData
<1>4. ASSUME NEW c \in Conns, ConnectOk(c)
      PROVE  TableMatches'
  <2>1. csid[c] \in Sids /\ st[c] = "connecting"
    <3>1. st[c] = "connecting"
      BY <1>4 DEF ConnectOk
    <3>2. csid[c] # None
      BY <3>1 DEF ConnNamed
    <3> QED BY <3>1, <3>2 DEF TypeOK
  <2>2. streams[csid[c]] = None
    <3> SUFFICES ASSUME streams[csid[c]] # None PROVE FALSE
      OBVIOUS
    <3>1. PICK d \in Conns : d = streams[csid[c]]
      BY <2>1 DEF TypeOK
    <3>2. st[d] = "open" /\ csid[d] = csid[c]
      BY <2>1, <3>1 DEF TableMatches
    <3>3. d = c
      BY <2>1, <3>2 DEF OneOpenPerId
    <3> QED BY <2>1, <3>2, <3>3
  <2>3. st' = [st EXCEPT ![c] = "open"] /\ streams' = [streams EXCEPT ![csid[c]] = c]
        /\ UNCHANGED csid
    BY <1>4 DEF ConnectOk, Register
  <2>4. \A d \in Conns : d # c => csid[d] # csid[c]
    BY <2>1 DEF OneOpenPerId
  <2> QED BY <2>1, <2>2, <2>3, <2>4 DEF TableMatches, TypeOK
<1>5. ASSUME NEW c \in Conns, ConnectFails(c)
      PROVE  TableMatches'
  <2>1. \A x \in Sids : streams[x] # c
    BY <1>5 DEF TableMatches, ConnectFails
  <2> QED BY <1>5, <2>1 DEF ConnectFails, TableMatches, TypeOK
<1>6. ASSUME NEW c \in Conns, Backend(c) \/ RelayData(c) \/ RelaySendsOn(c) \/ RelayFin(c) \/ RelayDies(c)
      PROVE  TableMatches'
  BY <1>0, <1>6 DEF Backend, BackendSends, BackendSendsOn, BackendEnds, RelayData, RelaySendsOn, RelayFin, RelayDies
<1>7. ASSUME NEW c \in Conns, RelayCloses(c)
      PROVE  TableMatches'
  <2>1. csid[c] \in Sids
    <3>1. csid[c] # None
      BY <1>7 DEF RelayCloses, ConnNamed
    <3> QED BY <3>1 DEF TypeOK
  <2> QED BY <1>7, <2>1, HandleCloseMatches DEF RelayCloses
<1>8. ASSUME NEW s \in Sids, NEW c \in Conns, Drain(s, c)
      PROVE  TableMatches'
  BY <1>0, <1>8, HandleCloseMatches DEF Drain, DrainOk, DrainFails
<1> QED BY <1>1, <1>2, <1>3, <1>4, <1>5, <1>6, <1>7, <1>8 DEF Next, Connect, Relay

\* For disciplined clients and fresh stream ids: the inductive invariant.
THEOREM FreshInvariant ==
    ASSUME Disciplined, ~ReuseIds
    PROVE  Spec => []FreshInv
<1>1. Init => FreshInv
  BY DEF Init, FreshInv, OneOpenPerId, FirstIsNew, TableMatches, NewOnce, NewUnused
<1>2. TypeInv /\ FreshInv /\ [Next]_vars => FreshInv'
  <2>1. CASE Next
    BY <2>1, OncePreserved, FirstPreserved, MatchPreserved DEF FreshInv, TypeInv
  <2>2. CASE UNCHANGED vars
    BY <2>2 DEF vars, net, server, conn, client, FreshInv, OneOpenPerId, FirstIsNew,
                TableMatches, NewOnce, NewUnused
  <2> QED BY <2>1, <2>2
<1> QED BY <1>1, <1>2, TypeCorrect, PTL DEF Spec

\* No backend connection is ever open and unreachable, and none is closed and
\* still in the table: self.streams holds exactly the writers not closed.
THEOREM TableExact ==
    ASSUME Disciplined, ~ReuseIds
    PROVE  Spec => []TableIsExact
<1>1. TypeInv /\ FreshInv => TableIsExact
  <2> SUFFICES ASSUME TypeInv, FreshInv, NEW c \in Conns
               PROVE  st[c] = "open" <=> \E s \in Sids : streams[s] = c
    BY DEF TableIsExact
  <2>1. st[c] = "open" => csid[c] \in Sids
    BY DEF TypeInv, TypeOK, ConnNamed
  <2> QED BY <2>1, NoneIsNoName DEF FreshInv, TableMatches
<1> QED BY <1>1, FreshInvariant, TypeCorrect, PTL

-----------------------------------------------------------------------------
(* What is told on a stream, for disciplined clients and fresh stream ids. *)

Says(q, t) == \E i \in DOMAIN q : q[i].type = t
OnlyFin(q) == \A i \in DOMAIN q : q[i].type = "FIN"

\* A stream whose NEW_STREAM is unsent, queued or being connected has had no
\* answer but FIN; while the WebSocket is up the chunks a relay has read are
\* the ones the client was sent, and a relay runs only behind an OK.
TellInv ==
    /\ \A s \in Sids : s \notin opened => OnlyFin(out[s])
    /\ \A i \in DOMAIN inbox : IsNew(inbox[i]) => OnlyFin(out[inbox[i].sid])
    /\ \A i \in DOMAIN ready : IsNew(ready[i]) => OnlyFin(out[ready[i].sid])
    /\ \A c \in Conns :
          /\ st[c] = "connecting" => OnlyFin(out[csid[c]])
          /\ relay[c] = "none" => taken[c] = 0
          /\ ws = "up" /\ csid[c] # None =>
                Numbers(out[csid[c]], Len(out[csid[c]])) = 1..taken[c]
          /\ ws = "up" /\ relay[c] # "none" => Says(out[csid[c]], "OK")

\* A message more: what the stream said it still says, and what the message says.
LEMMA SaysAppended ==
    ASSUME NEW q \in Seq(Msg), NEW m \in Msg, NEW t
    PROVE  /\ Says(q, t) => Says(Append(q, m), t)
           /\ m.type = t => Says(Append(q, m), t)
<1> DEFINE r == Append(q, m)
<1>1. /\ Len(q) + 1 \in DOMAIN r /\ r[Len(q) + 1] = m
      /\ \A i \in DOMAIN q : i \in DOMAIN r /\ r[i] = q[i]
  BY AppendInSeq
<1> HIDE DEF r
<1>2. Says(q, t) => Says(r, t)
  BY <1>1 DEF Says
<1>3. m.type = t => Says(r, t)
  BY <1>1 DEF Says
<1> QED BY <1>2, <1>3 DEF r

LEMMA OnlyFinAppended ==
    ASSUME NEW q \in Seq(Msg), NEW m \in Msg, m.type = "FIN", OnlyFin(q)
    PROVE  OnlyFin(Append(q, m))
<1> DEFINE r == Append(q, m)
<1>1. /\ r[Len(q) + 1] = m
      /\ \A i \in DOMAIN q : r[i] = q[i]
      /\ DOMAIN r = DOMAIN q \cup {Len(q) + 1}
  BY AppendInSeq
<1> HIDE DEF r
<1>2. ASSUME NEW i \in DOMAIN r
      PROVE  r[i].type = "FIN"
  BY <1>1, <1>2 DEF OnlyFin
<1>3. OnlyFin(r)
  BY <1>2 DEF OnlyFin
<1> QED BY <1>3 DEF r

LEMMA NumbersAppended ==
    ASSUME NEW q \in Seq(Msg), NEW m \in Msg
    PROVE  /\ \A k \in 0..Len(q) : Numbers(Append(q, m), k) = Numbers(q, k)
           /\ m.type # "DATA" =>
                 Numbers(Append(q, m), Len(Append(q, m))) = Numbers(q, Len(q))
           /\ m.type = "DATA" =>
                 Numbers(Append(q, m), Len(Append(q, m))) = Numbers(q, Len(q)) \cup {m.n}
<1> DEFINE r == Append(q, m)
<1>1. /\ Len(q) \in Nat /\ Len(r) = Len(q) + 1 /\ r[Len(q) + 1] = m
      /\ \A i \in 1..Len(q) : r[i] = q[i]
  OBVIOUS
<1> HIDE DEF r
<1>2. ASSUME NEW k \in 0..Len(q)
      PROVE  Numbers(r, k) = Numbers(q, k)
  <2>1. \A i \in 1..k : r[i] = q[i]
    BY <1>1
  <2> QED BY <2>1 DEF Numbers
<1>3. Numbers(r, Len(q)) = Numbers(q, Len(q))
  <2>1. Len(q) \in 0..Len(q)
    BY <1>1
  <2> QED BY <1>2, <2>1
<1>4. 1..Len(r) = (1..Len(q)) \cup {Len(q) + 1}
  BY <1>1
<1>5. m.type # "DATA" => Numbers(r, Len(r)) = Numbers(r, Len(q))
  BY <1>1, <1>4 DEF Numbers
<1>6. m.type = "DATA" => Numbers(r, Len(r)) = Numbers(r, Len(q)) \cup {m.n}
  BY <1>1, <1>4 DEF Numbers
<1> QED BY <1>2, <1>3, <1>5, <1>6 DEF r

\* What may be sent on a stream without spoiling it.
LEMMA FormKept ==
    ASSUME NEW q \in Seq(Msg), NEW m \in Msg, WellFormed(q),
           \/ m.type = "FIN"
           \/ m.type \in {"OK", "ERR"} /\ OnlyFin(q)
           \/ /\ m.type = "DATA" /\ Says(q, "OK")
              /\ m.n # 0 /\ Numbers(q, Len(q)) = 1..(m.n - 1)
    PROVE  WellFormed(Append(q, m))
<1> DEFINE r == Append(q, m)
<1>1. /\ Len(q) \in Nat /\ r[Len(q) + 1] = m /\ DOMAIN q = 1..Len(q)
      /\ DOMAIN r = 1..(Len(q) + 1)
      /\ \A i \in DOMAIN q : r[i] = q[i]
  OBVIOUS
<1>2. \A i \in DOMAIN r : i \in DOMAIN q \/ i = Len(q) + 1
  BY <1>1
<1>3. \A k \in 0..Len(q) : Numbers(r, k) = Numbers(q, k)
  BY NumbersAppended
<1> HIDE DEF r
<1>4. ASSUME NEW i \in DOMAIN r, NEW j \in DOMAIN r,
             {r[i].type, r[j].type} \subseteq {"OK", "ERR"}
      PROVE  i = j
  <2>1. CASE i \in DOMAIN q /\ j \in DOMAIN q
    BY <1>1, <1>4, <2>1 DEF WellFormed
  <2>2. CASE i = Len(q) + 1 /\ j \in DOMAIN q
    BY <1>1, <1>4, <2>2 DEF OnlyFin
  <2>3. CASE i \in DOMAIN q /\ j = Len(q) + 1
    BY <1>1, <1>4, <2>3 DEF OnlyFin
  <2> QED BY <1>2, <2>1, <2>2, <2>3
<1>5. ASSUME NEW i \in DOMAIN r, r[i].type = "DATA"
      PROVE  /\ \E j \in 1..(i - 1) : r[j].type = "OK"
             /\ r[i].n # 0 /\ Numbers(r, i - 1) = 1..(r[i].n - 1)
  <2>1. CASE i \in DOMAIN q
    <3>1. /\ \E j \in 1..(i - 1) : q[j].type = "OK"
          /\ q[i].n # 0 /\ Numbers(q, i - 1) = 1..(q[i].n - 1)
      BY <1>1, <1>5, <2>1 DEF WellFormed
    <3>2. \A j \in 1..(i - 1) : j \in DOMAIN q
      BY <1>1, <2>1
    <3>3. Numbers(r, i - 1) = Numbers(q, i - 1)
      BY <1>1, <1>3, <2>1
    <3> QED BY <1>1, <2>1, <3>1, <3>2, <3>3
  <2>2. CASE i = Len(q) + 1
    <3>1. m.type = "DATA" /\ r[i] = m /\ i - 1 = Len(q)
      BY <1>1, <1>5, <2>2
    <3>2. Says(q, "OK") /\ m.n # 0 /\ Numbers(q, Len(q)) = 1..(m.n - 1)
      BY <3>1
    <3>3. Numbers(r, i - 1) = Numbers(q, Len(q))
      BY <1>1, <1>3, <3>1
    <3> QED BY <1>1, <3>1, <3>2, <3>3 DEF Says
  <2> QED BY <1>2, <2>1, <2>2
<1> QED BY <1>4, <1>5 DEF WellFormed, r

LEMMA OnlyFinHasNoData ==
    ASSUME NEW q \in Seq(Msg), OnlyFin(q)
    PROVE  Numbers(q, Len(q)) = 1..0
<1>1. \A j \in 1..Len(q) : q[j].type # "DATA"
  BY DEF OnlyFin
<1> QED BY <1>1 DEF Numbers

\* A message on one stream, and a FIN on any.
LEMMA OnOneStream ==
    ASSUME TypeOK, NEW s \in Sids, NEW t \in {"OK", "ERR", "DATA", "FIN"}, NEW k \in Nat,
           ws = "up", out' = Sent(s, MkMsg(t, k))
    PROVE  /\ out[s] \in Seq(Msg)
           /\ MkMsg(t, k) \in Msg /\ MkMsg(t, k).type = t /\ MkMsg(t, k).n = k
           /\ out'[s] = Append(out[s], MkMsg(t, k))
           /\ \A x \in Sids : x # s => out'[x] = out[x]
  BY DEF TypeOK, Sent, MkMsg, Msg

\* What a step may do to every stream without touching the invariant.
Kept ==
    \A x \in Sids :
       /\ OnlyFin(out[x]) => OnlyFin(out'[x])
       /\ Says(out[x], "OK") => Says(out'[x], "OK")
       /\ Numbers(out'[x], Len(out'[x])) = Numbers(out[x], Len(out[x]))
       /\ WellFormed(out[x]) => WellFormed(out'[x])

LEMMA FinKeeps ==
    ASSUME TypeOK, NEW s \in Sids, out' = Sent(s, MkMsg("FIN", 0))
    PROVE  Kept
<1>1. CASE ws # "up"
  BY <1>1 DEF Sent, Kept
<1>2. CASE ws = "up"
  <2> DEFINE m == MkMsg("FIN", 0)
  <2>1. /\ out[s] \in Seq(Msg) /\ m \in Msg /\ m.type = "FIN"
        /\ out'[s] = Append(out[s], m)
        /\ \A x \in Sids : x # s => out'[x] = out[x]
    BY <1>2, OnOneStream
  <2> HIDE DEF m
  <2>2. /\ OnlyFin(out[s]) => OnlyFin(out'[s])
        /\ Says(out[s], "OK") => Says(out'[s], "OK")
    <3>1. OnlyFin(out[s]) => OnlyFin(Append(out[s], m))
      BY <2>1, OnlyFinAppended
    <3>2. Says(out[s], "OK") => Says(Append(out[s], m), "OK")
      BY <2>1, SaysAppended
    <3> QED BY <2>1, <3>1, <3>2
  <2>3. Numbers(out'[s], Len(out'[s])) = Numbers(out[s], Len(out[s]))
    <3>1. out[s] \in Seq(Msg) /\ m \in Msg /\ m.type # "DATA"
      BY <2>1
    <3>2. Numbers(Append(out[s], m), Len(Append(out[s], m))) = Numbers(out[s], Len(out[s]))
      BY <3>1, NumbersAppended
    <3> QED BY <2>1, <3>2
  <2>4. WellFormed(out[s]) => WellFormed(out'[s])
    BY <2>1, FormKept
  <2> QED BY <2>1, <2>2, <2>3, <2>4 DEF Kept
<1> QED BY <1>1, <1>2

LEMMA NothingKeeps ==
    ASSUME UNCHANGED out
    PROVE  Kept
  BY DEF Kept

LEMMA NamedConn ==
    ASSUME TypeInv, NEW c \in Conns
    PROVE  /\ st[c] = "connecting" => csid[c] \in Sids
           /\ relay[c] # "none" => csid[c] \in Sids
           /\ csid[c] # None => csid[c] \in Sids
<1>1. csid[c] # None => csid[c] \in Sids
  BY DEF TypeInv, TypeOK
<1>2. st[c] # "none" => csid[c] # None
  BY DEF TypeInv, ConnNamed
<1>3. relay[c] # "none" => st[c] # "none"
  BY DEF TypeInv, ConnNamed
<1> QED BY <1>1, <1>2, <1>3

LEMMA SidsKnown == \A q \in Seq(Frame) : \A i \in DOMAIN q : q[i].sid \in Sids
<1> SUFFICES ASSUME NEW q \in Seq(Frame), NEW i \in DOMAIN q
             PROVE  q[i].sid \in Sids
  OBVIOUS
<1>1. q[i] \in Frame
  OBVIOUS
<1> QED BY <1>1 DEF Frame

\* The steps that start no connection, send no status and no DATA.
LEMMA QuietTells ==
    ASSUME TypeInv, TellInv, Kept, opened \subseteq opened', csid' = csid, taken' = taken,
           inbox' \in Seq(Frame), ready' \in Seq(Frame), opened' \subseteq Sids,
           ws' = "up" => ws = "up",
           \A i \in DOMAIN inbox' : IsNew(inbox'[i]) => OnlyFin(out[inbox'[i].sid]),
           \A i \in DOMAIN ready' : IsNew(ready'[i]) => OnlyFin(out[ready'[i].sid]),
           \A c \in Conns :
              /\ st'[c] = "connecting" => st[c] = "connecting"
              /\ relay'[c] = "none" <=> relay[c] = "none"
    PROVE  TellInv'
<1>1. \A q \in Seq(Frame) : \A i \in DOMAIN q : q[i].sid \in Sids
  BY SidsKnown
<1>2. \A c \in Conns : /\ st[c] = "connecting" => csid[c] \in Sids
                       /\ relay[c] # "none" => csid[c] \in Sids
                       /\ csid[c] # None => csid[c] \in Sids
  BY NamedConn
<1>3. \A s \in Sids : s \notin opened' => OnlyFin(out'[s])
  BY DEF TellInv, Kept
<1>4. \A i \in DOMAIN inbox' : IsNew(inbox'[i]) => OnlyFin(out'[inbox'[i].sid])
  BY <1>1 DEF Kept
<1>5. \A i \in DOMAIN ready' : IsNew(ready'[i]) => OnlyFin(out'[ready'[i].sid])
  BY <1>1 DEF Kept
<1>6. ASSUME NEW c \in Conns
      PROVE  /\ st'[c] = "connecting" => OnlyFin(out'[csid'[c]])
             /\ relay'[c] = "none" => taken'[c] = 0
             /\ ws' = "up" /\ csid'[c] # None =>
                   Numbers(out'[csid'[c]], Len(out'[csid'[c]])) = 1..taken'[c]
             /\ ws' = "up" /\ relay'[c] # "none" => Says(out'[csid'[c]], "OK")
  <2>1. st'[c] = "connecting" => OnlyFin(out'[csid'[c]])
    BY <1>2 DEF TellInv, Kept
  <2>2. relay'[c] = "none" => taken'[c] = 0
    BY DEF TellInv
  <2>3. ws' = "up" /\ csid'[c] # None =>
           Numbers(out'[csid'[c]], Len(out'[csid'[c]])) = 1..taken'[c]
    BY <1>2 DEF TellInv, Kept
  <2>4. ws' = "up" /\ relay'[c] # "none" => Says(out'[csid'[c]], "OK")
    BY <1>2 DEF TellInv, Kept
  <2> QED BY <2>1, <2>2, <2>3, <2>4
<1> QED BY <1>3, <1>4, <1>5, <1>6 DEF TellInv

\* A queue of frames of which every one was there before.
LEMMA QueueTells ==
    ASSUME NEW q \in Seq(Frame), NEW r \in Seq(Frame),
           r = q \/ (q # <<>> /\ r = Tail(q)),
           \A i \in DOMAIN q : IsNew(q[i]) => OnlyFin(out[q[i].sid])
    PROVE  \A i \in DOMAIN r : IsNew(r[i]) => OnlyFin(out[r[i].sid])
<1>1. CASE r = q
  BY <1>1
<1>2. CASE q # <<>> /\ r = Tail(q)
  BY <1>2, TailInSeq
<1> QED BY <1>1, <1>2

\* ... and one with one more.
LEMMA LongerTells ==
    ASSUME NEW q \in Seq(Frame), NEW f \in Frame,
           \A i \in DOMAIN q : IsNew(q[i]) => OnlyFin(out[q[i].sid]),
           IsNew(f) => OnlyFin(out[f.sid])
    PROVE  \A i \in DOMAIN Append(q, f) :
              IsNew(Append(q, f)[i]) => OnlyFin(out[Append(q, f)[i].sid])
<1>1. \A i \in DOMAIN Append(q, f) :
         (i \in DOMAIN q /\ Append(q, f)[i] = q[i]) \/ Append(q, f)[i] = f
  BY AppendInSeq
<1> QED BY <1>1

LEMMA ClientTells ==
    ASSUME ~ReuseIds, TypeInv, TypeOK', TellInv, Client
    PROVE  TellInv'
<1> USE DEF net, server, conn, client, TypeInv
<1>1. PICK s \in Sids :
         \/ \E k \in {0, 1} : ClientOpen(s, k)
         \/ \E tl \in Tails : ClientData(s, tl)
         \/ \E t \in {"CLOSE", "FIN"} : ClientEnds(s, t)
         \/ ClientText(s)
         \/ ClientLeaves(s)
  BY DEF Client
<1>2. PICK t \in FrameTypes, k \in Nat, tl \in {"plain", "padlike"} :
         /\ inbox' = Append(inbox, MkFrame(t, s, k, tl))
         /\ t = "NEW_STREAM" => s \notin opened
  <2>1. nsent[s] + 1 \in Nat
    BY DEF TypeOK
  <2> QED BY <1>1, <2>1, TailsKnown DEF ClientOpen, ClientData, ClientEnds, ClientText,
                ClientLeaves, ClientSends, FrameTypes
<1>3. /\ UNCHANGED <<out, ready, csid, taken, st, relay>> /\ opened \subseteq opened'
      /\ ws = "up"
  BY <1>1 DEF ClientOpen, ClientData, ClientEnds, ClientText, ClientLeaves, ClientSends
<1> DEFINE f == MkFrame(t, s, k, tl)
<1>4. f \in Frame /\ f.type = t /\ f.sid = s
  BY FrameMade
<1>5. IsNew(f) => OnlyFin(out[f.sid])
  BY <1>2, <1>4 DEF TellInv, IsNew
<1>6. \A i \in DOMAIN inbox' : IsNew(inbox'[i]) => OnlyFin(out[inbox'[i].sid])
  <2> HIDE DEF f
  <2>1. inbox' = Append(inbox, f)
    BY <1>2 DEF f
  <2>2. \A i \in DOMAIN inbox : IsNew(inbox[i]) => OnlyFin(out[inbox[i].sid])
    BY DEF TellInv
  <2>3. inbox \in Seq(Frame)
    BY DEF TypeOK
  <2> QED BY <1>4, <1>5, <2>1, <2>2, <2>3, LongerTells
<1>7. /\ inbox' \in Seq(Frame) /\ ready' \in Seq(Frame) /\ opened' \subseteq Sids
      /\ \A i \in DOMAIN ready' : IsNew(ready'[i]) => OnlyFin(out[ready'[i].sid])
  BY <1>3 DEF TypeOK, TellInv
<1> QED BY <1>3, <1>6, <1>7, NothingKeeps, QuietTells

LEMMA HandlerTells ==
    ASSUME TypeInv, TypeOK', FirstIsNew, TellInv, Handler
    PROVE  TellInv' /\ Kept
<1> USE DEF net, server, conn, client, TypeInv
<1>1. inbox # <<>> =>
         /\ Head(inbox) = inbox[1] /\ 1 \in DOMAIN inbox
         /\ Head(inbox) \in Frame /\ Head(inbox).sid \in Sids /\ Head(inbox).n \in Nat
  BY HeadFrame DEF TypeOK
<1>2. inbox # <<>> /\ IsNew(Head(inbox)) => OnlyFin(out[Head(inbox).sid])
  BY <1>1 DEF TellInv
<1>3. /\ inbox' = inbox \/ (inbox # <<>> /\ inbox' = Tail(inbox))
      /\ UNCHANGED <<opened, csid, taken, relay>> /\ (ws' = "up" => ws = "up")
  BY DEF Handler, ReadLoop, FirstFrame, NoSession, ReadSpawn, ReadSkip, ReadClose, ReadFin,
         ReadEnds, EndSession
<1>4. \A i \in DOMAIN inbox' : IsNew(inbox'[i]) => OnlyFin(out[inbox'[i].sid])
  <2>1. inbox \in Seq(Frame) /\ inbox' \in Seq(Frame)
    BY DEF TypeOK
  <2>2. \A i \in DOMAIN inbox : IsNew(inbox[i]) => OnlyFin(out[inbox[i].sid])
    BY DEF TellInv
  <2> QED BY <1>3, <2>1, <2>2, QueueTells
<1>5. ASSUME NEW f \in Frame, ready' = Append(ready, f), f.type = Head(inbox).type,
             f.sid = Head(inbox).sid, inbox # <<>>
      PROVE  \A i \in DOMAIN ready' : IsNew(ready'[i]) => OnlyFin(out[ready'[i].sid])
  <2>1. IsNew(f) => OnlyFin(out[f.sid])
    BY <1>2, <1>5 DEF IsNew
  <2>2. \A i \in DOMAIN ready : IsNew(ready[i]) => OnlyFin(out[ready[i].sid])
    BY DEF TellInv
  <2> QED BY <1>5, <2>1, <2>2, LongerTells DEF TypeOK
<1>6. \A i \in DOMAIN ready' : IsNew(ready'[i]) => OnlyFin(out[ready'[i].sid])
  <2>1. CASE UNCHANGED ready
    BY <2>1 DEF TellInv
  <2>2. CASE ReadSpawn
    BY <1>1, <1>5, <2>2 DEF ReadSpawn
  <2>3. CASE FirstFrame /\ ~UNCHANGED ready
    <3>1. Head(inbox).type = "NEW_STREAM" /\ inbox # <<>>
      BY <2>3 DEF FirstFrame, FirstIsNew
    <3>2. ready' = Append(ready, MkFrame("NEW_STREAM", Head(inbox).sid, Head(inbox).n, "plain"))
      BY <2>3, <3>1 DEF FirstFrame
    <3>3. /\ MkFrame("NEW_STREAM", Head(inbox).sid, Head(inbox).n, "plain") \in Frame
          /\ MkFrame("NEW_STREAM", Head(inbox).sid, Head(inbox).n, "plain").type = "NEW_STREAM"
          /\ MkFrame("NEW_STREAM", Head(inbox).sid, Head(inbox).n, "plain").sid = Head(inbox).sid
      BY <1>1, <3>1, FrameMade DEF FrameTypes
    <3> QED BY <1>5, <3>1, <3>2, <3>3
  <2> QED BY <2>1, <2>2, <2>3 DEF Handler, ReadLoop, FirstFrame, NoSession, ReadSpawn,
             ReadSkip, ReadClose, ReadFin, ReadEnds, EndSession
<1>7. \A c \in Conns : st'[c] = "connecting" => st[c] = "connecting"
  BY DEF Handler, ReadLoop, FirstFrame, NoSession, ReadSpawn, ReadSkip, ReadClose, ReadFin,
         ReadEnds, EndSession, HandleClose, CleanupAll
<1>8. Kept
  <2>1. CASE UNCHANGED out
    BY <2>1, NothingKeeps
  <2>2. CASE ReadFin
    BY <1>1, <2>2, FinKeeps DEF ReadFin
  <2> QED BY <2>1, <2>2 DEF Handler, ReadLoop, FirstFrame, NoSession, ReadSpawn, ReadSkip,
             ReadClose, ReadEnds, EndSession
<1>9. inbox' \in Seq(Frame) /\ ready' \in Seq(Frame) /\ opened' \subseteq Sids
  BY DEF TypeOK
<1> QED BY <1>3, <1>4, <1>6, <1>7, <1>8, <1>9, QuietTells

\* A status or a chunk on a stream: the other streams do not notice.
LEMMA OthersTell ==
    ASSUME TypeInv, TellInv, NEW s \in Sids, s \in opened,
           NEW t \in {"OK", "ERR", "DATA", "FIN"}, NEW k \in Nat, out' = Sent(s, MkMsg(t, k)),
           UNCHANGED <<inbox, ws, opened>>,
           ready' = ready \/ (ready # <<>> /\ ready' = Tail(ready)),
           \A i \in DOMAIN inbox : IsNew(inbox[i]) => inbox[i].sid # s,
           \A i \in DOMAIN ready' : IsNew(ready'[i]) => ready'[i].sid # s
    PROVE  /\ \A x \in Sids : x # s => out'[x] = out[x]
           /\ \A x \in Sids : x \notin opened' => OnlyFin(out'[x])
           /\ \A i \in DOMAIN inbox' : IsNew(inbox'[i]) => OnlyFin(out'[inbox'[i].sid])
           /\ \A i \in DOMAIN ready' : IsNew(ready'[i]) => OnlyFin(out'[ready'[i].sid])
<1>1. \A x \in Sids : x # s => out'[x] = out[x]
  BY DEF Sent, TypeInv, TypeOK
<1>2. inbox \in Seq(Frame) /\ ready \in Seq(Frame) /\ ready' \in Seq(Frame)
  <2>1. inbox \in Seq(Frame) /\ ready \in Seq(Frame)
    BY DEF TypeInv, TypeOK
  <2> QED BY <2>1, TailInSeq
<1>3. \A q \in Seq(Frame) : \A i \in DOMAIN q : q[i].sid \in Sids
  BY SidsKnown
<1>4. \A i \in DOMAIN ready' : IsNew(ready'[i]) => OnlyFin(out[ready'[i].sid])
  <2>1. \A i \in DOMAIN ready : IsNew(ready[i]) => OnlyFin(out[ready[i].sid])
    BY DEF TellInv
  <2> QED BY <1>2, <2>1, QueueTells
<1>5. \A x \in Sids : x \notin opened' => OnlyFin(out'[x])
  BY <1>1 DEF TellInv
<1>6. \A i \in DOMAIN inbox' : IsNew(inbox'[i]) => OnlyFin(out'[inbox'[i].sid])
  <2> SUFFICES ASSUME NEW i \in DOMAIN inbox, IsNew(inbox[i])
               PROVE  OnlyFin(out'[inbox[i].sid])
    OBVIOUS
  <2>1. inbox[i].sid \in Sids /\ inbox[i].sid # s /\ OnlyFin(out[inbox[i].sid])
    BY <1>2, <1>3 DEF TellInv
  <2> QED BY <1>1, <2>1
<1>7. \A i \in DOMAIN ready' : IsNew(ready'[i]) => OnlyFin(out'[ready'[i].sid])
  <2> SUFFICES ASSUME NEW i \in DOMAIN ready', IsNew(ready'[i])
               PROVE  OnlyFin(out'[ready'[i].sid])
    OBVIOUS
  <2>1. ready'[i].sid \in Sids /\ ready'[i].sid # s /\ OnlyFin(out[ready'[i].sid])
    BY <1>2, <1>3, <1>4
  <2> QED BY <1>1, <2>1
<1> QED BY <1>1, <1>5, <1>6, <1>7

\* A connection's own stream: opened, in no queue, and no other's.
LEMMA OwnStream ==
    ASSUME TypeInv, OneOpenPerId, NEW c \in Conns, csid[c] # None
    PROVE  /\ csid[c] \in Sids /\ csid[c] \in opened
           /\ \A i \in DOMAIN inbox : IsNew(inbox[i]) => inbox[i].sid # csid[c]
           /\ \A i \in DOMAIN ready : IsNew(ready[i]) => ready[i].sid # csid[c]
           /\ \A d \in Conns : d # c => csid[d] # csid[c]
  BY DEF TypeInv, TypeOK, OneOpenPerId, NewUnused

LEMMA StartNewTells ==
    ASSUME TypeInv, OneOpenPerId, TellInv, StreamWellFormed, StartNew
    PROVE  TellInv' /\ StreamWellFormed'
<1> USE NoneIsNoName DEF net, server, conn, client, TypeInv
<1> DEFINE s == Head(ready).sid
<1>1. /\ Head(ready) = ready[1] /\ 1 \in DOMAIN ready /\ IsNew(Head(ready))
      /\ s \in Sids /\ ready' = Tail(ready) /\ ready # <<>>
      /\ UNCHANGED <<inbox, ws, opened, relay, taken>>
  BY HeadFrame DEF StartNew, TypeOK, IsNew
<1>2. \A i \in DOMAIN ready' : IsNew(ready'[i]) => ready'[i].sid # s
  BY <1>1, TailNewOnce DEF OneOpenPerId, TypeOK
<1>3. /\ s \in opened /\ OnlyFin(out[s]) /\ out[s] \in Seq(Msg)
      /\ \A c \in Conns : csid[c] # s
      /\ \A i \in DOMAIN inbox : IsNew(inbox[i]) => inbox[i].sid # s
  BY <1>1 DEF OneOpenPerId, NewUnused, TellInv, TypeOK
<1>4. \A c \in Conns : /\ st[c] = "connecting" => csid[c] \in Sids
                       /\ relay[c] # "none" => csid[c] \in Sids
                       /\ csid[c] # None => csid[c] \in Sids
  BY NamedConn
<1>5. CASE out' = Sent(s, MkMsg("ERR", 0)) /\ UNCHANGED <<st, csid>>
  <2> HIDE DEF s
  <2>1. /\ \A x \in Sids : x # s => out'[x] = out[x]
        /\ \A x \in Sids : x \notin opened' => OnlyFin(out'[x])
        /\ \A i \in DOMAIN inbox' : IsNew(inbox'[i]) => OnlyFin(out'[inbox'[i].sid])
        /\ \A i \in DOMAIN ready' : IsNew(ready'[i]) => OnlyFin(out'[ready'[i].sid])
    BY <1>1, <1>2, <1>3, <1>5, OthersTell
  <2>2. \A c \in Conns : csid[c] \in Sids => out'[csid[c]] = out[csid[c]]
    BY <1>3, <2>1
  <2>3. ASSUME NEW c \in Conns
        PROVE  /\ st'[c] = "connecting" => OnlyFin(out'[csid'[c]])
               /\ relay'[c] = "none" => taken'[c] = 0
               /\ ws' = "up" /\ csid'[c] # None =>
                     Numbers(out'[csid'[c]], Len(out'[csid'[c]])) = 1..taken'[c]
               /\ ws' = "up" /\ relay'[c] # "none" => Says(out'[csid'[c]], "OK")
    BY <1>1, <1>4, <1>5, <2>2 DEF TellInv
  <2>4. WellFormed(out'[s])
    <3>1. CASE ws = "up"
      <4>1. out'[s] = Append(out[s], MkMsg("ERR", 0)) /\ MkMsg("ERR", 0) \in Msg
            /\ MkMsg("ERR", 0).type = "ERR"
        BY <1>1, <1>5, <3>1, OnOneStream
      <4> QED BY <1>1, <1>3, <4>1, FormKept DEF StreamWellFormed
    <3>2. CASE ws # "up"
      BY <1>1, <1>5, <3>2 DEF Sent, StreamWellFormed
    <3> QED BY <3>1, <3>2
  <2> QED BY <2>1, <2>3, <2>4 DEF TellInv, StreamWellFormed
<1>6. ASSUME NEW c \in Conns, st[c] = "none", Connecting(s, c), UNCHANGED out
      PROVE  TellInv' /\ StreamWellFormed'
  <2>1. st' = [st EXCEPT ![c] = "connecting"] /\ csid' = [csid EXCEPT ![c] = s]
    BY <1>6 DEF Connecting
  <2>2. relay[c] = "none" /\ taken[c] = 0
    BY <1>6 DEF ConnNamed, TellInv
  <2>3. Numbers(out[s], Len(out[s])) = 1..0
    BY <1>3, OnlyFinHasNoData
  <2> HIDE DEF s
  <2>4. ASSUME NEW d \in Conns
        PROVE  /\ st'[d] = "connecting" => OnlyFin(out'[csid'[d]])
               /\ relay'[d] = "none" => taken'[d] = 0
               /\ ws' = "up" /\ csid'[d] # None =>
                     Numbers(out'[csid'[d]], Len(out'[csid'[d]])) = 1..taken'[d]
               /\ ws' = "up" /\ relay'[d] # "none" => Says(out'[csid'[d]], "OK")
    <3>1. CASE d = c
      BY <1>1, <1>3, <1>6, <2>1, <2>2, <2>3, <3>1 DEF TypeOK
    <3>2. CASE d # c
      BY <1>1, <1>6, <2>1, <3>2 DEF TellInv, TypeOK
    <3> QED BY <3>1, <3>2
  <2>5. \A i \in DOMAIN ready' : IsNew(ready'[i]) => OnlyFin(out'[ready'[i].sid])
    <3>1. ready \in Seq(Frame) /\ ready' \in Seq(Frame)
      BY <1>1, TailInSeq DEF TypeOK
    <3>2. \A i \in DOMAIN ready : IsNew(ready[i]) => OnlyFin(out[ready[i].sid])
      BY DEF TellInv
    <3>3. \A i \in DOMAIN ready' : IsNew(ready'[i]) => OnlyFin(out[ready'[i].sid])
      BY <1>1, <3>1, <3>2, QueueTells
    <3> QED BY <1>6, <3>3
  <2> QED BY <1>1, <1>6, <2>4, <2>5 DEF TellInv, StreamWellFormed
<1>7. \/ out' = Sent(s, MkMsg("ERR", 0)) /\ UNCHANGED <<st, csid>>
      \/ \E c \in Conns : st[c] = "none" /\ Connecting(s, c) /\ UNCHANGED out
  BY DEF StartNew
<1> QED BY <1>5, <1>6, <1>7

\* A status on a connection's own stream, at the end of its connect.
LEMMA ConnectTells ==
    ASSUME TypeInv, OneOpenPerId, TellInv, StreamWellFormed, NEW c \in Conns, Connect(c)
    PROVE  TellInv' /\ StreamWellFormed'
<1> USE NoneIsNoName DEF net, server, conn, client, TypeInv
<1>1. PICK t \in {"OK", "ERR"} :
         /\ out' = Sent(csid[c], MkMsg(t, 0))
         /\ \/ t = "OK" /\ StartRelay(c)
            \/ t = "ERR" /\ UNCHANGED relay
  BY DEF Connect, ConnectOk, ConnectFails
<1>2. /\ UNCHANGED <<inbox, ws, ready, csid, opened, taken>> /\ st[c] = "connecting"
      /\ st'[c] # "connecting"
      /\ \A d \in Conns : d # c => st'[d] = st[d]
  BY DEF Connect, ConnectOk, ConnectFails, TypeOK
<1>3. /\ csid[c] \in Sids /\ csid[c] \in opened
      /\ \A i \in DOMAIN inbox : IsNew(inbox[i]) => inbox[i].sid # csid[c]
      /\ \A i \in DOMAIN ready : IsNew(ready[i]) => ready[i].sid # csid[c]
      /\ \A d \in Conns : d # c => csid[d] # csid[c]
  <2>1. csid[c] # None
    BY <1>2 DEF ConnNamed
  <2> QED BY <2>1, OwnStream
<1> DEFINE s == csid[c]
           m == MkMsg(t, 0)
<1>4. /\ \A x \in Sids : x # s => out'[x] = out[x]
      /\ \A x \in Sids : x \notin opened' => OnlyFin(out'[x])
      /\ \A i \in DOMAIN inbox' : IsNew(inbox'[i]) => OnlyFin(out'[inbox'[i].sid])
      /\ \A i \in DOMAIN ready' : IsNew(ready'[i]) => OnlyFin(out'[ready'[i].sid])
  <2>1. /\ \A i \in DOMAIN ready' : IsNew(ready'[i]) => ready'[i].sid # csid[c]
        /\ UNCHANGED <<inbox, ws, opened>> /\ t \in {"OK", "ERR", "DATA", "FIN"}
    BY <1>2, <1>3
  <2> QED BY <1>1, <1>2, <1>3, <2>1, OthersTell
<1>5. OnlyFin(out[s]) /\ out[s] \in Seq(Msg) /\ WellFormed(out[s])
  BY <1>2, <1>3 DEF TellInv, StreamWellFormed, TypeOK
<1>6. relay[c] = "none" /\ taken[c] = 0
  BY <1>2 DEF ConnNamed, TellInv
<1>7. ws = "up" => /\ out'[s] = Append(out[s], m) /\ m \in Msg /\ m.type = t
  BY <1>1, <1>3, OnOneStream
<1>8. ws # "up" => out' = out
  BY <1>1 DEF Sent
<1> HIDE DEF m, s
<1>9. WellFormed(out'[s])
  BY <1>5, <1>7, <1>8, FormKept
<1>10. ws = "up" => Numbers(out'[s], Len(out'[s])) = 1..0
  <2>1. Numbers(out[s], Len(out[s])) = 1..0
    BY <1>5, OnlyFinHasNoData
  <2>2. ws = "up" => Numbers(out'[s], Len(out'[s])) = Numbers(out[s], Len(out[s]))
    <3> SUFFICES ASSUME ws = "up"
                 PROVE  Numbers(out'[s], Len(out'[s])) = Numbers(out[s], Len(out[s]))
      OBVIOUS
    <3>1. m.type # "DATA" /\ m \in Msg /\ out'[s] = Append(out[s], m)
      BY <1>7
    <3>2. Numbers(Append(out[s], m), Len(Append(out[s], m))) = Numbers(out[s], Len(out[s]))
      BY <1>5, <3>1, NumbersAppended
    <3> QED BY <3>1, <3>2
  <2> QED BY <2>1, <2>2
<1>11. ws = "up" /\ t = "OK" => Says(out'[s], "OK")
  <2> SUFFICES ASSUME ws = "up", t = "OK" PROVE Says(out'[s], "OK")
    OBVIOUS
  <2>1. m \in Msg /\ m.type = "OK" /\ out'[s] = Append(out[s], m)
    BY <1>7
  <2>2. Says(Append(out[s], m), "OK")
    BY <1>5, <2>1, SaysAppended
  <2> QED BY <2>1, <2>2
<1>12. /\ \A d \in Conns : d # c => relay'[d] = relay[d]
       /\ t = "ERR" => relay'[c] = "none"
  BY <1>1, <1>6 DEF StartRelay, TypeOK
<1>13. ASSUME NEW d \in Conns
       PROVE  /\ st'[d] = "connecting" => OnlyFin(out'[csid'[d]])
              /\ relay'[d] = "none" => taken'[d] = 0
              /\ ws' = "up" /\ csid'[d] # None =>
                    Numbers(out'[csid'[d]], Len(out'[csid'[d]])) = 1..taken'[d]
              /\ ws' = "up" /\ relay'[d] # "none" => Says(out'[csid'[d]], "OK")
  <2>1. CASE d = c
    BY <1>2, <1>6, <1>10, <1>11, <1>12, <2>1 DEF s
  <2>2. CASE d # c
    <3>1. /\ st[d] = "connecting" => csid[d] \in Sids
          /\ relay[d] # "none" => csid[d] \in Sids
          /\ csid[d] # None => csid[d] \in Sids
      BY NamedConn
    <3>2. csid[d] \in Sids => out'[csid[d]] = out[csid[d]]
      BY <1>3, <1>4, <2>2 DEF s
    <3> QED BY <1>2, <1>12, <2>2, <3>1, <3>2 DEF TellInv
  <2> QED BY <2>1, <2>2
<1> QED BY <1>4, <1>9, <1>13 DEF TellInv, StreamWellFormed, s

\* The next chunk on a connection's own stream.
LEMMA RelayDataTells ==
    ASSUME TypeInv, OneOpenPerId, TellInv, StreamWellFormed, NEW c \in Conns, RelayData(c)
    PROVE  TellInv' /\ StreamWellFormed'
<1> USE NoneIsNoName DEF net, server, conn, client, TypeInv
<1>1. /\ UNCHANGED <<inbox, ws, ready, csid, opened, st>>
      /\ relay[c] = "run" /\ relay'[c] # "none" /\ taken'[c] = taken[c] + 1 /\ taken[c] \in Nat
      /\ \A d \in Conns : d # c => relay'[d] = relay[d] /\ taken'[d] = taken[d]
      /\ out' = Sent(csid[c], MkMsg("DATA", taken[c] + 1))
  BY DEF RelayData, TypeOK
<1>2. /\ csid[c] \in Sids /\ csid[c] \in opened /\ csid[c] # None
      /\ \A i \in DOMAIN inbox : IsNew(inbox[i]) => inbox[i].sid # csid[c]
      /\ \A i \in DOMAIN ready : IsNew(ready[i]) => ready[i].sid # csid[c]
      /\ \A d \in Conns : d # c => csid[d] # csid[c]
  <2>1. csid[c] # None
    BY <1>1 DEF ConnNamed
  <2> QED BY <2>1, OwnStream
<1>3. st[c] # "connecting"
  BY <1>1 DEF ConnNamed
<1> DEFINE s == csid[c]
           k == taken[c] + 1
           m == MkMsg("DATA", k)
<1>4. /\ \A x \in Sids : x # s => out'[x] = out[x]
      /\ \A x \in Sids : x \notin opened' => OnlyFin(out'[x])
      /\ \A i \in DOMAIN inbox' : IsNew(inbox'[i]) => OnlyFin(out'[inbox'[i].sid])
      /\ \A i \in DOMAIN ready' : IsNew(ready'[i]) => OnlyFin(out'[ready'[i].sid])
  <2>1. /\ \A i \in DOMAIN ready' : IsNew(ready'[i]) => ready'[i].sid # csid[c]
        /\ UNCHANGED <<inbox, ws, opened>> /\ k \in Nat
    BY <1>1, <1>2
  <2> QED BY <1>1, <1>2, <2>1, OthersTell
<1>5. ws = "up" => /\ out'[s] = Append(out[s], m) /\ m \in Msg /\ m.type = "DATA" /\ m.n = k
                   /\ out[s] \in Seq(Msg)
  <2>1. k \in Nat
    BY <1>1
  <2> QED BY <1>1, <1>2, <2>1, OnOneStream
<1>6. ws # "up" => out' = out
  BY <1>1 DEF Sent
<1>7. ws = "up" => /\ Says(out[s], "OK")
                   /\ Numbers(out[s], Len(out[s])) = 1..(k - 1)
  BY <1>1, <1>2 DEF TellInv
<1>8. k # 0 /\ WellFormed(out[s]) /\ (1..(k - 1)) \cup {k} = 1..k
  BY <1>1, <1>2 DEF StreamWellFormed
<1>9. k = taken'[c]
  BY <1>1
<1> HIDE DEF m, s, k
<1>10. WellFormed(out'[s])
  BY <1>5, <1>6, <1>7, <1>8, FormKept
<1>11. ws = "up" => Numbers(out'[s], Len(out'[s])) = 1..k
  <2> SUFFICES ASSUME ws = "up" PROVE Numbers(out'[s], Len(out'[s])) = 1..k
    OBVIOUS
  <2>1. /\ out'[s] = Append(out[s], m) /\ m \in Msg /\ m.type = "DATA" /\ m.n = k
        /\ out[s] \in Seq(Msg)
    BY <1>5
  <2>2. Numbers(Append(out[s], m), Len(Append(out[s], m))) = Numbers(out[s], Len(out[s])) \cup {k}
    BY <2>1, NumbersAppended
  <2>3. Numbers(out[s], Len(out[s])) = 1..(k - 1)
    BY <1>7
  <2> QED BY <1>8, <2>1, <2>2, <2>3
<1>12. ws = "up" => Says(out'[s], "OK")
  <2> SUFFICES ASSUME ws = "up" PROVE Says(out'[s], "OK")
    OBVIOUS
  <2>1. m \in Msg /\ out[s] \in Seq(Msg) /\ out'[s] = Append(out[s], m)
    BY <1>5
  <2>2. Says(Append(out[s], m), "OK")
    BY <1>7, <2>1, SaysAppended
  <2> QED BY <2>1, <2>2
<1>13. ASSUME NEW d \in Conns
       PROVE  /\ st'[d] = "connecting" => OnlyFin(out'[csid'[d]])
              /\ relay'[d] = "none" => taken'[d] = 0
              /\ ws' = "up" /\ csid'[d] # None =>
                    Numbers(out'[csid'[d]], Len(out'[csid'[d]])) = 1..taken'[d]
              /\ ws' = "up" /\ relay'[d] # "none" => Says(out'[csid'[d]], "OK")
  <2>1. CASE d = c
    BY <1>1, <1>3, <1>9, <1>11, <1>12, <2>1 DEF s
  <2>2. CASE d # c
    <3>1. /\ st[d] = "connecting" => csid[d] \in Sids
          /\ relay[d] # "none" => csid[d] \in Sids
          /\ csid[d] # None => csid[d] \in Sids
      BY NamedConn
    <3>2. csid[d] \in Sids => out'[csid[d]] = out[csid[d]]
      BY <1>2, <1>4, <2>2 DEF s
    <3> QED BY <1>1, <2>2, <3>1, <3>2 DEF TellInv
  <2> QED BY <2>1, <2>2
<1> QED BY <1>4, <1>10, <1>13 DEF TellInv, StreamWellFormed, s

\* The steps of a started connection and of the DATA tasks, but for DATA sent.
LEMMA OthersQuiet ==
    ASSUME TypeInv, TypeOK', TellInv,
           \/ StartData
           \/ \E c \in Conns : Backend(c) \/ RelaySendsOn(c) \/ RelayFin(c) \/ RelayDies(c) \/ RelayCloses(c)
           \/ \E s \in Sids, c \in Conns : Drain(s, c)
    PROVE  TellInv' /\ Kept
<1> USE NoneIsNoName DEF net, server, conn, client, TypeInv
<1>1. /\ UNCHANGED <<inbox, ws, csid, opened, taken>>
      /\ ready' = ready \/ (ready # <<>> /\ ready' = Tail(ready))
  BY DEF StartData, Backend, BackendSends, BackendSendsOn, BackendEnds, RelaySendsOn, RelayFin, RelayDies, RelayCloses,
         Drain, DrainOk, DrainFails
<1>2. \A c \in Conns : /\ st'[c] = "connecting" => st[c] = "connecting"
                       /\ relay'[c] = "none" <=> relay[c] = "none"
  <2>1. CASE StartData \/ \E c \in Conns : Backend(c)
    BY <2>1 DEF StartData, Backend, BackendSends, BackendSendsOn, BackendEnds
  <2>2. ASSUME NEW d \in Conns, RelaySendsOn(d) \/ RelayFin(d) \/ RelayDies(d)
        PROVE  \A c \in Conns : /\ st'[c] = "connecting" => st[c] = "connecting"
                                /\ relay'[c] = "none" <=> relay[c] = "none"
    BY <2>2 DEF RelaySendsOn, RelayFin, RelayDies, TypeOK
  <2>3. ASSUME NEW d \in Conns, RelayCloses(d)
        PROVE  \A c \in Conns : /\ st'[c] = "connecting" => st[c] = "connecting"
                                /\ relay'[c] = "none" <=> relay[c] = "none"
    BY <2>3 DEF RelayCloses, HandleClose, TypeOK
  <2>4. ASSUME NEW s \in Sids, NEW d \in Conns, Drain(s, d)
        PROVE  \A c \in Conns : /\ st'[c] = "connecting" => st[c] = "connecting"
                                /\ relay'[c] = "none" <=> relay[c] = "none"
    BY <2>4 DEF Drain, DrainOk, DrainFails, HandleClose
  <2> QED BY <2>1, <2>2, <2>3, <2>4
<1>3. Kept
  <2>1. ASSUME NEW c \in Conns, RelayFin(c)
        PROVE  Kept
    <3>1. csid[c] \in Sids
      BY <2>1, NamedConn DEF RelayFin
    <3> QED BY <2>1, <3>1, FinKeeps DEF RelayFin
  <2>2. CASE UNCHANGED out
    BY <2>2, NothingKeeps
  <2> QED BY <2>1, <2>2 DEF StartData, Backend, BackendSends, BackendSendsOn, BackendEnds, RelaySendsOn, RelayDies,
             RelayCloses, Drain, DrainOk, DrainFails
<1>4. /\ \A i \in DOMAIN inbox' : IsNew(inbox'[i]) => OnlyFin(out[inbox'[i].sid])
      /\ \A i \in DOMAIN ready' : IsNew(ready'[i]) => OnlyFin(out[ready'[i].sid])
  <2>1. ready \in Seq(Frame) /\ ready' \in Seq(Frame)
    BY DEF TypeOK
  <2>2. \A i \in DOMAIN ready : IsNew(ready[i]) => OnlyFin(out[ready[i].sid])
    BY DEF TellInv
  <2>3. \A i \in DOMAIN inbox' : IsNew(inbox'[i]) => OnlyFin(out[inbox'[i].sid])
    BY <1>1 DEF TellInv
  <2> QED BY <1>1, <2>1, <2>2, <2>3, QueueTells
<1>5. inbox' \in Seq(Frame) /\ ready' \in Seq(Frame) /\ opened' \subseteq Sids
  BY DEF TypeOK
<1>6. TellInv'
  BY <1>1, <1>2, <1>3, <1>4, <1>5, QuietTells
<1> QED BY <1>3, <1>6

\* For disciplined clients and fresh stream ids: the inductive invariant of
\* what the server tells on the streams.
THEOREM TellInvariant ==
    ASSUME Disciplined, ~ReuseIds
    PROVE  Spec => [](TellInv /\ StreamWellFormed)
<1>1. Init => TellInv /\ StreamWellFormed
  BY DEF Init, TellInv, OnlyFin, StreamWellFormed, WellFormed, Numbers, Says
<1>2. TypeInv /\ TypeInv' /\ FreshInv /\ TellInv /\ StreamWellFormed /\ [Next]_vars
         => (TellInv /\ StreamWellFormed)'
  <2> SUFFICES ASSUME TypeInv, TypeInv', FreshInv, TellInv, StreamWellFormed, [Next]_vars
               PROVE  TellInv' /\ StreamWellFormed'
    OBVIOUS
  <2>0. TypeOK' /\ OneOpenPerId /\ FirstIsNew
    BY DEF TypeInv, FreshInv
  <2>1. ASSUME Kept PROVE StreamWellFormed'
    BY <2>1 DEF Kept, StreamWellFormed
  <2>2. CASE Client
    <3>1. UNCHANGED out
      BY <2>2 DEF Client, ClientOpen, ClientData, ClientEnds, ClientText, ClientLeaves, ClientSends
    <3> QED BY <2>0, <2>1, <2>2, <3>1, ClientTells, NothingKeeps
  <2>3. CASE Handler
    BY <2>0, <2>1, <2>3, HandlerTells
  <2>4. CASE StartNew
    BY <2>0, <2>4, StartNewTells
  <2>5. ASSUME NEW c \in Conns, Connect(c) \/ RelayData(c)
        PROVE  TellInv' /\ StreamWellFormed'
    BY <2>0, <2>5, ConnectTells, RelayDataTells
  <2>6. CASE \/ StartData
             \/ \E c \in Conns : Backend(c) \/ RelaySendsOn(c) \/ RelayFin(c) \/ RelayDies(c) \/ RelayCloses(c)
             \/ \E s \in Sids, c \in Conns : Drain(s, c)
    BY <2>0, <2>1, <2>6, OthersQuiet
  <2>7. CASE UNCHANGED vars
    BY <2>7 DEF vars, net, server, conn, client, TellInv, StreamWellFormed
  <2> QED BY <2>2, <2>3, <2>4, <2>5, <2>6, <2>7 DEF Next, Tasks, Relay
<1> QED BY <1>1, <1>2, TypeCorrect, FreshInvariant, PTL DEF Spec

\* Whatever the interleaving of read loop, tasks and relays, a client sees on a
\* stream one status at most, DATA only after OK, and the backend's chunks in
\* order without a gap.
THEOREM StreamsWellFormed ==
    ASSUME Disciplined, ~ReuseIds
    PROVE  Spec => []StreamWellFormed
  BY TellInvariant, PTL

-----------------------------------------------------------------------------
(* Why DATA is dropped, for disciplined clients and fresh stream ids. *)

\* DATA is sent behind an OK; only an ended stream is closed by the read loop;
\* a suspended DATA task holds its stream's writer; and an answered stream is
\* without a writer only when it is over.
ServeInv ==
    /\ \A i \in DOMAIN inbox : inbox[i].type = "DATA" => Says(out[inbox[i].sid], "OK")
    /\ \A i \in DOMAIN ready : ready[i].type = "DATA" => Says(out[ready[i].sid], "OK")
    /\ \A i \in DOMAIN inbox : inbox[i].type \in {"CLOSE", "FIN"} => inbox[i].sid \in ended
    /\ ended \subseteq opened
    /\ \A s \in Sids, c \in Conns : <<s, c>> \in draining => csid[c] = s
    /\ \A s \in Sids : Says(out[s], "OK") /\ streams[s] = None => Over(s)

LEMMA FromQueue ==
    ASSUME NEW q \in Seq(Frame), NEW r, r = q \/ (q # <<>> /\ r = Tail(q))
    PROVE  \A i \in DOMAIN r : \E j \in DOMAIN q : r[i] = q[j]
<1>1. CASE r = q
  BY <1>1
<1>2. CASE q # <<>> /\ r = Tail(q)
  BY <1>2, TailInSeq
<1> QED BY <1>1, <1>2

LEMMA FromAppend ==
    ASSUME NEW q \in Seq(Frame), NEW f \in Frame, NEW r, r = Append(q, f)
    PROVE  \A i \in DOMAIN r : r[i] = f \/ \E j \in DOMAIN q : r[i] = q[j]
  BY AppendInSeq

\* A step sends at most one message, and OK only at the end of a connect.
LEMMA OneMessage ==
    ASSUME TypeInv, Next
    PROVE  \/ out' = out
           \/ \E s \in Sids, t \in {"OK", "ERR", "DATA", "FIN"}, k \in Nat :
                 /\ out' = Sent(s, MkMsg(t, k))
                 /\ t = "OK" => \E c \in Conns : ConnectOk(c) /\ csid[c] = s
<1> DEFINE One == \/ out' = out
                  \/ \E s \in Sids, t \in {"OK", "ERR", "DATA", "FIN"}, k \in Nat :
                        /\ out' = Sent(s, MkMsg(t, k))
                        /\ t = "OK" => \E c \in Conns : ConnectOk(c) /\ csid[c] = s
<1>1. ASSUME NEW s \in Sids, NEW t \in {"ERR", "DATA", "FIN"}, NEW k \in Nat,
             out' = Sent(s, MkMsg(t, k))
      PROVE  One
  BY <1>1
<1>2. CASE Client
  BY <1>2 DEF Client, ClientOpen, ClientData, ClientEnds, ClientText, ClientLeaves, ClientSends
<1>3. CASE Handler
  <2>1. inbox # <<>> => Head(inbox).sid \in Sids
    BY HeadFrame DEF TypeInv, TypeOK
  <2>2. CASE ReadFin
    BY <1>1, <2>1, <2>2 DEF ReadFin
  <2> QED BY <1>3, <2>2 DEF Handler, ReadLoop, FirstFrame, NoSession, ReadSpawn, ReadSkip,
             ReadClose, ReadEnds
<1>4. CASE Tasks
  <2>1. ready # <<>> => Head(ready).sid \in Sids
    BY HeadFrame DEF TypeInv, TypeOK
  <2>2. CASE StartNew /\ out' # out
    BY <1>1, <2>1, <2>2 DEF StartNew
  <2> QED BY <1>4, <2>2 DEF Tasks, StartData
<1>5. ASSUME NEW c \in Conns, Connect(c)
      PROVE  One
  <2>1. csid[c] \in Sids
    BY <1>5, NamedConn DEF Connect, ConnectOk, ConnectFails
  <2>2. CASE ConnectOk(c)
    <3>1. out' = Sent(csid[c], MkMsg("OK", 0))
      BY <2>2 DEF ConnectOk
    <3> QED BY <2>1, <2>2, <3>1
  <2>3. CASE ConnectFails(c)
    <3>1. out' = Sent(csid[c], MkMsg("ERR", 0))
      BY <2>3 DEF ConnectFails
    <3> QED BY <1>1, <2>1, <3>1
  <2> QED BY <1>5, <2>2, <2>3 DEF Connect
<1>6. ASSUME NEW c \in Conns, Backend(c) \/ Relay(c)
      PROVE  One
  <2>1. relay[c] = "run" => csid[c] \in Sids
    BY NamedConn
  <2>2. taken[c] + 1 \in Nat
    BY DEF TypeInv, TypeOK
  <2>3. CASE RelayData(c)
    BY <1>1, <2>1, <2>2, <2>3 DEF RelayData
  <2>4. CASE RelayFin(c)
    BY <1>1, <2>1, <2>4 DEF RelayFin
  <2> QED BY <1>6, <2>3, <2>4 DEF Backend, BackendSends, BackendSendsOn, BackendEnds, Relay, RelaySendsOn, RelayDies, RelayCloses
<1>7. ASSUME NEW s \in Sids, NEW c \in Conns, Drain(s, c)
      PROVE  One
  BY <1>7 DEF Drain, DrainOk, DrainFails
<1> QED BY <1>2, <1>3, <1>4, <1>5, <1>6, <1>7 DEF Next

\* A status once seen stays, and OK comes only from a connect that succeeds.
LEMMA SeenStays ==
    ASSUME TypeInv, Next, NEW s \in Sids
    PROVE  /\ Says(out[s], "OK") => Says(out'[s], "OK")
           /\ Says(out'[s], "OK") => \/ Says(out[s], "OK")
                                \/ \E c \in Conns : ConnectOk(c) /\ csid[c] = s
<1>1. CASE out' = out
  BY <1>1 DEF Says
<1>2. ASSUME NEW x \in Sids, NEW t \in {"OK", "ERR", "DATA", "FIN"}, NEW k \in Nat,
             out' = Sent(x, MkMsg(t, k)), ws = "up",
             t = "OK" => \E c \in Conns : ConnectOk(c) /\ csid[c] = x
      PROVE  /\ Says(out[s], "OK") => Says(out'[s], "OK")
             /\ Says(out'[s], "OK") => \/ Says(out[s], "OK")
                                  \/ \E c \in Conns : ConnectOk(c) /\ csid[c] = s
  <2> DEFINE m == MkMsg(t, k)
  <2>1. /\ out[x] \in Seq(Msg) /\ m \in Msg /\ m.type = t
        /\ out'[x] = Append(out[x], m)
        /\ \A y \in Sids : y # x => out'[y] = out[y]
    BY <1>2, OnOneStream DEF TypeInv
  <2> HIDE DEF m
  <2>2. CASE s # x
    BY <2>1, <2>2 DEF Says
  <2>3. CASE s = x
    <3>1. /\ \A i \in DOMAIN out[s] : out'[s][i] = out[s][i]
          /\ out'[s][Len(out[s]) + 1] = m
          /\ DOMAIN out'[s] = DOMAIN out[s] \cup {Len(out[s]) + 1}
      BY <2>1, <2>3, AppendInSeq
    <3> QED BY <1>2, <2>1, <2>3, <3>1 DEF Says
  <2> QED BY <2>2, <2>3
<1>3. ws # "up" => \A x \in Sids, t \in {"OK", "ERR", "DATA", "FIN"}, k \in Nat :
                      Sent(x, MkMsg(t, k)) = out
  BY DEF Sent
<1> QED BY <1>1, <1>2, <1>3, OneMessage

\* What ends a stream is not undone.
LEMMA OverStays ==
    ASSUME ~ReuseIds, TypeInv, ended \subseteq opened, Next, NEW s \in Sids, Over(s)
    PROVE  Over(s)'
<1> USE NoneIsNoName DEF net, server, conn, client
<1>1. ended \subseteq ended'
  <2>1. CASE UNCHANGED ended
    BY <2>1
  <2>2. CASE Client
    BY <2>2 DEF Client, ClientOpen, ClientData, ClientEnds, ClientText, ClientLeaves, ClientSends
  <2> QED BY <2>1, <2>2 DEF Next, Handler, ReadLoop, FirstFrame, NoSession, ReadSpawn,
             ReadSkip, ReadClose, ReadFin, ReadEnds, Tasks, StartNew, StartData, Connect,
             ConnectOk, ConnectFails, Backend, BackendSends, BackendSendsOn, BackendEnds, Relay, RelayData, RelaySendsOn,
             RelayFin, RelayDies, RelayCloses, Drain, DrainOk, DrainFails
<1>2. phase = "done" => phase' = "done"
  BY DEF Next, Client, ClientOpen, ClientData, ClientEnds, ClientText, ClientLeaves,
         ClientSends, Handler, ReadLoop, FirstFrame, NoSession, ReadSpawn, ReadSkip, ReadClose,
         ReadFin, ReadEnds, EndSession, Tasks, StartNew, StartData, Connect, ConnectOk,
         ConnectFails, Backend, BackendSends, BackendSendsOn, BackendEnds, Relay, RelayData, RelaySendsOn, RelayFin,
         RelayDies, RelayCloses, Drain, DrainOk, DrainFails
<1>3. ASSUME NEW c \in Conns, csid[c] = s, relay[c] \in {"closing", "done"} \/ Lost(c)
      PROVE  csid'[c] = s /\ (relay'[c] \in {"closing", "done"} \/ Lost(c)')
  <2>1. st[c] # "none" /\ (relay[c] # "none" => st[c] # "connecting")
    BY <1>3 DEF TypeInv, ConnNamed
  <2>2. csid'[c] = csid[c]
    <3>1. CASE UNCHANGED csid
      BY <3>1
    <3>2. CASE StartNew
      BY <2>1, <3>2 DEF StartNew, Connecting, TypeInv, TypeOK
    <3> QED BY <3>1, <3>2 DEF Next, Client, ClientOpen, ClientData, ClientEnds, ClientText,
               ClientLeaves, ClientSends, Handler, ReadLoop, FirstFrame, NoSession, ReadSpawn,
               ReadSkip, ReadClose, ReadFin, ReadEnds, Tasks, StartData, Connect, ConnectOk,
               ConnectFails, Backend, BackendSends, BackendSendsOn, BackendEnds, Relay, RelayData, RelaySendsOn, RelayFin,
               RelayDies, RelayCloses, Drain, DrainOk, DrainFails
  <2>3. relay[c] \in {"closing", "done"} => relay'[c] \in {"closing", "done"}
    <3>1. CASE UNCHANGED relay
      BY <3>1
    <3>2. ASSUME NEW d \in Conns, ConnectOk(d) \/ Relay(d), relay[c] \in {"closing", "done"}
          PROVE  relay'[c] \in {"closing", "done"}
      <4>1. CASE d = c
        BY <2>1, <3>2, <4>1 DEF ConnectOk, Relay, RelayData, RelaySendsOn, RelayFin, RelayDies, RelayCloses,
               TypeInv, TypeOK
      <4>2. CASE d # c
        BY <3>2, <4>2 DEF ConnectOk, StartRelay, Relay, RelayData, RelaySendsOn, RelayFin, RelayDies,
               RelayCloses, TypeInv, TypeOK
      <4> QED BY <4>1, <4>2
    <3> QED BY <3>1, <3>2 DEF Next, Client, ClientOpen, ClientData, ClientEnds, ClientText,
               ClientLeaves, ClientSends, Handler, ReadLoop, FirstFrame, NoSession, ReadSpawn,
               ReadSkip, ReadClose, ReadFin, ReadEnds, Tasks, StartNew, StartData, Connect,
               ConnectFails, Backend, BackendSends, BackendSendsOn, BackendEnds, Drain, DrainOk, DrainFails
  <2>4. Lost(c) => Lost(c)'
    <3>1. CASE UNCHANGED peer
      BY <3>1 DEF Lost
    <3>2. ASSUME NEW d \in Conns, Backend(d), Lost(c)
          PROVE  Lost(c)'
      BY <3>2 DEF Backend, BackendSends, BackendSendsOn, BackendEnds, Lost, TypeInv, TypeOK
    <3> QED BY <3>1, <3>2 DEF Next, Client, ClientOpen, ClientData, ClientEnds, ClientText,
               ClientLeaves, ClientSends, Handler, ReadLoop, FirstFrame, NoSession, ReadSpawn,
               ReadSkip, ReadClose, ReadFin, ReadEnds, Tasks, StartNew, StartData, Connect,
               ConnectOk, ConnectFails, Relay, RelayData, RelaySendsOn, RelayFin, RelayDies, RelayCloses,
               Drain, DrainOk, DrainFails
  <2> QED BY <1>3, <2>2, <2>3, <2>4
<1> QED BY <1>1, <1>2, <1>3 DEF Over

\* The queues: who sends what, and that moving a frame changes nothing.
LEMMA QueuesServe ==
    ASSUME Disciplined, ~ReuseIds, TypeInv, FirstIsNew, ServeInv, Next
    PROVE  /\ \A i \in DOMAIN inbox' : inbox'[i].type = "DATA" => Says(out'[inbox'[i].sid], "OK")
           /\ \A i \in DOMAIN ready' : ready'[i].type = "DATA" => Says(out'[ready'[i].sid], "OK")
           /\ \A i \in DOMAIN inbox' :
                 inbox'[i].type \in {"CLOSE", "FIN"} => inbox'[i].sid \in ended'
           /\ ended' \subseteq opened'
<1> USE DEF net, server, conn, client
<1> DEFINE Good(f) == f.type = "DATA" => Says(out[f.sid], "OK")
           Shut(f) == f.type \in {"CLOSE", "FIN"} => f.sid \in ended'
<1>0. inbox \in Seq(Frame) /\ ready \in Seq(Frame)
  BY DEF TypeInv, TypeOK
<1>1. ended \subseteq ended' /\ ended' \subseteq opened'
  <2>1. CASE UNCHANGED <<ended, opened>>
    BY <2>1 DEF ServeInv
  <2>2. CASE Client
    BY <2>2 DEF Client, ClientOpen, ClientData, ClientEnds, ClientText, ClientLeaves,
           ClientSends, ServeInv
  <2> QED BY <2>1, <2>2 DEF Next, Handler, ReadLoop, FirstFrame, NoSession, ReadSpawn,
             ReadSkip, ReadClose, ReadFin, ReadEnds, Tasks, StartNew, StartData, Connect,
             ConnectOk, ConnectFails, Backend, BackendSends, BackendSendsOn, BackendEnds, Relay, RelayData, RelaySendsOn,
             RelayFin, RelayDies, RelayCloses, Drain, DrainOk, DrainFails
<1>2. ASSUME NEW q \in Seq(Frame), NEW i \in DOMAIN q, Good(q[i])
      PROVE  q[i].type = "DATA" => Says(out'[q[i].sid], "OK")
  BY <1>2, SidsKnown, SeenStays
<1>3. /\ \A i \in DOMAIN inbox : Good(inbox[i]) /\ Shut(inbox[i])
      /\ \A i \in DOMAIN ready : Good(ready[i])
  BY <1>1 DEF ServeInv
<1>4. CASE Client
  <2>1. PICK f \in Frame : inbox' = Append(inbox, f) /\ Good(f) /\ Shut(f)
    <3>1. ASSUME NEW s \in Sids, NEW k \in {0, 1}, ClientOpen(s, k)
          PROVE  \E f \in Frame : inbox' = Append(inbox, f) /\ Good(f) /\ Shut(f)
      BY <3>1, FrameMade DEF FrameTypes, ClientOpen, ClientSends
    <3>2. ASSUME NEW s \in Sids, NEW tl \in Tails, ClientData(s, tl)
          PROVE  \E f \in Frame : inbox' = Append(inbox, f) /\ Good(f) /\ Shut(f)
      <4>1. nsent[s] + 1 \in Nat /\ tl \in {"plain", "padlike"}
        BY TailsKnown DEF TypeInv, TypeOK
      <4>2. /\ MkFrame("DATA", s, nsent[s] + 1, tl) \in Frame
            /\ MkFrame("DATA", s, nsent[s] + 1, tl).type = "DATA"
            /\ MkFrame("DATA", s, nsent[s] + 1, tl).sid = s
        BY <4>1, FrameMade DEF FrameTypes
      <4> QED BY <3>2, <4>2 DEF ClientData, ClientSends, StatusSeen, Says
    <3>3. ASSUME NEW s \in Sids, NEW t \in {"CLOSE", "FIN"}, ClientEnds(s, t)
          PROVE  \E f \in Frame : inbox' = Append(inbox, f) /\ Good(f) /\ Shut(f)
      <4>1. /\ MkFrame(t, s, 0, "plain") \in Frame
            /\ MkFrame(t, s, 0, "plain").type = t /\ MkFrame(t, s, 0, "plain").sid = s
        BY FrameMade DEF FrameTypes
      <4> QED BY <3>3, <4>1 DEF ClientEnds, ClientSends
    <3>4. ASSUME NEW s \in Sids, ClientText(s) \/ ClientLeaves(s)
          PROVE  \E f \in Frame : inbox' = Append(inbox, f) /\ Good(f) /\ Shut(f)
      BY <3>4, FrameMade DEF FrameTypes, ClientText, ClientLeaves, ClientSends
    <3> QED BY <1>4, <3>1, <3>2, <3>3, <3>4 DEF Client
  <2>2. ready' = ready
    BY <1>4 DEF Client, ClientOpen, ClientData, ClientEnds, ClientText, ClientLeaves, ClientSends
  <2>3. inbox' \in Seq(Frame) /\ \A i \in DOMAIN inbox' : Good(inbox'[i]) /\ Shut(inbox'[i])
    <3>1. \A i \in DOMAIN inbox' : inbox'[i] = f \/ \E j \in DOMAIN inbox : inbox'[i] = inbox[j]
      BY <1>0, <2>1, FromAppend
    <3> QED BY <1>0, <1>3, <2>1, <3>1
  <2> QED BY <1>0, <1>1, <1>2, <1>3, <2>2, <2>3
<1>5. CASE ~Client
  <2>1. inbox' = inbox \/ (inbox # <<>> /\ inbox' = Tail(inbox))
    BY <1>5 DEF Next, Handler, ReadLoop, FirstFrame, NoSession, ReadSpawn, ReadSkip,
           ReadClose, ReadFin, ReadEnds, Tasks, StartNew, StartData, Connect, ConnectOk,
           ConnectFails, Backend, BackendSends, BackendSendsOn, BackendEnds, Relay, RelayData, RelaySendsOn, RelayFin,
           RelayDies, RelayCloses, Drain, DrainOk, DrainFails
  <2>2. \A i \in DOMAIN inbox' : Good(inbox'[i]) /\ Shut(inbox'[i])
    <3>1. \A i \in DOMAIN inbox' : \E j \in DOMAIN inbox : inbox'[i] = inbox[j]
      BY <1>0, <2>1, FromQueue
    <3> QED BY <1>3, <3>1
  <2>3. inbox' \in Seq(Frame)
    BY <1>0, <2>1, TailInSeq
  <2>4. \/ ready' = ready \/ (ready # <<>> /\ ready' = Tail(ready))
        \/ \E f \in Frame : ready' = Append(ready, f) /\ Good(f)
    <3>1. CASE ready' = ready \/ (ready # <<>> /\ ready' = Tail(ready))
      BY <3>1
    <3>2. CASE ReadSpawn
      <4>1. Head(inbox) = inbox[1] /\ 1 \in DOMAIN inbox /\ Head(inbox) \in Frame
        BY <1>0, <3>2, HeadFrame DEF ReadSpawn
      <4> QED BY <1>3, <3>2, <4>1 DEF ReadSpawn
    <3>3. CASE FirstFrame /\ ~UNCHANGED ready
      <4>1. Head(inbox).type = "NEW_STREAM" /\ inbox # <<>>
        BY <3>3 DEF FirstFrame, FirstIsNew
      <4>2. ready' = Append(ready, MkFrame("NEW_STREAM", Head(inbox).sid, Head(inbox).n, "plain"))
        BY <3>3, <4>1 DEF FirstFrame
      <4>3. Head(inbox).sid \in Sids /\ Head(inbox).n \in Nat
        BY <1>0, <4>1, HeadFrame
      <4> QED BY <4>2, <4>3, FrameMade DEF FrameTypes
    <3> QED BY <1>5, <3>1, <3>2, <3>3 DEF Next, Handler, ReadLoop, FirstFrame, NoSession,
           ReadSkip, ReadClose, ReadFin, ReadEnds, Tasks, StartNew, StartData, Connect,
           ConnectOk, ConnectFails, Backend, BackendSends, BackendSendsOn, BackendEnds, Relay, RelayData, RelaySendsOn,
           RelayFin, RelayDies, RelayCloses, Drain, DrainOk, DrainFails
  <2>5. ready' \in Seq(Frame) /\ \A i \in DOMAIN ready' : Good(ready'[i])
    <3>1. CASE ready' = ready \/ (ready # <<>> /\ ready' = Tail(ready))
      <4>1. \A i \in DOMAIN ready' : \E j \in DOMAIN ready : ready'[i] = ready[j]
        BY <1>0, <3>1, FromQueue
      <4>2. ready' \in Seq(Frame)
        BY <1>0, <3>1, TailInSeq
      <4> QED BY <1>3, <4>1, <4>2
    <3>2. ASSUME NEW f \in Frame, ready' = Append(ready, f), Good(f)
          PROVE  ready' \in Seq(Frame) /\ \A i \in DOMAIN ready' : Good(ready'[i])
      <4>1. \A i \in DOMAIN ready' : ready'[i] = f \/ \E j \in DOMAIN ready : ready'[i] = ready[j]
        BY <1>0, <3>2, FromAppend
      <4> QED BY <1>0, <1>3, <3>2, <4>1
    <3> QED BY <2>4, <3>1, <3>2
  <2> QED BY <1>1, <1>2, <2>2, <2>3, <2>5
<1> QED BY <1>4, <1>5

\* A DATA task in drain() holds the writer of its own stream.
LEMMA DrainsServe ==
    ASSUME TypeInv, TableMatches, ServeInv, Next
    PROVE  \A s \in Sids, c \in Conns : <<s, c>> \in draining' => csid'[c] = s
<1> USE NoneIsNoName DEF net, server, conn, client
<1>1. CASE draining' \subseteq draining /\ csid' = csid
  BY <1>1 DEF ServeInv
<1>2. CASE StartNew
  <2>1. draining' = draining
    BY <1>2 DEF StartNew
  <2>2. \A c \in Conns : csid[c] # None => csid'[c] = csid[c]
    BY <1>2 DEF StartNew, Connecting, TypeInv, TypeOK, ConnNamed
  <2> QED BY <2>1, <2>2 DEF ServeInv
<1>3. CASE StartData
  <2> DEFINE x == Head(ready).sid
  <2>1. x \in Sids /\ csid' = csid
    BY <1>3, HeadFrame DEF StartData, TypeInv, TypeOK
  <2>2. \A p \in draining' : p \in draining \/ (p = <<x, streams[x]>> /\ streams[x] # None)
    BY <1>3 DEF StartData
  <2>3. streams[x] # None => csid[streams[x]] = x
    BY <2>1 DEF TableMatches
  <2> HIDE DEF x
  <2> QED BY <2>1, <2>2, <2>3 DEF ServeInv
<1> QED BY <1>1, <1>2, <1>3 DEF Next, Client, ClientOpen, ClientData, ClientEnds, ClientText,
         ClientLeaves, ClientSends, Handler, ReadLoop, FirstFrame, NoSession, ReadSpawn,
         ReadSkip, ReadClose, ReadFin, ReadEnds, Tasks, Connect, ConnectOk, ConnectFails,
         Backend, BackendSends, BackendSendsOn, BackendEnds, Relay, RelayData, RelaySendsOn, RelayFin, RelayDies,
         RelayCloses, Drain, DrainOk, DrainFails

\* Whoever takes a stream's writer out of the table has a reason.
LEMMA TableServes ==
    ASSUME Disciplined, ~ReuseIds, TypeInv, FreshInv, ServeInv, Next,
           NEW s \in Sids, Says(out'[s], "OK"), streams'[s] = None
    PROVE  Over(s)'
<1> USE NoneIsNoName DEF net, server, conn, client
<1>1. ended \subseteq opened
  BY DEF ServeInv
<1>2. ASSUME NEW c \in Conns, ConnectOk(c)
      PROVE  csid[c] # s
  BY <1>2 DEF ConnectOk, Register, TypeInv, TypeOK
<1>3. Says(out[s], "OK")
  BY <1>2, SeenStays
<1>4. CASE streams[s] = None
  <2>1. Over(s)
    BY <1>3, <1>4 DEF ServeInv
  <2> QED BY <1>1, <2>1, OverStays
<1>5. CASE streams[s] # None
  <2>0. streams[s] \in Conns /\ csid[streams[s]] = s /\ st[streams[s]] = "open"
    BY <1>5 DEF FreshInv, TableMatches, TypeInv, TypeOK
  <2>1. ASSUME NEW x \in Sids, HandleClose(x)
        PROVE  x = s
    BY <1>5, <2>1 DEF HandleClose
  <2>2. CASE ReadClose \/ ReadFin
    <3>1. inbox # <<>> /\ HandleClose(Head(inbox).sid) /\ Head(inbox).type \in {"CLOSE", "FIN"}
          /\ ended' = ended
      BY <2>2 DEF ReadClose, ReadFin
    <3>2. Head(inbox) = inbox[1] /\ 1 \in DOMAIN inbox /\ Head(inbox).sid \in Sids
      BY <3>1, HeadFrame DEF TypeInv, TypeOK
    <3>3. Head(inbox).sid \in ended
      BY <3>1, <3>2 DEF ServeInv
    <3> QED BY <2>1, <3>1, <3>2, <3>3 DEF Over
  <2>3. CASE ReadEnds
    BY <2>3 DEF ReadEnds, EndSession, Over
  <2>4. ASSUME NEW c \in Conns, RelayCloses(c)
        PROVE  Over(s)'
    <3>1. csid[c] \in Sids /\ HandleClose(csid[c]) /\ relay'[c] = "done" /\ csid' = csid
      BY <2>4, NamedConn DEF RelayCloses, TypeInv, TypeOK
    <3>2. csid[c] = s
      BY <2>1, <3>1
    <3> QED BY <3>1, <3>2 DEF Over
  <2>5. ASSUME NEW x \in Sids, NEW c \in Conns, DrainFails(x, c)
        PROVE  Over(s)'
    <3>1. x = s /\ <<s, c>> \in draining /\ (Lost(c) \/ st[c] = "closed")
      BY <2>1, <2>5 DEF DrainFails
    <3>2. csid[c] = s
      BY <3>1 DEF ServeInv
    <3>3. c = streams[s]
      BY <2>0, <3>2 DEF FreshInv, OneOpenPerId
    <3>4. Over(s)
      BY <2>0, <3>1, <3>2, <3>3 DEF Over
    <3> QED BY <1>1, <3>4, OverStays
  <2>6. ASSUME NEW c \in Conns, ConnectOk(c)
        PROVE  FALSE
    BY <1>2, <1>5, <2>6 DEF ConnectOk, Register
  <2>7. CASE UNCHANGED streams
    BY <1>5, <2>7
  <2> QED BY <2>2, <2>3, <2>4, <2>5, <2>6, <2>7 DEF Next, Client, ClientOpen, ClientData,
         ClientEnds, ClientText, ClientLeaves, ClientSends, Handler, ReadLoop, FirstFrame,
         NoSession, ReadSpawn, ReadSkip, Tasks, StartNew, StartData, Connect, ConnectFails,
         Backend, BackendSends, BackendSendsOn, BackendEnds, Relay, RelayData, RelaySendsOn, RelayFin, RelayDies, Drain,
         DrainOk
<1> QED BY <1>4, <1>5

\* For disciplined clients and fresh stream ids: the inductive invariant of
\* what happens to a stream that was answered.
THEOREM ServeInvariant ==
    ASSUME Disciplined, ~ReuseIds
    PROVE  Spec => []ServeInv
<1>1. Init => ServeInv
  BY DEF Init, ServeInv, Says
<1>2. TypeInv /\ FreshInv /\ ServeInv /\ [Next]_vars => ServeInv'
  <2> SUFFICES ASSUME TypeInv, FreshInv, ServeInv, [Next]_vars PROVE ServeInv'
    OBVIOUS
  <2>1. CASE Next
    <3>1. FirstIsNew /\ TableMatches
      BY DEF FreshInv
    <3>2. /\ \A i \in DOMAIN inbox' : inbox'[i].type = "DATA" => Says(out'[inbox'[i].sid], "OK")
          /\ \A i \in DOMAIN ready' : ready'[i].type = "DATA" => Says(out'[ready'[i].sid], "OK")
          /\ \A i \in DOMAIN inbox' :
                inbox'[i].type \in {"CLOSE", "FIN"} => inbox'[i].sid \in ended'
          /\ ended' \subseteq opened'
      BY <2>1, <3>1, QueuesServe
    <3>3. \A s \in Sids, c \in Conns : <<s, c>> \in draining' => csid'[c] = s
      BY <2>1, <3>1, DrainsServe
    <3>4. \A s \in Sids : Says(out'[s], "OK") /\ streams'[s] = None => Over(s)'
      BY <2>1, TableServes
    <3> QED BY <3>2, <3>3, <3>4 DEF ServeInv
  <2>2. CASE UNCHANGED vars
    BY <2>2 DEF vars, net, server, conn, client, ServeInv, Over, Lost
  <2> QED BY <2>1, <2>2
<1> QED BY <1>1, <1>2, TypeCorrect, FreshInvariant, PTL DEF Spec

\* DATA sent behind an OK reaches the backend's writer, whatever else runs, or
\* the stream is over (ended by the client, by its relay, by the loss of its
\* connection or by the end of the session), or the read loop has taken the
\* frame's payload for padding and its header with it.
THEOREM DataLossExplained ==
    ASSUME Disciplined, ~ReuseIds
    PROVE  Spec => DataLossIsExplained
<1>1. ASSUME TypeInv, FreshInv, ServeInv, [Next]_vars, DroppedByTask
      PROVE  Over(Head(ready).sid)
  <2> USE NoneIsNoName DEF net, server, conn, client, vars, DroppedByTask
  <2> DEFINE s == Head(ready).sid
             c == streams[s]
  <2>0. /\ ready \in Seq(Frame) /\ Len(ready) \in Nat /\ Len(ready') = Len(ready) - 1
        /\ Head(ready) = ready[1] /\ 1 \in DOMAIN ready /\ s \in Sids
    BY <1>1, TailInSeq, HeadFrame DEF TypeInv, TypeOK
  <2>1. ready' # ready
    BY <2>0
  <2>2. \A f : ready' # Append(ready, f)
    <3>1. \A f : Len(Append(ready, f)) = Len(ready) + 1
      BY <2>0
    <3> QED BY <2>0, <3>1
  <2>3. StartData
    BY <1>1, <2>1, <2>2 DEF Next, Client, ClientOpen, ClientData, ClientEnds, ClientText,
           ClientLeaves, ClientSends, Handler, ReadLoop, FirstFrame, NoSession, ReadSpawn,
           ReadSkip, ReadClose, ReadFin, ReadEnds, Tasks, StartNew, Connect, ConnectOk,
           ConnectFails, Backend, BackendSends, BackendSendsOn, BackendEnds, Relay, RelayData, RelaySendsOn, RelayFin,
           RelayDies, RelayCloses, Drain, DrainOk, DrainFails
  <2>4. Says(out[s], "OK")
    BY <1>1, <2>0 DEF ServeInv
  <2>5. CASE c = None
    BY <1>1, <2>0, <2>4, <2>5 DEF ServeInv
  <2>6. CASE c # None
    <3>1. c \in Conns /\ csid[c] = s
      <4>1. streams \in [Sids -> Conns \cup {None}] /\ TableMatches
        BY <1>1 DEF FreshInv, TypeInv, TypeOK
      <4>2. s \in Sids
        BY <2>0
      <4> HIDE DEF s
      <4> QED BY <2>6, <4>1, <4>2 DEF TableMatches
    <3>2. rx' = IF Lost(c) THEN rx ELSE [rx EXCEPT ![c] = Append(@, Head(ready).n)]
      BY <2>3, <2>6 DEF StartData
    <3>3. rx \in [Conns -> Seq(Nat)] /\ rx[c] \in Seq(Nat)
      BY <1>1, <3>1 DEF TypeInv, TypeOK
    <3>4. Append(rx[c], Head(ready).n) # rx[c]
      <4> HIDE DEF c
      <4>1. Len(Append(rx[c], Head(ready).n)) = Len(rx[c]) + 1 /\ Len(rx[c]) \in Nat
        BY <3>3
      <4> QED BY <4>1
    <3>5. Lost(c)
      BY <1>1, <3>1, <3>2, <3>3, <3>4
    <3> QED BY <3>1, <3>5 DEF Over
  <2> QED BY <2>5, <2>6
<1>2. ASSUME TypeInv, FreshInv, [Next]_vars, DroppedByLoop
      PROVE  Head(inbox).tail = "padlike"
  <2> USE DEF net, server, conn, client, vars
  <2>0. /\ inbox \in Seq(Frame) /\ Len(inbox) \in Nat /\ Len(inbox') = Len(inbox) - 1
        /\ ready \in Seq(Frame) /\ Len(ready) \in Nat
    BY <1>2, TailInSeq DEF DroppedByLoop, TypeInv, TypeOK
  <2>1. inbox' # inbox
    BY <2>0
  <2>2. \A f : inbox' # Append(inbox, f)
    <3>1. \A f : Len(Append(inbox, f)) = Len(inbox) + 1
      BY <2>0
    <3> QED BY <2>0, <3>1
  <2>3. ~Client
    BY <2>2 DEF Client, ClientOpen, ClientData, ClientEnds, ClientText, ClientLeaves,
           ClientSends
  <2>4. ~FirstFrame
    BY <1>2 DEF DroppedByLoop, FirstFrame, FreshInv, FirstIsNew
  <2>5. ~ReadSpawn
    <3>1. \A f : Len(Append(ready, f)) = Len(ready) + 1
      BY <2>0
    <3>2. \A f : Append(ready, f) # ready
      BY <2>0, <3>1
    <3> QED BY <1>2, <3>2 DEF DroppedByLoop, ReadSpawn
  <2>6. ~ReadClose /\ ~ReadFin /\ ~ReadEnds
    BY <1>2 DEF DroppedByLoop, ReadClose, ReadFin, ReadEnds
  <2>7. ReadSkip
    BY <1>2, <2>1, <2>3, <2>4, <2>5, <2>6 DEF Next, Handler, ReadLoop, NoSession, Tasks,
           StartNew, StartData, Connect, ConnectOk, ConnectFails, Backend, BackendSends,
           BackendSendsOn, BackendEnds, Relay, RelayData, RelaySendsOn, RelayFin, RelayDies,
           RelayCloses, Drain, DrainOk, DrainFails
  <2> QED BY <2>7 DEF ReadSkip
<1>3. TypeInv /\ FreshInv /\ ServeInv /\ [Next]_vars
         => [/\ DroppedByTask => Over(Head(ready).sid)
             /\ DroppedByLoop => Over(Head(inbox).sid) \/ Head(inbox).tail = "padlike"]_vars
  BY <1>1, <1>2
<1> QED BY <1>3, TypeCorrect, FreshInvariant, ServeInvariant, PTL DEF Spec, DataLossIsExplained
=============================================================================
