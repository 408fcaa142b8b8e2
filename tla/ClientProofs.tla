---------------------------- MODULE ClientProofs ----------------------------
(***************************************************************************)
(* What holds of the programs on the client's side whatever their bounds.   *)
(* Of the Android client's sessions of a key (VpnSession): the types, and   *)
(* whose tunnel may be up.  Of a connection of the Go client (GoClient):    *)
(* up to the end that the server has read of a target, no chunk is lost     *)
(* without a reset.  Of a run of the measuring tool (DpiProbe): what its    *)
(* records and its diagnosis are worth.  The programs share no state, and   *)
(* nothing of one proof is used in another.                                 *)
(***************************************************************************)
EXTENDS VpnSession, GoClient, DpiProbe, FiniteSetTheorems, TLAPS

-----------------------------------------------------------------------------
(* The Android client. *)

\* A session of which the key knows, or that is about to be made.
LEMMA KeyIsSession ==
    ASSUME TypeOK
    PROVE  /\ table \in 0..MaxSessions /\ cur \in 0..MaxSessions /\ made \in Nat
           /\ table # 0 => table \in Sessions
           /\ made < MaxSessions => made + 1 \in Sessions
BY ParametersOk DEF TypeOK, Sessions

-----------------------------------------------------------------------------
(* The types. *)

\* The types of what cleanupSession changes.
CleanedUp ==
    /\ state' \in [Sessions -> {"none", "syn", "est", "closed"}]
    /\ ws' \in [Sessions -> WsStates]
    /\ connected' \in [Sessions -> BOOLEAN]
    /\ table' \in 0..MaxSessions
    /\ displaced' \subseteq Sessions
    /\ unheard' \subseteq Sessions

\* cleanupSession of a session leaves every variable it changes in its type.
LEMMA CleansUpTypes ==
    ASSUME TypeOK, NEW i \in Sessions, NEW w \in WsStates, CleansUp(i, w)
    PROVE  CleanedUp
<1>1. table # 0 => table \in Sessions BY KeyIsSession
<1>2. displaced' \subseteq Sessions BY <1>1 DEF TypeOK, CleansUp
<1>3. ws' \in [Sessions -> WsStates]
      BY DEF TypeOK, CleansUp, Disconnects, WsStates
<1>4. table' \in 0..MaxSessions BY ParametersOk DEF CleansUp
<1>5. unheard' \subseteq Sessions BY DEF TypeOK, CleansUp, Disconnects
<1> QED BY <1>2, <1>3, <1>4, <1>5 DEF CleanedUp, TypeOK, CleansUp, Disconnects

\* Telling the app of a session keeps the set of those told.
LEMMA TellsTypes ==
    ASSUME TypeOK, NEW i \in Sessions, Tells(i)
    PROVE  told' \subseteq Sessions
BY DEF TypeOK, Tells

\* The app has a connection only if a session was made for it.
AppHasSession == app # "idle" => cur \in Sessions

TypeInv == TypeOK /\ AppHasSession

\* A step of the loop that reads the app's packets keeps the types.
LEMMA PacketsTypes == ASSUME TypeInv, Packets PROVE TypeInv'
<1> USE DEF TypeInv
<1>1. CASE AppSyn
  <2>1. made + 1 \in Sessions BY <1>1, KeyIsSession DEF AppSyn
  <2> QED BY <1>1, <2>1 DEF AppSyn, TypeOK, AppHasSession, packetRest, WsStates, Sessions
<1>2. CASE AppAck BY <1>2 DEF AppAck, TypeOK, AppHasSession, packetRest
<1>5. CASE \E i \in Sessions : SynConnects(i)
      BY <1>5 DEF SynConnects, TypeOK, AppHasSession, packetRest, WsStates
<1>3. CASE AppData
  <2>1. CASE Sends(cur) BY <1>3, <2>1 DEF AppData, TypeOK, AppHasSession, packetRest
  <2>2. CASE ~Sends(cur)
    <3>1. cur \in Sessions BY <1>3 DEF AppData, AppHasSession
    <3>2. ws[cur] \in WsStates BY <3>1 DEF TypeOK
    <3>3. CleansUp(cur, ws[cur]) BY <1>3, <2>2 DEF AppData
    <3>4. CleanedUp BY <3>1, <3>2, <3>3, CleansUpTypes
    <3> QED BY <1>3, <3>1, <3>4 DEF CleanedUp, AppData, TypeOK, AppHasSession, packetRest
  <2> QED BY <2>1, <2>2
<1>4. CASE AppEnds
  <2>1. CASE table = 0 BY <1>4, <2>1 DEF AppEnds, TypeOK, AppHasSession, packetRest
  <2>2. CASE table # 0
    <3>1. table \in Sessions BY <2>2, KeyIsSession
    <3>2. ws[table] \in WsStates BY <3>1 DEF TypeOK
    <3>3. CleansUp(table, ws[table]) /\ Tells(table) BY <1>4, <2>2 DEF AppEnds
    <3>4. CleanedUp BY <3>1, <3>2, <3>3, CleansUpTypes
    <3>5. told' \subseteq Sessions BY <3>1, <3>3, TellsTypes
    <3>6. 0 \in 0..MaxSessions BY ParametersOk
    <3> QED
      BY <1>4, <3>1, <3>4, <3>5, <3>6 DEF CleanedUp, AppEnds, TypeOK, AppHasSession, packetRest
  <2> QED BY <2>1, <2>2
<1> QED BY <1>1, <1>2, <1>3, <1>4, <1>5 DEF Packets

\* A callback of a WebSocket, of any session, keeps the types.
LEMMA CallbackTypes ==
    ASSUME TypeInv, NEW i \in Sessions, Callback(i) PROVE TypeInv'
<1> USE DEF TypeInv, TypeOK, AppHasSession, callRest, quiet
<1>1. CASE WsOpens(i) BY <1>1 DEF WsOpens, WsStates
<1>2. CASE WsHello(i) BY <1>2 DEF WsHello, WsStates
<1>3. CASE StreamOpens(i) BY <1>3 DEF StreamOpens, WsStates
<1>4. CASE WsData(i) BY <1>4 DEF WsData
<1>5. CASE StreamEnds(i)
  <2>1. ws[i] \in WsStates OBVIOUS
  <2>2. CleanedUp BY <1>5, <2>1, CleansUpTypes DEF StreamEnds
  <2>3. told' \subseteq Sessions BY <1>5, TellsTypes DEF StreamEnds
  <2> QED BY <1>5, <2>2, <2>3 DEF StreamEnds, CleanedUp
<1>6. CASE WsCloses(i)
  <2>1. PICK w \in WsStates : CleansUp(i, w) BY <1>6 DEF WsCloses, WsStates
  <2>2. CleanedUp BY <2>1, CleansUpTypes
  <2>3. told' \subseteq Sessions BY <1>6, TellsTypes DEF WsCloses
  <2> QED BY <1>6, <2>2, <2>3 DEF WsCloses, CleanedUp
<1>7. CASE WsFails(i)
  <2>1. CASE FallsBack(i)
    <3>1. tried[i] + 1 \in 0..Fallbacks BY <2>1, ParametersOk DEF FallsBack
    <3>2. tried' \in [Sessions -> 0..Fallbacks] BY <1>7, <2>1, <3>1 DEF WsFails
    <3>3. ws' \in [Sessions -> WsStates] BY <1>7, <2>1 DEF WsFails, WsStates
    <3>4. revived' \subseteq Sessions BY <1>7, <2>1 DEF WsFails
    <3>5. UNCHANGED <<told, idle, app, cur, made, looked, state, table, displaced, unheard>>
          BY <1>7, <2>1 DEF WsFails
    <3>6. retrying' \in [Sessions -> BOOLEAN] /\ connected' \in [Sessions -> BOOLEAN]
          BY <1>7, <2>1 DEF WsFails
    <3> QED BY <3>2, <3>3, <3>4, <3>5, <3>6
  <2>2. CASE ~FallsBack(i)
    <3>1. CleansUp(i, "dead") /\ "dead" \in WsStates BY <1>7, <2>2 DEF WsFails, WsStates
    <3>2. CleanedUp BY <3>1, CleansUpTypes
    <3>3. told' \subseteq Sessions BY <1>7, <2>2, TellsTypes DEF WsFails
    <3> QED BY <1>7, <2>2, <3>2, <3>3 DEF WsFails, CleanedUp
  <2> QED BY <2>1, <2>2
<1>8. CASE Reconnects(i) BY <1>8 DEF Reconnects, WsStates
<1> QED BY <1>1, <1>2, <1>3, <1>4, <1>5, <1>6, <1>7, <1>8 DEF Callback

\* The cleanup loop, and time, keep the types.
LEMMA SweepTypes ==
    ASSUME TypeInv, \/ Sweep \/ \E i \in Sessions : GoesIdle(i) \/ SweepStream(i)
    PROVE  TypeInv'
<1> USE DEF TypeInv, TypeOK, AppHasSession, callRest, quiet
<1>1. CASE SweepLooks BY <1>1 DEF SweepLooks
<1>2. CASE SweepRemoves
  <2>1. CASE table = 0 BY <1>2, <2>1 DEF SweepRemoves
  <2>2. CASE table # 0
    <3>1. table \in Sessions BY <2>2, KeyIsSession
    <3>2. 0 \in 0..MaxSessions BY ParametersOk
    <3>3. ws' \in [Sessions -> WsStates]
          BY <1>2, <2>2, <3>1 DEF SweepRemoves, Disconnects, WsStates
    <3>4. connected' \in [Sessions -> BOOLEAN] /\ unheard' \subseteq Sessions
          BY <1>2, <2>2, <3>1 DEF SweepRemoves, Disconnects
    <3>5. table' \in 0..MaxSessions /\ looked' \in BOOLEAN
          BY <1>2, <2>2, <3>2 DEF SweepRemoves
    <3>6. UNCHANGED <<app, cur, made, state, retrying, tried, idle, told, displaced, revived>>
          BY <1>2 DEF SweepRemoves
    <3> QED BY <3>3, <3>4, <3>5, <3>6
  <2> QED BY <2>1, <2>2
<1>3. CASE \E i \in Sessions : GoesIdle(i) BY <1>3 DEF GoesIdle
<1>4. CASE \E i \in Sessions : SweepStream(i) BY <1>4 DEF SweepStream, WsStates
<1> QED BY <1>1, <1>2, <1>3, <1>4 DEF Sweep

\* The types hold at the start and are kept by every step.
LEMMA TypesInductive == Spec => []TypeInv
<1>1. Init => TypeInv
  <2>1. 0 \in 0..MaxSessions /\ 0 \in 0..Fallbacks BY ParametersOk
  <2> QED BY <2>1 DEF Init, TypeInv, TypeOK, AppHasSession, WsStates
<1>2. TypeInv /\ [Next]_vars => TypeInv'
  <2>1. CASE UNCHANGED vars
        BY <2>1 DEF vars, TypeInv, TypeOK, AppHasSession
  <2> QED BY <2>1, PacketsTypes, CallbackTypes, SweepTypes DEF Next
<1> QED BY <1>1, <1>2, PTL DEF Spec

\* Every reachable state of the sessions of a key has its type, and an app has a
\* connection only if there is a session for it, for every number of sessions
\* and of fallback hosts.
THEOREM TypeCorrect == Spec => [](TypeOK /\ AppHasSession)
BY TypesInductive, PTL DEF TypeInv

-----------------------------------------------------------------------------
(* Whose tunnel is up. *)

Named == displaced \cup revived \cup unheard

\* A tunnel that is to come up is as explained as one that is up.
Coming == Live \cup {"filed", "retry"}
OrphanInv == \A i \in Sessions : ws[i] \in Coming /\ i # table => i \in Named

\* cleanupSession leaves no tunnel of a session it removes unexplained.
LEMMA CleansUpExplained ==
    ASSUME TypeOK, OrphanInv, NEW i \in Sessions, NEW w, CleansUp(i, w), revived' = revived
    PROVE  OrphanInv'
<1> USE DEF Named, Coming
<1> SUFFICES ASSUME NEW j \in Sessions, ws'[j] \in Coming, j # table'
             PROVE  j \in Named'
    BY DEF OrphanInv
<1>1. CASE j = i
  <2>1. ws'[i] = w /\ w \in {"filed", "retry"}
        BY <1>1 DEF CleansUp, Disconnects, Live, TypeOK
  <2> QED BY <1>1, <2>1 DEF CleansUp, Disconnects
<1>2. CASE j # i
  <2>1. ws[j] \in Coming BY <1>2 DEF CleansUp, Disconnects, TypeOK
  <2>2. unheard \subseteq unheard' BY DEF CleansUp, Disconnects
  <2>3. CASE j = table BY <1>2, <2>3 DEF CleansUp, Sessions
  <2>4. CASE j # table BY <2>1, <2>2, <2>4 DEF CleansUp, OrphanInv
  <2> QED BY <2>3, <2>4
<1> QED BY <1>1, <1>2

\* Steps that bring no tunnel up and take no session from the key.
LEMMA NothingNewExplained ==
    ASSUME OrphanInv, UNCHANGED <<table, displaced, revived, unheard>>,
           \A j \in Sessions : ws'[j] \in Coming => ws[j] \in Coming \/ j = table
    PROVE  OrphanInv'
BY DEF OrphanInv, Named

LEMMA PacketsExplained ==
    ASSUME TypeInv, OrphanInv, Packets PROVE OrphanInv'
<1>1. CASE AppSyn
  <2>1. made + 1 \in Sessions BY <1>1, KeyIsSession DEF AppSyn, TypeInv
  <2> SUFFICES ASSUME NEW j \in Sessions, ws'[j] \in Coming, j # table'
               PROVE  j \in Named'
      BY DEF OrphanInv
  <2>2. ws[j] \in Coming BY <1>1, <2>1 DEF AppSyn, TypeInv, TypeOK
  <2>3. j # table BY <1>1 DEF AppSyn, Sessions
  <2> QED BY <1>1, <2>2, <2>3 DEF AppSyn, OrphanInv, Named, packetRest
<1>2. CASE AppAck BY <1>2, NothingNewExplained DEF AppAck, packetRest
<1>5. CASE \E i \in Sessions : SynConnects(i)
      BY <1>5, NothingNewExplained DEF SynConnects, packetRest, Coming, TypeInv, TypeOK
<1>3. CASE AppData
  <2>1. CASE Sends(cur) BY <1>3, <2>1, NothingNewExplained DEF AppData, packetRest
  <2>2. CASE ~Sends(cur)
    <3>1. cur \in Sessions BY <1>3 DEF AppData, TypeInv, AppHasSession
    <3>2. CleansUp(cur, ws[cur]) /\ revived' = revived
          BY <1>3, <2>2 DEF AppData, packetRest
    <3> QED BY <3>1, <3>2, CleansUpExplained DEF TypeInv
  <2> QED BY <2>1, <2>2
<1>4. CASE AppEnds
  <2>1. CASE table = 0 BY <1>4, <2>1, NothingNewExplained DEF AppEnds, packetRest
  <2>2. CASE table # 0
    <3>1. table \in Sessions BY <2>2, KeyIsSession DEF TypeInv
    <3>2. CleansUp(table, ws[table]) /\ revived' = revived
          BY <1>4, <2>2 DEF AppEnds, packetRest
    <3> QED BY <3>1, <3>2, CleansUpExplained DEF TypeInv
  <2> QED BY <2>1, <2>2
<1> QED BY <1>1, <1>2, <1>3, <1>4, <1>5 DEF Packets

LEMMA CallbackExplained ==
    ASSUME TypeInv, OrphanInv, NEW i \in Sessions, Callback(i)
    PROVE  OrphanInv'
<1> USE DEF TypeInv, TypeOK, callRest, quiet
<1>1. CASE WsOpens(i) BY <1>1, NothingNewExplained DEF WsOpens, Live, Coming
<1>2. CASE WsHello(i) BY <1>2, NothingNewExplained DEF WsHello, Live, Coming
<1>3. CASE StreamOpens(i) BY <1>3, NothingNewExplained DEF StreamOpens, Live, Coming
<1>4. CASE WsData(i) BY <1>4, NothingNewExplained DEF WsData
<1>5. CASE StreamEnds(i) BY <1>5, CleansUpExplained DEF StreamEnds
<1>6. CASE WsCloses(i) BY <1>6, CleansUpExplained DEF WsCloses
<1>7. CASE WsFails(i)
  <2>1. CASE FallsBack(i)
    <3> SUFFICES ASSUME NEW j \in Sessions, ws'[j] \in Coming, j # table'
                 PROVE  j \in Named'
        BY DEF OrphanInv
    <3>1. CASE j = i /\ ws[i] \notin Live BY <1>7, <2>1, <3>1 DEF WsFails, Named
    <3>2. CASE j # i \/ ws[i] \in Live
      <4>1. ws[j] \in Coming /\ j # table BY <1>7, <2>1, <3>2 DEF WsFails, Coming
      <4> QED BY <1>7, <2>1, <4>1 DEF WsFails, OrphanInv, Named
    <3> QED BY <3>1, <3>2
  <2>2. CASE ~FallsBack(i) BY <1>7, <2>2, CleansUpExplained DEF WsFails
  <2> QED BY <2>1, <2>2
<1>8. CASE Reconnects(i) BY <1>8, NothingNewExplained DEF Reconnects, Live, Coming
<1> QED BY <1>1, <1>2, <1>3, <1>4, <1>5, <1>6, <1>7, <1>8 DEF Callback

LEMMA SweepExplained ==
    ASSUME TypeInv, OrphanInv,
           \/ Sweep \/ \E i \in Sessions : GoesIdle(i) \/ SweepStream(i)
    PROVE  OrphanInv'
<1> USE DEF TypeInv, TypeOK, callRest, quiet
<1>1. CASE SweepLooks BY <1>1, NothingNewExplained DEF SweepLooks
<1>2. CASE SweepRemoves
  <2>1. CASE table = 0 BY <1>2, <2>1, NothingNewExplained DEF SweepRemoves
  <2>2. CASE table # 0
    <3>1. table \in Sessions BY <2>2, KeyIsSession
    <3> SUFFICES ASSUME NEW j \in Sessions, ws'[j] \in Coming
                 PROVE  j \in Named'
        BY DEF OrphanInv
    <3>2. unheard \subseteq unheard' /\ UNCHANGED <<displaced, revived>>
          BY <1>2, <2>2 DEF SweepRemoves, Disconnects
    <3>3. CASE j = table
      <4>1. ws[table] \in {"filed", "retry"}
            BY <1>2, <2>2, <3>1, <3>3 DEF SweepRemoves, Disconnects, Live, Coming
      <4> QED BY <1>2, <2>2, <3>3, <4>1 DEF SweepRemoves, Disconnects, Named
    <3>4. CASE j # table
      <4>1. ws[j] \in Coming BY <1>2, <2>2, <3>4 DEF SweepRemoves, Disconnects
      <4> QED BY <3>2, <3>4, <4>1 DEF OrphanInv, Named
    <3> QED BY <3>3, <3>4
  <2> QED BY <2>1, <2>2
<1>3. CASE \E i \in Sessions : GoesIdle(i) BY <1>3, NothingNewExplained DEF GoesIdle
<1>4. CASE \E i \in Sessions : SweepStream(i)
      BY <1>4, NothingNewExplained DEF SweepStream, Live, Coming
<1> QED BY <1>1, <1>2, <1>3, <1>4 DEF Sweep

\* A tunnel that is up is the one of the session that the key has, unless a
\* callback of another session has removed that session, a tunnel that was
\* closed fell back to another host, or the session was removed while its tunnel
\* had no WebSocket yet: for every number of sessions and hosts.
THEOREM OrphansExplained == Spec => []OrphanIsExplained
<1>1. Init => OrphanInv BY DEF Init, OrphanInv, Live, Coming
<1>2. TypeInv /\ OrphanInv /\ [Next]_vars => OrphanInv'
  <2>1. CASE UNCHANGED vars BY <2>1, NothingNewExplained DEF vars
  <2> QED BY <2>1, PacketsExplained, CallbackExplained, SweepExplained DEF Next
<1>3. OrphanInv => OrphanIsExplained BY DEF OrphanInv, OrphanIsExplained, Named, Coming
<1> QED BY <1>1, <1>2, <1>3, TypesInductive, PTL DEF Spec

-----------------------------------------------------------------------------
(* The Go client. *)

\* The chunk that a goroutine has read and not written: that towards the browser,
\* and tcpToWs.
InHand == IF down = "write" THEN 1 ELSE 0
InPump == IF pump = "write" THEN 1 ELSE 0

\* The counters that the argument adds up.
Counters == {wsd, owed, pq} \subseteq Nat

\* No goroutine runs before the browser has been answered.
NotBeforeReply == client \in {"socks", "dial", "tls", "status", "reply"} => down = "off"

\* Nothing is unread before tcpToWs runs, nor once it has read the target's end.
PumpEnded ==
    /\ server \in {"new", "stuck"} => pump = "off"
    /\ pump = "eof" => pq = 0 /\ target # "open"

\* What is in a goroutine's hand or on its way was sent and not written to the
\* browser; and it is all of that, unless a reset or a tcpToWs that was cut has
\* lost some.
Ledger ==
    /\ owed >= pq + InPump + wsd + InHand
    /\ ~reset /\ pump # "cut" /\ browser # "gone" => owed = pq + InPump + wsd + InHand

\* The goroutine ends for a browser that stays only when nothing is left.
Drained == down = "done" /\ browser # "gone" => wsd = 0 /\ server = "closed"

DownInv == Counters /\ NotBeforeReply /\ PumpEnded /\ Ledger /\ Drained

-----------------------------------------------------------------------------

\* The steps of handleConnection before and after its goroutines run.
LEMMA MainKeeps == ASSUME DownInv, Main PROVE DownInv'
<1> USE DEF DownInv, Counters, NotBeforeReply, PumpEnded, Ledger, Drained, InHand, InPump,
            shared, wires, clientV, serverV
<1>1. CASE ReadsRequest BY <1>1 DEF ReadsRequest
<1>2. CASE ReadsNone BY <1>2 DEF ReadsNone
<1>3. CASE Dialled BY <1>3 DEF Dialled
<1>4. CASE Handshakes BY <1>4 DEF Handshakes
<1>5. CASE StatusFails BY <1>5 DEF StatusFails, Answers
<1>6. CASE StatusArrives BY <1>6 DEF StatusArrives, Answers
<1>7. CASE StartsRelay
  <2>1. down = "off" /\ down' \in {"read", "off"} BY <1>7 DEF StartsRelay
  <2>2. client' \in {"relay", "done"} BY <1>7 DEF StartsRelay
  <2> QED BY <1>7, <2>1, <2>2 DEF StartsRelay
<1>8. CASE ClientEnds BY <1>8 DEF ClientEnds
<1> QED BY <1>1, <1>2, <1>3, <1>4, <1>5, <1>6, <1>7, <1>8 DEF Main

\* The goroutine towards the relay does not touch a download.
LEMMA UpKeeps == ASSUME DownInv, Up PROVE DownInv'
<1> USE DEF DownInv, Counters, NotBeforeReply, PumpEnded, Ledger, Drained, InHand, InPump,
            Moves, shared, serverV
<1>1. CASE UpReads BY <1>1 DEF UpReads
<1>2. CASE UpWrites BY <1>2 DEF UpWrites
<1>3. CASE UpWritesInVain BY <1>3 DEF UpWritesInVain
<1>4. CASE UpStops BY <1>4 DEF UpStops
<1> QED BY <1>1, <1>2, <1>3, <1>4 DEF Up

\* The goroutine towards the browser moves chunks from one place to the next,
\* and stops at the WebSocket's end or for a browser that has gone.
LEMMA DownKeeps == ASSUME DownInv, Down PROVE DownInv'
<1> USE DEF DownInv, Counters, NotBeforeReply, PumpEnded, Ledger, Drained, InHand, InPump,
            Moves, shared, serverV
<1>1. CASE DownReads BY <1>1 DEF DownReads
<1>2. CASE DownWrites BY <1>2 DEF DownWrites
<1>3. CASE DownStops BY <1>3 DEF DownStops
<1> QED BY <1>1, <1>2, <1>3 DEF Down

\* Only a close that resets takes chunks off their way.
LEMMA CloseKeeps ==
    ASSUME DownInv, ServerCloses, UNCHANGED <<client, down, browser, pump, pq, target, owed>>
    PROVE  DownInv'
BY DEF ServerCloses, DownInv, Counters, NotBeforeReply, PumpEnded, Ledger, Drained, InHand, InPump

LEMMA ServerKeeps == ASSUME DownInv, Server PROVE DownInv'
<1> USE DEF serverRest, clientV
<1>1. CASE ServerConnects
      BY <1>1 DEF ServerConnects, DownInv, Counters, NotBeforeReply, PumpEnded, Ledger,
                  Drained, InHand, InPump
<1>2. CASE ServerRejects BY <1>2, CloseKeeps DEF ServerRejects
<1>3. CASE ServerMisreads
      BY <1>3 DEF ServerMisreads, DownInv, Counters, NotBeforeReply, PumpEnded, Ledger,
                  Drained, InHand, InPump
<1>4. CASE ServerUnstuck
      BY <1>4 DEF ServerUnstuck, DownInv, Counters, NotBeforeReply, PumpEnded, Ledger,
                  Drained, InHand, InPump
<1>5. CASE ServerReads
      BY <1>5 DEF ServerReads, DownInv, Counters, NotBeforeReply, PumpEnded, Ledger,
                  Drained, InHand, InPump
<1>6. CASE ServerStops BY <1>6, CloseKeeps DEF ServerStops
<1> QED BY <1>1, <1>2, <1>3, <1>4, <1>5, <1>6 DEF Server

\* tcpToWs takes a chunk from the target's side to the WebSocket's, or is cut.
LEMMA PumpKeeps == ASSUME DownInv, Pump PROVE DownInv'
<1> USE DEF DownInv, Counters, NotBeforeReply, PumpEnded, Ledger, Drained, InHand, InPump,
            pumpRest, serverRest, clientV
<1>1. CASE PumpReads BY <1>1 DEF PumpReads
<1>2. CASE PumpWrites BY <1>2 DEF PumpWrites
<1>3. CASE PumpWriteFails BY <1>3 DEF PumpWriteFails
<1>4. CASE PumpEnds BY <1>4 DEF PumpEnds
<1> QED BY <1>1, <1>2, <1>3, <1>4 DEF Pump

LEMMA PeersKeep == ASSUME DownInv, Peers PROVE DownInv'
<1> USE DEF DownInv, Counters, NotBeforeReply, PumpEnded, Ledger, Drained, InHand, InPump,
            wires, clientV, serverV
<1>1. CASE BrowserSends BY <1>1 DEF BrowserSends
<1>2. CASE BrowserReads BY <1>2 DEF BrowserReads
<1>3. CASE BrowserEnds BY <1>3 DEF BrowserEnds
<1>4. CASE TargetReads BY <1>4 DEF TargetReads
<1>5. CASE TargetSends BY <1>5 DEF TargetSends
<1>6. CASE TargetEnds BY <1>6 DEF TargetEnds
<1>7. CASE ServerFallsSilent BY <1>7 DEF ServerFallsSilent
<1> QED BY <1>1, <1>2, <1>3, <1>4, <1>5, <1>6, <1>7 DEF Peers

\* The ledger balances in every reachable state.
LEMMA DownInductive == GCSpec => []DownInv
<1>1. GCInit => DownInv
      BY DEF GCInit, DownInv, Counters, NotBeforeReply, PumpEnded, Ledger, Drained, InHand, InPump
<1>2. DownInv /\ [GCNext]_GCvars => DownInv'
  <2>1. CASE UNCHANGED GCvars
        BY <2>1 DEF GCvars, DownInv, Counters, NotBeforeReply, PumpEnded, Ledger, Drained,
                    InHand, InPump, wires, clientV, serverV
  <2> QED BY <2>1, MainKeeps, UpKeeps, DownKeeps, ServerKeeps, PumpKeeps, PeersKeep DEF GCNext
<1> QED BY <1>1, <1>2, PTL DEF GCSpec

\* For every size of the buffers and every amount of data: what a target has sent
\* up to the end that the server has read from it has been written to a browser
\* that stays by the time the client gives the download up, unless the server's
\* close reset the WebSocket.
THEOREM DownloadComplete == GCSpec => []DownloadArrives
<1>1. DownInv => DownloadArrives
      BY DEF DownInv, Counters, PumpEnded, Ledger, Drained, InHand, InPump, DownloadArrives
<1> QED BY <1>1, DownInductive, PTL

-----------------------------------------------------------------------------
(* The measuring tool. *)

\* What a run has been given.
RunOK == modes \subseteq ToSet(Order) /\ net \in Networks /\ ctrl \in BOOLEAN

\* A raw probe is under way only while a mode that makes them runs.
RawRuns ==
    /\ rp # "idle" \/ tries # <<>> => Raw
    /\ rp = "idle" => packets = <<>> /\ out = {} /\ left = 0
    /\ rp # "idle" => Len(tries) < Repeats
    /\ rp = "syn" => out = {} /\ left > 0
           /\ packets = IF net.server = "refuses" THEN <<"rst">> ELSE <<"synack">>
    /\ rp = "send" => left > 0
    /\ rp = "listen" => left = 0
    /\ rp \in {"send", "listen"} => net.server # "refuses" /\ "synack" \notin ToSet(packets)

\* The types, for which a raw probe's stages have to be told apart.
ProbeOK == RunOK /\ DPTypeOK /\ RawRuns

\* No option of a data segment is cut: the list of SYN options has none of them.
LEMMA NoSpill == ~Spills
  <1>1. "timestamps" \notin Offered
    BY DEF Offered, SynOptions
  <1> QED
    BY <1>1 DEF Spills, DataOptions

LEMMA OrderIs == ToSet(Order) = {"baseline", "dns", "tls", "http", "frag", "diagnose"}
  BY DEF ToSet, Order

\* One mode runs at a time, and when it is over the others are left.
LEMMA OneMode ==
    ASSUME NEW m \in ToSet(Order), NEW n \in ToSet(Order), In(m), In(n)
    PROVE  m = n
  <1>1. PICK i \in DOMAIN Order, j \in DOMAIN Order : m = Order[i] /\ n = Order[j]
    BY DEF ToSet
  <1>2. DOMAIN Order = 1..6
    BY DEF Order
  <1>3. i < j => Precedes(m, n)
    BY <1>1 DEF Precedes
  <1>4. j < i => Precedes(n, m)
    BY <1>1 DEF Precedes
  <1> QED
    BY <1>1, <1>2, <1>3, <1>4 DEF In, Current

LEMMA RestIs ==
    ASSUME ProbeOK, NEW m \in ToSet(Order), In(m)
    PROVE  Rest = todo \ {m}
  BY OneMode DEF ProbeOK, RunOK, DPTypeOK, Rest, In

\* The steps that no raw probe takes; they find none under way.
Others == KernelProbe \/ DnsAnswers \/ DnsReadsOn \/ ModeEnds \/ Diagnose \/ Finish

LEMMA OthersAside ==
    ASSUME ProbeOK, Others
    PROVE  /\ rp = "idle" /\ tries = <<>>
           /\ UNCHANGED <<runV, rawV>>
  <1>1. UNCHANGED <<runV, rawV>>
    BY DEF Others, KernelProbe, DnsAnswers, DnsReadsOn, ModeEnds, Diagnose, Finish
  <1> SUFFICES ~Raw
    BY <1>1 DEF ProbeOK, RawRuns
  <1>2. \A m, n \in ToSet(Order) : In(m) /\ In(n) => m = n
    BY OneMode
  <1>3. CASE KernelProbe
    <2>1. In("tls") \/ In("http") \/ (In("baseline") /\ ~Done("kernel"))
      BY <1>3 DEF KernelProbe
    <2> QED
      BY <1>2, <2>1, OrderIs DEF Raw
  <1>4. CASE DnsAnswers \/ DnsReadsOn \/ Diagnose
    BY <1>2, <1>4, OrderIs DEF Raw, DnsAnswers, DnsReadsOn, Diagnose
  <1>5. CASE ModeEnds
    BY <1>2, <1>5, OrderIs DEF Raw, ModeEnds
  <1>6. CASE Finish
    BY <1>6 DEF Raw, Finish, In, Current
  <1> QED
    BY <1>3, <1>4, <1>5, <1>6 DEF Others

\* The steps of a raw probe but the last, the vote over its repeats.
Probing ==
    \/ RawConnects \/ RawRefused \/ RawUnanswered \/ RawConnected
    \/ RawSends \/ RawHears \/ RawStops \/ KernelResets

CaughtPlan == Caught(HelloOf(Plan))

\* They leave the plan, and everything that the run has recorded.
LEMMA ProbingStill ==
    ASSUME ProbeOK, Probing
    PROVE  /\ UNCHANGED <<runV, todo, progress, results, trusted, named, dnsV>>
           /\ Plan' = Plan /\ Raw' = Raw /\ CaughtPlan' = CaughtPlan
           /\ Raw
           /\ lost' = lost \/ (lost < MaxLost /\ lost' = lost + 1)
  <1>1. UNCHANGED <<runV, todo, progress, results, trusted, named, dnsV>>
    BY DEF Probing, RawConnects, RawRefused, RawUnanswered, RawConnected, RawSends, RawHears,
           RawStops, KernelResets, RawEndsWith, RawForgets, rawRest
  <1>2. Plan' = Plan /\ Raw' = Raw
    BY <1>1 DEF Plan, Raw, In, Current, Done
  <1>3. CaughtPlan' = CaughtPlan
    BY <1>1, <1>2 DEF CaughtPlan, Caught, runV
  <1>4. Raw
    BY DEF Probing, RawConnects, RawRefused, RawUnanswered, RawConnected, RawSends, RawHears,
           RawStops, KernelResets, ProbeOK, RawRuns
  <1>5. lost' = lost \/ (lost < MaxLost /\ lost' = lost + 1)
    BY DEF Probing, RawConnects, RawRefused, RawUnanswered, RawConnected, RawSends, RawHears,
           RawStops, KernelResets
  <1> QED
    BY <1>1, <1>2, <1>3, <1>4, <1>5

\* The steps in which a probe raises, or reads options for ever.
Stumbles == RawMisreads \/ ProbeRaises

\* They end the run and leave what it has recorded.
LEMMA StumblesStill ==
    ASSUME ProbeOK, Stumbles
    PROVE  /\ UNCHANGED <<runV, todo, lost, results, trusted, named, dnsV>>
           /\ progress' \in {"raised", "spins"}
           /\ rp' = "idle" /\ tries' = <<>> /\ packets' = <<>> /\ out' = {}
           /\ left' = 0 /\ conn' = "gone" /\ spilled' = FALSE
           /\ \E m \in ToSet(Order) : In(m)
  <1>1. /\ UNCHANGED <<runV, todo, lost, results, trusted, named, dnsV>>
        /\ progress' \in {"raised", "spins"} /\ tries' = <<>> /\ RawForgets
    BY DEF Stumbles, RawMisreads, ProbeRaises
  <1>2. \E m \in ToSet(Order) : In(m)
    <2>1. Raw => In("baseline") \/ In("frag")
      BY DEF Raw
    <2>2. CASE RawMisreads
      BY <2>1, <2>2, OrderIs DEF RawMisreads, ProbeOK, RawRuns
    <2>3. CASE ProbeRaises
      BY <2>1, <2>3, OrderIs DEF ProbeRaises, UnderWay
    <2> QED
      BY <2>2, <2>3 DEF Stumbles
  <1> QED
    BY <1>1, <1>2 DEF RawForgets

\* The segments on their way are a queue.
LEMMA PacketFacts ==
    ASSUME NEW S, NEW q \in Seq(S), NEW p \in S
    PROVE  /\ Append(q, p) \in Seq(S) /\ ToSet(Append(q, p)) = ToSet(q) \cup {p}
           /\ Len(Append(q, p)) = Len(q) + 1
           /\ q # <<>> => /\ Tail(q) \in Seq(S) /\ Head(q) \in S
                          /\ ToSet(Tail(q)) \subseteq ToSet(q) /\ Head(q) \in ToSet(q)
  <1>1. /\ Append(q, p) \in Seq(S) /\ Len(Append(q, p)) = Len(q) + 1
        /\ q # <<>> => Tail(q) \in Seq(S) /\ Head(q) \in S
    OBVIOUS
  <1>2. ToSet(Append(q, p)) = ToSet(q) \cup {p}
    <2>1. /\ DOMAIN Append(q, p) = DOMAIN q \cup {Len(q) + 1}
          /\ \A i \in DOMAIN q : Append(q, p)[i] = q[i]
          /\ Append(q, p)[Len(q) + 1] = p
      OBVIOUS
    <2> QED
      BY <2>1 DEF ToSet
  <1>3. q # <<>> => ToSet(Tail(q)) \subseteq ToSet(q) /\ Head(q) \in ToSet(q)
    <2>1. q # <<>> => /\ \A i \in DOMAIN Tail(q) : i + 1 \in DOMAIN q /\ Tail(q)[i] = q[i + 1]
                      /\ 1 \in DOMAIN q /\ Head(q) = q[1]
      OBVIOUS
    <2> QED
      BY <2>1 DEF ToSet
  <1> QED
    BY <1>1, <1>2, <1>3

\* What a raw probe may hear.
Signs == {"synack", "data", "rst", "injected"}

\* What a run has been given stays.
LEMMA RunTyped == ASSUME ProbeOK, [DPNext]_DPvars PROVE RunOK'
  <1>1. UNCHANGED runV
    BY OthersAside, ProbingStill, StumblesStill
       DEF DPNext, Tool, RawStep, Others, Probing, Stumbles, PlanEnds, DPvars
  <1> QED
    BY <1>1 DEF ProbeOK, RunOK, runV

\* A step of a raw probe keeps its types and its stage.
LEMMA ProbingTyped == ASSUME ProbeOK, Probing PROVE DPTypeOK' /\ RawRuns'
  <1>1. /\ UNCHANGED <<runV, todo, progress, results, trusted, named, dnsV>>
        /\ Plan' = Plan /\ Raw' = Raw /\ Raw
        /\ lost' \in 0..MaxLost
    BY ProbingStill, BoundsOk DEF ProbeOK, DPTypeOK
  <1>2. /\ net' = net /\ todo' \subseteq modes'
        /\ <<progress', trusted', named', asks', ref'>> = <<progress, trusted, named, asks, ref>>
    BY <1>1 DEF runV, dnsV, ProbeOK, DPTypeOK
  <1>3. /\ tries \in Seq(Labels) /\ packets \in Seq(Signs) /\ Repeats \in Nat /\ Len(tries) \in Nat
        /\ left \in 0..2 /\ out \in Labels
    BY BoundsOk DEF ProbeOK, DPTypeOK, Signs
  <1> DEFINE RawTyped == /\ tries' \in Seq(Labels) /\ Len(tries') <= Repeats
                         /\ rp' \in {"idle", "syn", "send", "listen"} /\ left' \in 0..2
                         /\ packets' \in Seq(Signs) /\ out' \in Labels
                         /\ conn' \in {"open", "gone", "cut"} /\ spilled' \in BOOLEAN
  <1>4. ASSUME NEW l \in Labels, RawEndsWith(l), rp # "idle" PROVE RawTyped /\ RawRuns'
    <2>1. Len(tries) < Repeats /\ Append(tries, l) \in Seq(Labels) /\ Len(Append(tries, l)) = Len(tries) + 1
      BY <1>3, <1>4, PacketFacts DEF ProbeOK, RawRuns
    <2>3. {} \in Labels /\ <<>> \in Seq(Signs)
      BY DEF Labels
    <2>4. tries' \in Seq(Labels) /\ Len(tries') <= Repeats
      BY <1>3, <1>4, <2>1 DEF RawEndsWith, RawForgets
    <2>5. packets' \in Seq(Signs) /\ out' \in Labels
      BY <1>4, <2>3 DEF RawEndsWith, RawForgets
    <2>6. rp' = "idle" /\ left' = 0 /\ conn' = "gone" /\ spilled' = FALSE
      BY <1>4 DEF RawEndsWith, RawForgets
    <2>7. left' \in 0..2
      BY <2>6
    <2>8. spilled' \in BOOLEAN
      BY <2>6
    <2>9. rp' \in {"idle", "syn", "send", "listen"} /\ conn' \in {"open", "gone", "cut"}
      BY <2>6
    <2>2. RawTyped
      BY <2>4, <2>5, <2>7, <2>8, <2>9
    <2> QED
      BY <1>1, <1>4, <2>2 DEF RawEndsWith, RawForgets, RawRuns
  <1>5. ASSUME RawConnects PROVE RawTyped /\ RawRuns'
    <2>0. /\ rp' = "syn" /\ left' \in {1, 2} /\ UNCHANGED <<tries, out, spilled>>
          /\ packets' \in {<<"rst">>, <<"synack">>} /\ conn' \in {"gone", "open"}
      BY <1>5 DEF RawConnects
    <2>4. <<"rst">> \in Seq(Signs) /\ <<"synack">> \in Seq(Signs) /\ spilled \in BOOLEAN
      BY DEF Signs, ProbeOK, DPTypeOK
    <2>5. Len(tries) < Repeats
      BY <1>5 DEF RawConnects
    <2>6. packets' \in Seq(Signs)
      BY <2>0, <2>4
    <2>1. RawTyped
      BY <1>3, <2>0, <2>4, <2>5, <2>6
    <2>2. out = {}
      BY <1>5 DEF RawConnects, ProbeOK, RawRuns
    <2> QED
      BY <1>1, <1>2, <1>5, <2>0, <2>1, <2>2, <2>5 DEF RawConnects, RawRuns
  <1>6. ASSUME RawRefused \/ RawUnanswered PROVE RawTyped /\ RawRuns'
    BY <1>4, <1>6 DEF RawRefused, RawUnanswered, Labels
  <1>7. ASSUME RawConnected PROVE RawTyped /\ RawRuns'
    <2>1. RawTyped
      BY <1>3, <1>7 DEF RawConnected, ProbeOK, DPTypeOK
    <2>2. "rst" # "synack" /\ ToSet(<<>>) = {}
      BY DEF ToSet
    <2>3. left > 0 /\ net.server # "refuses" /\ Len(tries) < Repeats
      BY <1>7, <2>2 DEF RawConnected, ProbeOK, RawRuns
    <2> QED
      BY <1>1, <1>2, <1>7, <2>1, <2>2, <2>3 DEF RawConnected, RawRuns
  <1>8. ASSUME RawSends PROVE RawTyped /\ RawRuns'
    <2>1. /\ left > 0 /\ net.server # "refuses" /\ Len(tries) < Repeats
          /\ "synack" \notin ToSet(packets)
      BY <1>8 DEF RawSends, ProbeOK, RawRuns
    <2>2. packets' = packets \/ \E p \in {"data", "rst", "injected"} : packets' = Append(packets, p)
      BY <1>8 DEF RawSends, ProbeOK, DPTypeOK
    <2>3. packets' \in Seq(Signs) /\ "synack" \notin ToSet(packets')
      <3>1. ASSUME NEW p \in {"data", "rst", "injected"}
            PROVE  Append(packets, p) \in Seq(Signs) /\ "synack" \notin ToSet(Append(packets, p))
        <4>1. p \in Signs /\ p # "synack"
          BY DEF Signs
        <4> QED
          BY <1>3, <2>1, <4>1, PacketFacts
      <3> QED
        BY <1>3, <2>1, <2>2, <3>1
    <2>4. conn' \in {"open", "gone", "cut"} /\ spilled' \in BOOLEAN
      BY <1>8 DEF RawSends, ProbeOK, DPTypeOK
    <2>5. /\ left' = left - 1 /\ rp' = (IF left = 1 THEN "listen" ELSE "send")
          /\ UNCHANGED <<tries, out>>
      BY <1>8 DEF RawSends
    <2>6. RawTyped
      BY <1>3, <2>1, <2>3, <2>4, <2>5
    <2> QED
      BY <1>1, <1>2, <1>3, <2>1, <2>3, <2>5, <2>6 DEF RawRuns
  <1>9. ASSUME RawHears PROVE RawTyped /\ RawRuns'
    <2>1. /\ packets # <<>> /\ packets' = Tail(packets) /\ out' = out \cup Heard(Head(packets))
          /\ UNCHANGED <<tries, rp, left, conn, spilled>> /\ rp = "listen"
      BY <1>9 DEF RawHears
    <2>2. /\ left = 0 /\ net.server # "refuses" /\ Len(tries) < Repeats
          /\ "synack" \notin ToSet(packets)
      BY <2>1 DEF ProbeOK, RawRuns
    <2>3. /\ Tail(packets) \in Seq(Signs) /\ "synack" \notin ToSet(Tail(packets))
          /\ Head(packets) \in {"data", "rst", "injected"}
      BY <1>3, <2>1, <2>2, PacketFacts DEF Signs
    <2>4. Heard(Head(packets)) \subseteq {"data", "rst", "injected"}
      BY <2>3 DEF Heard
    <2>5. RawTyped
      BY <1>3, <2>1, <2>2, <2>3, <2>4 DEF Labels, ProbeOK, DPTypeOK
    <2> QED
      BY <1>1, <1>2, <2>1, <2>2, <2>3, <2>5 DEF RawRuns
  <1>10. ASSUME RawStops PROVE RawTyped /\ RawRuns'
    BY <1>3, <1>4, <1>10 DEF RawStops
  <1>11. ASSUME KernelResets PROVE RawTyped /\ RawRuns'
    <2>1. RawTyped
      BY <1>3, <1>11 DEF KernelResets, ProbeOK, DPTypeOK
    <2> QED
      BY <1>1, <1>2, <1>11, <2>1 DEF KernelResets, ProbeOK, RawRuns
  <1>12. RawTyped /\ RawRuns'
    BY <1>5, <1>6, <1>7, <1>8, <1>9, <1>10, <1>11 DEF Probing
  <1> QED
    BY <1>1, <1>2, <1>12 DEF DPTypeOK, Signs, ProbeOK

\* So do the other steps, one group after the other.
LEMMA OthersTyped == ASSUME ProbeOK, Others PROVE DPTypeOK' /\ RawRuns'
  <1>1. rp = "idle" /\ tries = <<>> /\ UNCHANGED <<runV, rawV>>
    BY OthersAside
  <1>2. RawRuns'
    BY <1>1 DEF rawV, ProbeOK, RawRuns
  <1>3. /\ tries' \in Seq(Labels) /\ Len(tries') <= Repeats
        /\ rp' \in {"idle", "syn", "send", "listen"} /\ left' \in 0..2
        /\ packets' \in Seq({"synack", "data", "rst", "injected"}) /\ out' \in Labels
        /\ conn' \in {"open", "gone", "cut"} /\ spilled' \in BOOLEAN
    BY <1>1 DEF rawV, ProbeOK, DPTypeOK
  <1>4. modes' = modes /\ trusted' = trusted
    BY <1>1 DEF runV, Others, KernelProbe, DnsAnswers, DnsReadsOn, ModeEnds, Diagnose, Finish
  <1>5. todo' \subseteq modes' /\ progress' \in {"running", "spins", "raised", "crashed", "over"}
    BY <1>4 DEF Others, KernelProbe, DnsAnswers, DnsReadsOn, ModeEnds, Diagnose, Finish, Rest,
                ProbeOK, DPTypeOK
  <1>6. lost' \in 0..MaxLost
    <2>1. lost' = lost \/ (lost < MaxLost /\ lost' = lost + 1)
      BY DEF Others, KernelProbe, DnsAnswers, DnsReadsOn, ModeEnds, Diagnose, Finish, Finds
    <2> QED
      BY <2>1, BoundsOk DEF ProbeOK, DPTypeOK
  <1>7. named' \subseteq {"value", "presence", "broad", "fingerprint", "http-host", "http-ip",
                          "dns", "camouflage"}
    <2>1. CASE named' = named
      BY <2>1 DEF ProbeOK, DPTypeOK
    <2>2. CASE Diagnose /\ named' # named
      <3>1. named' = TlsVectors \cup HttpVectors \cup DnsVectors \cup RawVectors
        BY <2>2 DEF Diagnose
      <3>2. TlsVectors \subseteq {"value", "presence", "broad", "fingerprint"}
        BY DEF TlsVectors
      <3> QED
        BY <3>1, <3>2 DEF HttpVectors, DnsVectors, RawVectors
    <2> QED
      BY <2>1, <2>2 DEF Others, KernelProbe, DnsAnswers, DnsReadsOn, ModeEnds, Finish
  <1>8. asks' \in 0..4 /\ ref' \in {"unset", "a", "b", "empty"}
    <2>1. CASE asks' = asks /\ ref' = ref
      BY <2>1 DEF ProbeOK, DPTypeOK
    <2>2. CASE DnsAnswers
      BY <2>2 DEF DnsAnswers, Ref, ProbeOK, DPTypeOK
    <2> QED
      BY <2>1, <2>2 DEF Others, KernelProbe, DnsReadsOn, ModeEnds, Diagnose, Finish, dnsV
  <1> QED
    BY <1>2, <1>3, <1>4, <1>5, <1>6, <1>7, <1>8 DEF DPTypeOK, ProbeOK

LEMMA PlanEndsTyped == ASSUME ProbeOK, PlanEnds PROVE DPTypeOK' /\ RawRuns'
  <1>1. /\ UNCHANGED <<runV, progress, lost, named, dnsV, rp, left, packets, out, conn, spilled>>
        /\ tries' = <<>> /\ rp = "idle"
    BY DEF PlanEnds
  <1>2. trusted' \in BOOLEAN /\ todo' \subseteq todo
    BY DEF PlanEnds, Trusts, Rest, ProbeOK, DPTypeOK
  <1>3. RawRuns'
    BY <1>1 DEF ProbeOK, RawRuns
  <1>4. tries' \in Seq(Labels) /\ Len(tries') <= Repeats
    BY <1>1, BoundsOk
  <1> QED
    BY <1>1, <1>2, <1>3, <1>4 DEF runV, dnsV, ProbeOK, DPTypeOK

LEMMA StumblesTyped == ASSUME ProbeOK, Stumbles PROVE DPTypeOK' /\ RawRuns'
  <1>1. /\ UNCHANGED <<runV, todo, lost, results, trusted, named, dnsV>>
        /\ progress' \in {"raised", "spins"}
        /\ rp' = "idle" /\ tries' = <<>> /\ packets' = <<>> /\ out' = {}
        /\ left' = 0 /\ conn' = "gone" /\ spilled' = FALSE
    BY StumblesStill
  <1>2. RawRuns'
    BY <1>1 DEF RawRuns
  <1>3. /\ tries' \in Seq(Labels) /\ Len(tries') <= Repeats /\ out' \in Labels
        /\ packets' \in Seq({"synack", "data", "rst", "injected"})
    BY <1>1, BoundsOk DEF Labels
  <1>4. /\ modes' = modes /\ todo' = todo /\ lost' = lost /\ trusted' = trusted
        /\ named' = named /\ asks' = asks /\ ref' = ref
    BY <1>1 DEF runV, dnsV
  <1>5. rp' \in {"idle", "syn", "send", "listen"} /\ conn' \in {"open", "gone", "cut"}
    BY <1>1
  <1>6. left' \in 0..2
    BY <1>1
  <1>7. spilled' \in BOOLEAN
    BY <1>1
  <1>8. progress' \in {"running", "spins", "raised", "crashed", "over"}
    BY <1>1
  <1> QED
    BY <1>2, <1>3, <1>4, <1>5, <1>6, <1>7, <1>8 DEF ProbeOK, DPTypeOK

LEMMA ProbeStart == DPInit => ProbeOK
  <1> SUFFICES ASSUME DPInit PROVE ProbeOK
    OBVIOUS
  <1>1. RunOK
    BY SituationsOk DEF DPInit, RunOK
  <1>4. tries = <<>> /\ packets = <<>> /\ out = {} /\ lost = 0 /\ left = 0 /\ asks = 0
    BY DEF DPInit
  <1>5. /\ tries \in Seq(Labels) /\ Len(tries) <= Repeats /\ lost \in 0..MaxLost
        /\ packets \in Seq({"synack", "data", "rst", "injected"}) /\ out \in Labels
        /\ left \in 0..2 /\ asks \in 0..4
    BY <1>4, BoundsOk DEF Labels
  <1>2. DPTypeOK
    BY <1>5 DEF DPInit, DPTypeOK
  <1>3. RawRuns
    BY DEF DPInit, RawRuns
  <1> QED
    BY <1>1, <1>2, <1>3 DEF ProbeOK

LEMMA ProbeStep == ProbeOK /\ [DPNext]_DPvars => ProbeOK'
  <1> SUFFICES ASSUME ProbeOK, [DPNext]_DPvars PROVE ProbeOK'
    OBVIOUS
  <1>1. CASE UNCHANGED DPvars
    BY <1>1 DEF DPvars, runV, dnsV, rawV, ProbeOK, RunOK, DPTypeOK, RawRuns, Raw, In, Current, Done
  <1>2. CASE Others
    BY <1>2, RunTyped, OthersTyped DEF ProbeOK
  <1>3. CASE Probing
    BY <1>3, RunTyped, ProbingTyped DEF ProbeOK
  <1>4. CASE PlanEnds
    BY <1>4, RunTyped, PlanEndsTyped DEF ProbeOK
  <1>5. CASE Stumbles
    BY <1>5, RunTyped, StumblesTyped DEF ProbeOK
  <1> QED
    BY <1>1, <1>2, <1>3, <1>4, <1>5 DEF DPNext, Tool, RawStep, Others, Probing, Stumbles

\* Every variable of a run keeps its range, whatever the situations, the number
\* of repeats and the answers lost.
THEOREM ProbeTypes == DPSpec => []DPTypeOK
  <1>1. ProbeOK => DPTypeOK
    BY DEF ProbeOK
  <1> QED
    BY <1>1, ProbeStart, ProbeStep, PTL DEF DPSpec

-----------------------------------------------------------------------------
(* What a raw probe hears. *)

\* A server sends data when the last segment has come, with nothing spilled.
LEMMA PassStep ==
    ASSUME ProbeOK, ~spilled, PassMeansArrived, [DPNext]_DPvars
    PROVE  ~spilled' /\ PassMeansArrived'
  <1> DEFINE Heeds == "data" \in ToSet(packets) \cup out => left = 0
  <1>1. Heeds /\ packets \in Seq(Signs) /\ ToSet(<<>>) = {}
    BY DEF PassMeansArrived, ProbeOK, DPTypeOK, Signs, ToSet
  <1> SUFFICES ~spilled' /\ Heeds'
    BY DEF PassMeansArrived
  <1>2. CASE Others \/ PlanEnds \/ UNCHANGED DPvars
    <2>1. UNCHANGED <<left, packets, out, spilled>>
      BY <1>2, OthersAside DEF rawV, PlanEnds, DPvars
    <2> QED
      BY <1>1, <2>1
  <1>3. ASSUME NEW l, RawEndsWith(l) PROVE ~spilled' /\ Heeds'
    BY <1>1, <1>3 DEF RawEndsWith, RawForgets
  <1>4. CASE RawConnects
    <2>1. "data" \notin ToSet(<<"rst">>) /\ "data" \notin ToSet(<<"synack">>)
      BY DEF ToSet
    <2>2. out = {} /\ packets' \in {<<"rst">>, <<"synack">>} /\ UNCHANGED <<out, spilled>>
      BY <1>4 DEF RawConnects, ProbeOK, RawRuns
    <2>3. "data" \notin ToSet(packets')
      BY <2>1, <2>2
    <2>4. "data" \notin ToSet(packets') \cup out' /\ ~spilled'
      BY <2>2, <2>3
    <2> QED
      BY <2>4
  <1>5. CASE RawRefused \/ RawUnanswered \/ RawStops
    BY <1>3, <1>5 DEF RawRefused, RawUnanswered, RawStops
  <1>6. CASE RawConnected
    BY <1>1, <1>6 DEF RawConnected
  <1>7. CASE RawSends
    <2>1. left > 0 /\ left' = left - 1 /\ out' = out /\ left \in 0..2
      BY <1>7 DEF RawSends, ProbeOK, DPTypeOK
    <2>2. "data" \notin ToSet(packets) \cup out
      BY <1>1, <2>1
    <2>5. ~spilled'
      <3>1. conn \in {"open", "gone", "cut"}
        BY DEF ProbeOK, DPTypeOK
      <3> QED
        BY <1>7, <3>1, NoSpill DEF RawSends
    <2>3. CASE left = 1
      <3>1. left' = 0
        BY <2>1, <2>3
      <3>2. Heeds'
        BY <3>1
      <3> QED
        BY <2>5, <3>2
    <2>4. CASE left # 1
      <3>1. \/ packets' = packets
            \/ packets' = Append(packets, "rst") \/ packets' = Append(packets, "injected")
        BY <1>7, <2>4 DEF RawSends, ProbeOK, DPTypeOK
      <3>2. /\ ToSet(Append(packets, "rst")) = ToSet(packets) \cup {"rst"}
            /\ ToSet(Append(packets, "injected")) = ToSet(packets) \cup {"injected"}
        BY <1>1, PacketFacts DEF Signs
      <3>3. "data" \notin ToSet(packets')
        <4>1. "data" \notin ToSet(packets)
          BY <2>2
        <4>2. "data" \notin ToSet(Append(packets, "rst")) \cup ToSet(Append(packets, "injected"))
          BY <3>2, <4>1
        <4> QED
          BY <3>1, <4>1, <4>2
      <3>4. Heeds'
        BY <2>1, <2>2, <3>3
      <3> QED
        BY <2>5, <3>4
    <2> QED
      BY <2>3, <2>4
  <1>8. CASE RawHears
    <2>1. /\ packets # <<>> /\ packets' = Tail(packets) /\ out' = out \cup Heard(Head(packets))
          /\ UNCHANGED <<left, spilled>> /\ left = 0
      BY <1>8 DEF RawHears, ProbeOK, RawRuns
    <2> QED
      BY <2>1
  <1>9. CASE KernelResets
    BY <1>1, <1>9 DEF KernelResets
  <1>10. CASE Stumbles
    BY <1>1, <1>10, StumblesStill
  <1> QED
    BY <1>2, <1>4, <1>5, <1>6, <1>7, <1>8, <1>9, <1>10 DEF DPNext, Tool, RawStep, Others, Stumbles

\* Whatever interferes, and however often a plan is repeated, a server that
\* answers a raw probe has got the whole hello and nothing else.
THEOREM PassArrived == DPSpec => []PassMeansArrived
  <1> DEFINE PassInv == ~spilled /\ PassMeansArrived
  <1>1. DPInit => PassInv
    BY DEF DPInit, PassMeansArrived, ToSet
  <1>2. ProbeOK /\ PassInv /\ [DPNext]_DPvars => PassInv'
    BY PassStep
  <1>3. PassInv => PassMeansArrived
    OBVIOUS
  <1> HIDE DEF PassInv
  <1> QED
    BY <1>1, <1>2, <1>3, ProbeStart, ProbeStep, PTL DEF DPSpec

-----------------------------------------------------------------------------
(* Whose resets there are. *)

\* What the network or the server may do to a hello that is h, and what else
\* ends a connection.
Filters(h) == net.mangles \/ (net.resets /\ Caught(h))
Excused(h) == net.server = "refuses" \/ net.own \/ Filters(h)
FiltersPlan == Filters(HelloOf(Plan))
ExcusedPlan == Excused(HelloOf(Plan))

\* What a set of signs says is so.
Founded(signs) == /\ "injected" \in signs => FiltersPlan
                  /\ "rst" \in signs => ExcusedPlan

\* What a raw probe has heard or may yet hear.
ResetsInv ==
    /\ \A i \in DOMAIN tries : Founded(tries[i])
    /\ Founded(ToSet(packets)) /\ Founded(out)
    /\ rp # "idle" /\ conn = "gone" => ExcusedPlan

\* Every sign heard is founded.
LEMMA ResetsProbing == ASSUME ProbeOK, ResetsInv, Probing PROVE ResetsInv'
  <1>1. /\ FiltersPlan' = FiltersPlan /\ ExcusedPlan' = ExcusedPlan /\ net' = net
        /\ FiltersPlan => ExcusedPlan
        /\ CaughtPlan <=> Caught(HelloOf(Plan))
    BY ProbingStill DEF FiltersPlan, ExcusedPlan, Excused, Filters, CaughtPlan, runV
  <1>2. \A s : Founded(s)' <=> /\ "injected" \in s => FiltersPlan
                               /\ "rst" \in s => ExcusedPlan
    BY <1>1 DEF Founded
  <1>3. /\ tries \in Seq(Labels) /\ packets \in Seq(Signs)
        /\ ToSet(<<>>) = {} /\ Founded({}) /\ net.server \in {"hello", "alert", "lingers", "closes", "refuses"}
    BY DEF ProbeOK, DPTypeOK, Signs, ToSet, Founded, RunOK, Networks
  <1>4. ASSUME NEW l, RawEndsWith(l), Founded(l) PROVE ResetsInv'
    <2>1. /\ tries' = Append(tries, l) /\ packets' = <<>> /\ out' = {} /\ rp' = "idle"
      BY <1>4 DEF RawEndsWith, RawForgets
    <2>2. \A i \in DOMAIN tries' : (i \in DOMAIN tries /\ tries'[i] = tries[i]) \/ tries'[i] = l
      BY <1>3, <2>1
    <2>3. \A i \in DOMAIN tries' : Founded(tries'[i])
      BY <1>4, <2>2 DEF ResetsInv
    <2> QED
      BY <1>1, <1>3, <2>1, <2>3 DEF ResetsInv, Founded
  <1>5. CASE RawConnects
    <2>1. out = {} /\ UNCHANGED <<tries, out>>
      BY <1>5 DEF RawConnects, ProbeOK, RawRuns
    <2>2. \/ packets' = <<"rst">> /\ net.server = "refuses"
          \/ packets' = <<"synack">> /\ conn' = "open"
      BY <1>5 DEF RawConnects
    <2>3. ToSet(<<"rst">>) = {"rst"} /\ ToSet(<<"synack">>) = {"synack"}
      BY DEF ToSet
    <2>4. net.server = "refuses" => ExcusedPlan
      BY DEF ExcusedPlan, Excused
    <2>5. Founded(ToSet(packets'))
      BY <2>2, <2>3, <2>4 DEF Founded
    <2> QED
      BY <1>1, <1>3, <2>1, <2>2, <2>4, <2>5 DEF ResetsInv, Founded
  <1>6. CASE RawRefused
    <2>1. RawEndsWith({"rst"}) /\ packets = <<"rst">>
      BY <1>6 DEF RawRefused
    <2>2. "rst" \in ToSet(packets)
      BY <2>1 DEF ToSet
    <2> QED
      BY <1>4, <2>1, <2>2 DEF ResetsInv, Founded
  <1>7. CASE RawUnanswered
    BY <1>4, <1>7 DEF RawUnanswered, Founded
  <1>8. CASE RawConnected
    BY <1>1, <1>3, <1>8 DEF RawConnected, ResetsInv, Founded
  <1>9. CASE RawSends
    <2>1. UNCHANGED <<tries, out>> /\ rp = "send"
      BY <1>9 DEF RawSends
    <2>2. conn \in {"open", "gone", "cut"}
      BY DEF ProbeOK, DPTypeOK
    <2>3. \/ packets' = packets /\ conn' \in {conn, "cut"}
          \/ packets' = Append(packets, "data") /\ conn' = conn
          \/ packets' = Append(packets, "rst") /\ conn' = conn /\ conn = "gone"
          \/ packets' = Append(packets, "injected") /\ CaughtNow /\ (net.resets \/ net.mangles)
      BY <1>9, <2>2 DEF RawSends
    <2>4. CaughtNow /\ (net.resets \/ net.mangles) => FiltersPlan
      BY DEF CaughtNow, FiltersPlan, Filters
    <2>5. Founded(ToSet(packets')) /\ (conn' = "gone" => ExcusedPlan)
      <3>1. \A p \in {"data", "rst", "injected"} : ToSet(Append(packets, p)) = ToSet(packets) \cup {p}
        BY <1>3, PacketFacts DEF Signs
      <3>2. Founded(ToSet(packets)) /\ (conn = "gone" => ExcusedPlan)
        BY <2>1 DEF ResetsInv
      <3> QED
        BY <1>1, <2>3, <2>4, <3>1, <3>2 DEF Founded
    <2> QED
      BY <1>1, <2>1, <2>5 DEF ResetsInv, Founded
  <1>10. CASE RawHears
    <2>1. /\ packets # <<>> /\ packets' = Tail(packets) /\ out' = out \cup Heard(Head(packets))
          /\ UNCHANGED <<tries, rp, conn>>
      BY <1>10 DEF RawHears
    <2>2. ToSet(Tail(packets)) \subseteq ToSet(packets) /\ Head(packets) \in ToSet(packets)
      BY <1>3, <2>1, PacketFacts DEF Signs
    <2>3. Founded(Heard(Head(packets)))
      BY <1>1, <2>2 DEF ResetsInv, Founded, Heard
    <2>4. Founded(out') /\ Founded(ToSet(packets'))
      BY <2>1, <2>2, <2>3 DEF ResetsInv, Founded
    <2> QED
      BY <1>1, <2>1, <2>4 DEF ResetsInv, Founded
  <1>11. CASE RawStops
    BY <1>4, <1>11 DEF RawStops, ResetsInv
  <1>12. CASE KernelResets
    <2>1. net.own /\ UNCHANGED <<tries, packets, out>>
      BY <1>12 DEF KernelResets
    <2>2. ExcusedPlan
      BY <2>1 DEF ExcusedPlan, Excused
    <2> QED
      BY <1>1, <2>1, <2>2 DEF ResetsInv, Founded
  <1> QED
    BY <1>5, <1>6, <1>7, <1>8, <1>9, <1>10, <1>11, <1>12 DEF Probing

\* Between two probes of different plans nothing has been heard.
LEMMA ResetsIdle ==
    ASSUME ProbeOK', rp' = "idle", tries' = <<>>
    PROVE  ResetsInv'
  <1>1. packets' = <<>> /\ out' = {} /\ ToSet(<<>>) = {} /\ DOMAIN tries' = {}
    BY DEF ProbeOK, RawRuns, ToSet
  <1> QED
    BY <1>1 DEF ResetsInv, Founded

-----------------------------------------------------------------------------
(* The vote. *)

\* A set of natural numbers that has any has a least one.
LEMMA LeastProbed ==
    ASSUME NEW T, T \subseteq Nat, T # {}
    PROVE  \E x \in T : \A y \in T : x <= y
  <1>1. PICK n \in T : TRUE
    OBVIOUS
  <1> DEFINE All == 0..n
             C == {0..k : k \in T \cap All}
             R == StrictSubsetOrdering(All)
  <1>2. n \in Nat /\ IsFiniteSet(All)
    BY <1>1, FS_Interval
  <1>3. C \subseteq FiniteSubsetsOf(All) /\ C # {}
    <2>1. C \subseteq SUBSET All /\ 0..n \in C
      BY <1>1, <1>2
    <2> QED
      BY <1>2, <2>1, FS_FiniteSubsetsOfFinite
  <1>4. IsWellFoundedOn(R, FiniteSubsetsOf(All))
    BY FS_StrictSubsetOrderingWellFounded
  <1>5. PICK X \in C : \A Y \in C : ~(<<Y, X>> \in R)
    <2> HIDE DEF C, R, All
    <2> QED
      BY <1>3, <1>4, WFMin
  <1>6. PICK x \in T \cap All : X = 0..x
    BY <1>5
  <1>7. ASSUME NEW y \in T, y < x
        PROVE  FALSE
    <2>1. y \in Nat /\ x \in Nat /\ y \in T \cap All
      BY <1>2, <1>6, <1>7
    <2>2. 0..y \subseteq 0..x /\ x \in 0..x /\ x \notin 0..y
      BY <1>7, <2>1
    <2>3. <<0..y, 0..x>> \in R
      BY <1>2, <1>6, <2>1, <2>2 DEF StrictSubsetOrdering
    <2> QED
      BY <1>5, <1>6, <2>1, <2>3
  <1> QED
    BY <1>6, <1>7

\* The label agreed upon is one of those that were found.
LEMMA ConsensusIsFound ==
    ASSUME NEW S, tries \in Seq(S), tries # <<>>
    PROVE  \E i \in DOMAIN tries : Consensus = tries[i]
  <1> DEFINE N == Len(tries)
             V(i) == Votes(tries[i])
             best == {i \in DOMAIN tries : \A j \in DOMAIN tries : V(i) >= V(j)}
  <1>1. N \in Nat /\ DOMAIN tries = 1..N /\ 1 \in DOMAIN tries
    OBVIOUS
  <1>2. ASSUME NEW i \in DOMAIN tries
        PROVE  V(i) \in Nat /\ N - V(i) \in Nat
    <2>1. {j \in DOMAIN tries : tries[j] = tries[i]} \subseteq 1..N
      BY <1>1
    <2>2. IsFiniteSet(1..N) /\ Cardinality(1..N) = N
      BY <1>1, FS_Interval
    <2>3. V(i) \in Nat /\ V(i) <= N
      BY <2>1, <2>2, FS_Subset, FS_CardinalityType DEF Votes
    <2> QED
      BY <1>1, <2>3
  <1> HIDE DEF N, V
  <1>3. best # {}
    <2> DEFINE T == {N - V(i) : i \in DOMAIN tries}
    <2>1. T \subseteq Nat /\ T # {}
      BY <1>1, <1>2
    <2>2. PICK x \in T : \A y \in T : x <= y
      BY <2>1, LeastProbed
    <2>3. PICK i \in DOMAIN tries : x = N - V(i)
      BY <2>2
    <2>4. ASSUME NEW j \in DOMAIN tries PROVE V(i) >= V(j)
      <3>1. N - V(i) <= N - V(j)
        BY <2>2, <2>3
      <3>2. N \in Nat /\ V(i) \in Nat /\ V(j) \in Nat
        BY <1>1, <1>2
      <3> QED
        BY <3>1, <3>2
    <2> QED
      BY <2>4
  <1>4. \E i \in best : \A j \in best : i <= j
    <2>1. best \subseteq Nat
      BY <1>1
    <2> HIDE DEF best
    <2> QED
      BY <1>3, <2>1, LeastProbed
  <1>5. (CHOOSE i \in best : \A j \in best : i <= j) \in best
    BY <1>4
  <1>6. Consensus = tries[CHOOSE i \in best : \A j \in best : i <= j]
    BY DEF Consensus, V
  <1> QED
    BY <1>5, <1>6

-----------------------------------------------------------------------------
(* What is recorded. *)

\* A record is added or replaced, the others stay.
LEMMA Recorded ==
    ASSUME NEW n, NEW f, Puts(n, f)
    PROVE  /\ DOMAIN results' = {n} \cup DOMAIN results
           /\ results'[n] = f
           /\ \A x \in DOMAIN results : x # n => results'[x] = results[x]
  BY DEF Puts, With

Hosts == {"host", "other", "ip"}

\* The names of the hellos, apart from those of requests and plans.
LEMMA NamesAre ==
    /\ ToSet(Variants) = {"target", "control", "nosni", "echcover", "echtarget", "tls12"}
    /\ DOMAIN Variants = 1..6
  BY DEF ToSet, Variants

\* What a kernel probe finds if its answer is not lost.
Finding(n) ==
    IF n = "kernel" THEN Kernel("control") ELSE IF n \in Hosts THEN Http(n) ELSE Kernel(n)

\* What is found depends on nothing but the network.
LEMMA NetStill ==
    ASSUME net' = net
    PROVE  /\ \A h : Caught(h)' = Caught(h)
           /\ \A n : Kernel(n)' = Kernel(n)
           /\ \A n : Http(n)' = Http(n)
  <1>1. \A h : Caught(h)' = Caught(h)
    BY DEF Caught
  <1>2. \A n : Kernel(n)' = Kernel(n)
    BY <1>1 DEF Kernel
  <1>3. \A n : Http(n)' = Http(n)
    BY DEF Http
  <1> QED
    BY <1>1, <1>2, <1>3

\* A kernel probe records what there is to find unless its answer is lost, and
\* the last request after the other two.
LEMMA KernelFinds ==
    ASSUME ProbeOK, KernelProbe
    PROVE  \E n, f :
             /\ n \in {"kernel"} \cup ToSet(Variants) \cup Hosts
             /\ Puts(n, f)
             /\ f = Finding(n) \/ lost' = lost + 1
             /\ n = "kernel" => f \in {Kernel("control"), "timeout", "error"}
             /\ n \in ToSet(Variants) =>
                   f \in {Kernel(n), "timeout", "error"} /\ "tls" \in modes
             /\ n = "ip" => Done("host") /\ Done("other")
  <1>1. CASE In("baseline") /\ ~Done("kernel") /\ Finds("kernel", Kernel("control"), "timeout")
    <2>1. "kernel" \notin ToSet(Variants)
      BY NamesAre
    <2> QED
      BY <1>1, <2>1 DEF Finds, Finding
  <1>2. ASSUME NEW i \in DOMAIN Variants, In("tls"),
               Finds(Variants[i], Kernel(Variants[i]), "timeout")
        PROVE  \E n, f :
                 /\ n \in ToSet(Variants) /\ n # "kernel" /\ n \notin Hosts /\ Puts(n, f)
                 /\ f = Finding(n) \/ lost' = lost + 1
                 /\ f \in {Kernel(n), "timeout", "error"} /\ "tls" \in modes
    <2>2. "tls" \in modes
      BY <1>2 DEF In, Current, ProbeOK, DPTypeOK
    <2>1. Variants[i] \in ToSet(Variants) /\ Variants[i] # "kernel" /\ Variants[i] \notin Hosts
      BY NamesAre DEF Variants, Hosts, ToSet
    <2> QED
      BY <1>2, <2>1, <2>2 DEF Finds, Finding
  <1> DEFINE host == <<"host", "other", "ip">>
  <1>3. ASSUME NEW i \in 1..3, \A j \in 1..i - 1 : Done(host[j]), Finds(host[i], Http(host[i]), "close")
        PROVE  \E n, f :
                 /\ n \in Hosts /\ n \notin ToSet(Variants) /\ n # "kernel"
                 /\ Puts(n, f)
                 /\ f = Finding(n) \/ lost' = lost + 1
                 /\ n = "ip" => Done("host") /\ Done("other")
    <2>1. /\ host[i] \in Hosts /\ host[i] \notin ToSet(Variants) /\ host[i] # "kernel"
          /\ host[i] = "ip" => Done("host") /\ Done("other")
      BY <1>3, NamesAre DEF Hosts
    <2>2. Finding(host[i]) = Http(host[i])
      BY <2>1 DEF Finding, Hosts
    <2> HIDE DEF host
    <2> QED
      BY <1>3, <2>1, <2>2 DEF Finds
  <1> QED
    BY <1>1, <1>2, <1>3 DEF KernelProbe, Hosts

-----------------------------------------------------------------------------
(* Whom the tool mistrusts. *)

\* A control that the kernel's probe gets through is neither refused nor caught.
KernelSound ==
    Done("kernel") /\ results["kernel"] \in {"serverhello", "alert"} =>
        net.server # "refuses" /\ ~Caught(HelloOf("control"))

\* What is said of the network, and what it is said from.
MistrustInv == MistrustIsExplained /\ KernelSound /\ ResetsInv

\* The plan under way, and the control, which is one hello for both probes.
LEMMA PlanIsRaw ==
    /\ Plan \in RawPlans /\ (In("baseline") <=> Plan = "rawcontrol")
    /\ Plan = "rawnosni" => Done("single") /\ Done("split")
    /\ HelloOf("rawcontrol") = HelloOf("control")
    /\ "kernel" \notin RawPlans
  BY DEF Plan, RawPlans, HelloOf

\* What the records say does not change by itself.
LEMMA RecordsStill ==
    ASSUME UNCHANGED <<net, trusted, results>>, MistrustIsExplained, KernelSound
    PROVE  MistrustIsExplained' /\ KernelSound'
  <1>1. \A h : Caught(h)' = Caught(h)
    BY NetStill
  <1>2. MistrustIsExplained'
    BY <1>1 DEF MistrustIsExplained
  <1>3. KernelSound'
    BY <1>1 DEF KernelSound, Done
  <1> QED
    BY <1>2, <1>3

\* The vote over a plan says nothing that none of its repeats has heard.
LEMMA MistrustPlanEnds ==
    ASSUME ProbeOK, MistrustInv, PlanEnds
    PROVE  MistrustIsExplained' /\ KernelSound'
  <1>1. Puts(Plan, Consensus) /\ net' = net /\ Raw /\ Len(tries) = Repeats
    BY DEF PlanEnds, runV
  <1>2. \A h : Caught(h)' = Caught(h)
    BY <1>1, NetStill
  <1>3. PICK i \in DOMAIN tries : Consensus = tries[i]
    <2>1. tries \in Seq(Labels) /\ tries # <<>>
      BY <1>1, BoundsOk DEF ProbeOK, DPTypeOK
    <2> QED
      BY <2>1, ConsensusIsFound
  <1>4. Founded(Consensus)
    BY <1>3 DEF MistrustInv, ResetsInv
  <1>5. /\ DOMAIN results' = {Plan} \cup DOMAIN results
        /\ results'[Plan] = Consensus
        /\ \A x \in DOMAIN results : x # Plan => results'[x] = results[x]
    BY <1>1, Recorded
  <1>6. KernelSound'
    <2>1. Done("kernel")' => Done("kernel") /\ results'["kernel"] = results["kernel"]
      BY <1>5, PlanIsRaw DEF Done
    <2> QED
      BY <1>1, <1>2, <2>1 DEF MistrustInv, KernelSound
  <1>7. ~trusted' => net.mangles \/ net.own
    <2>1. CASE Plan # "rawcontrol"
      BY <2>1 DEF PlanEnds, MistrustInv, MistrustIsExplained
    <2>2. CASE Plan = "rawcontrol"
      <3>1. trusted' = Trusts
        BY <2>2 DEF PlanEnds
      <3>2. ~Trusts => "rst" \in Consensus /\ Done("kernel") /\ results["kernel"] \in {"serverhello", "alert"}
        BY DEF Trusts, Resets, Verdict, Done
      <3>3. ~Trusts => Excused(HelloOf("control")) /\ net.server # "refuses" /\ ~Caught(HelloOf("control"))
        BY <1>4, <2>2, <3>2, PlanIsRaw DEF Founded, ExcusedPlan, MistrustInv, KernelSound
      <3> QED
        BY <3>1, <3>3 DEF Excused, Filters
    <2> QED
      BY <2>1, <2>2
  <1>8. ASSUME NEW p \in DOMAIN results' \cap RawPlans, "injected" \in results'[p]
        PROVE  net.mangles \/ (net.resets /\ Caught(HelloOf(p)))
    <2>1. CASE p = Plan
      BY <1>4, <1>5, <1>8, <2>1 DEF Founded, FiltersPlan, Filters
    <2>2. CASE p # Plan
      BY <1>5, <1>8, <2>2 DEF MistrustInv, MistrustIsExplained
    <2> QED
      BY <2>1, <2>2
  <1>9. MistrustIsExplained'
    BY <1>1, <1>2, <1>7, <1>8 DEF MistrustIsExplained
  <1> QED
    BY <1>6, <1>9

\* The kernel's probes record under names of their own.
LEMMA MistrustKernelProbe ==
    ASSUME ProbeOK, MistrustInv, KernelProbe
    PROVE  MistrustIsExplained' /\ KernelSound'
  <1>1. PICK n, f :
          /\ n \in {"kernel"} \cup ToSet(Variants) \cup Hosts /\ Puts(n, f)
          /\ n = "kernel" => f \in {Kernel("control"), "timeout", "error"}
    BY KernelFinds
  <1>2. n \notin RawPlans
    BY <1>1, NamesAre DEF RawPlans, Hosts
  <1>3. /\ DOMAIN results' = {n} \cup DOMAIN results
        /\ results'[n] = f
        /\ \A x \in DOMAIN results : x # n => results'[x] = results[x]
    BY <1>1, Recorded
  <1>4. net' = net /\ trusted' = trusted
    BY DEF KernelProbe, runV
  <1>5. \A h : Caught(h)' = Caught(h)
    BY <1>4, NetStill
  <1>6. MistrustIsExplained'
    <2>1. \A p \in DOMAIN results' \cap RawPlans : p \in DOMAIN results /\ results'[p] = results[p]
      BY <1>2, <1>3
    <2> QED
      BY <1>4, <1>5, <2>1 DEF MistrustInv, MistrustIsExplained
  <1>7. KernelSound'
    <2>1. CASE n = "kernel"
      <3>1. Kernel("control") \in {"serverhello", "alert"} =>
              net.server # "refuses" /\ ~Caught(HelloOf("control"))
        BY DEF Kernel
      <3> QED
        BY <1>1, <1>3, <1>4, <1>5, <2>1, <3>1 DEF KernelSound, Done
    <2>2. CASE n # "kernel"
      BY <1>3, <1>4, <1>5, <2>2 DEF MistrustInv, KernelSound, Done
    <2> QED
      BY <2>1, <2>2
  <1> QED
    BY <1>6, <1>7

\* Every step keeps the records founded.
LEMMA MistrustStep == ProbeOK /\ MistrustInv /\ [DPNext]_DPvars => MistrustInv'
  <1> SUFFICES ASSUME ProbeOK, MistrustInv, [DPNext]_DPvars PROVE MistrustInv'
    OBVIOUS
  <1>0. ProbeOK'
    BY ProbeStep
  <1>1. CASE Probing
    <2>1. UNCHANGED <<net, trusted, results>>
      BY <1>1, ProbingStill DEF runV
    <2> QED
      BY <1>1, <2>1, RecordsStill, ResetsProbing DEF MistrustInv
  <1>2. CASE PlanEnds
    <2>1. rp' = "idle" /\ tries' = <<>>
      BY <1>2 DEF PlanEnds
    <2> QED
      BY <1>0, <1>2, <2>1, MistrustPlanEnds, ResetsIdle DEF MistrustInv
  <1>3. CASE Others
    <2>1. rp' = "idle" /\ tries' = <<>> /\ net' = net
      BY <1>3, OthersAside DEF rawV, runV
    <2>2. MistrustIsExplained' /\ KernelSound'
      <3>1. CASE KernelProbe
        BY <3>1, MistrustKernelProbe
      <3>2. CASE DnsAnswers \/ DnsReadsOn \/ ModeEnds \/ Diagnose \/ Finish
        <4>1. UNCHANGED <<trusted, results>>
          BY <3>2 DEF DnsAnswers, DnsReadsOn, ModeEnds, Diagnose, Finish
        <4> QED
          BY <2>1, <4>1, RecordsStill DEF MistrustInv
      <3> QED
        BY <1>3, <3>1, <3>2 DEF Others
    <2> QED
      BY <1>0, <2>1, <2>2, ResetsIdle DEF MistrustInv
  <1>4. CASE UNCHANGED DPvars
    <2>1. /\ UNCHANGED <<net, trusted, results, todo, progress>>
          /\ UNCHANGED <<tries, packets, out, rp, conn>>
      BY <1>4 DEF DPvars, runV, rawV
    <2>2. \A h : Caught(h)' = Caught(h)
      BY <2>1, NetStill
    <2>3. Plan' = Plan
      BY <2>1 DEF Plan, In, Current, Done
    <2>4. FiltersPlan' = FiltersPlan /\ ExcusedPlan' = ExcusedPlan
      BY <2>1, <2>2, <2>3 DEF FiltersPlan, ExcusedPlan, Excused, Filters
    <2>5. ResetsInv'
      BY <2>1, <2>4 DEF MistrustInv, ResetsInv, Founded
    <2> QED
      BY <2>1, <2>5, RecordsStill DEF MistrustInv
  <1>5. CASE Stumbles
    <2>1. UNCHANGED <<net, trusted, results>> /\ rp' = "idle" /\ tries' = <<>>
      BY <1>5, StumblesStill DEF runV
    <2> QED
      BY <1>0, <2>1, RecordsStill, ResetsIdle DEF MistrustInv
  <1> QED
    BY <1>1, <1>2, <1>3, <1>4, <1>5 DEF DPNext, Tool, RawStep, Others, Probing, Stumbles

\* For every number of repeats and of lost answers: the raw probes are mistrusted
\* only where the network or this host's kernel interferes with them alone, and
\* no reset is put down to the network that is not the network's.
THEOREM MistrustExplained == DPSpec => []MistrustIsExplained
  <1>1. DPInit => MistrustInv
    BY DEF DPInit, MistrustInv, MistrustIsExplained, KernelSound, ResetsInv, Founded, Done, ToSet
  <1>2. MistrustInv => MistrustIsExplained
    BY DEF MistrustInv
  <1> QED
    BY <1>1, <1>2, ProbeStart, ProbeStep, MistrustStep, PTL DEF DPSpec

-----------------------------------------------------------------------------
(* What the diagnosis rests on. *)

\* Nothing but the filter is between a raw probe's hello and its answer.
Clear(h) == AnswersAll /\ ~net.own /\ ~net.mangles /\ ~Caught(h)
ClearPlan == Clear(HelloOf(Plan))

\* Then a raw probe hears the server's data and nothing else.
HearsData ==
    /\ \A i \in DOMAIN tries : tries[i] = {"data"}
    /\ rp # "idle" => conn = "open"
    /\ rp = "send" => packets = <<>> /\ out = {}
    /\ rp = "listen" => \/ packets = <<"data">> /\ out = {}
                        \/ packets = <<>> /\ out = {"data"}

\* A plan that nothing catches is on record as one that passes.
SingleSound == Clear(HelloOf("single")) /\ Done("single") => results["single"] = {"data"}

\* While nothing was lost, the records are what the network and the server
\* make of the hellos and requests; a mode that is over has made all of its own.
FoundInv ==
    /\ lost = 0 => \A n \in DOMAIN results \cap (ToSet(Variants) \cup Hosts) : results[n] = Finding(n)
    /\ "tls" \in modes \ todo => ToSet(Variants) \subseteq DOMAIN results
    /\ "http" \in modes \ todo => "ip" \in DOMAIN results
    /\ Done("ip") => Done("host") /\ Done("other")
    /\ Done("rawnosni") => Done("single")

\* What the diagnosis makes of the records.
Vectors == TlsVectors \cup HttpVectors \cup DnsVectors \cup RawVectors

\* The vectors named are those that follow from the records.
NamedInv ==
    /\ "diagnose" \in modes \ todo => todo = {} /\ (progress = "crashed" \/ named = Vectors)
    /\ progress = "over" => todo = {}

\* All of it: the inductive invariant of the diagnosis.
DiagnosisInv == (ClearPlan => HearsData) /\ SingleSound /\ FoundInv /\ NamedInv

\* What nothing is in the way of now, nothing was in the way of before.
LEMMA ClearStays ==
    ASSUME ProbeOK, net' = net, lost' = lost \/ lost' = lost + 1
    PROVE  (\A h : Clear(h)' => Clear(h)) /\ (lost' = 0 => lost = 0)
  <1>1. lost' = 0 => lost = 0
    BY BoundsOk DEF ProbeOK, DPTypeOK
  <1> QED
    BY <1>1, NetStill DEF Clear, AnswersAll

\* A step that records nothing and ends no mode keeps the records true.
LEMMA FoundStill ==
    ASSUME ProbeOK, SingleSound, FoundInv,
           UNCHANGED <<net, modes, todo, results>>, lost' = lost \/ lost' = lost + 1
    PROVE  SingleSound' /\ FoundInv'
  <1>1. (\A h : Clear(h)' => Clear(h)) /\ (lost' = 0 => lost = 0)
    BY ClearStays
  <1>2. SingleSound'
    BY <1>1 DEF SingleSound, Done
  <1>3. \A n : Finding(n)' = Finding(n)
    BY NetStill DEF Finding
  <1>4. FoundInv'
    BY <1>1, <1>3 DEF FoundInv, Done
  <1> QED
    BY <1>2, <1>4

\* Nor does it change what follows from them.
LEMMA NamedStill ==
    ASSUME NamedInv, UNCHANGED <<modes, ctrl, todo, progress, results, trusted, named, dnsV>>
    PROVE  NamedInv'
  <1>1. Vectors' = Vectors
    BY DEF dnsV, Vectors, TlsVectors, HttpVectors, DnsVectors, RawVectors, Verdict, Good, Poisoned, Done
  <1> QED
    BY <1>1 DEF NamedInv

\* A raw probe that nothing is in the way of hears the server.
LEMMA HearsProbing == ASSUME ProbeOK, ClearPlan => HearsData, Probing PROVE ClearPlan' => HearsData'
  <1> SUFFICES ASSUME ClearPlan' PROVE HearsData'
    OBVIOUS
  <1>1. ClearPlan /\ lost' = lost /\ net' = net /\ Plan' = Plan
    <2>1. Plan' = Plan /\ net' = net /\ (lost' = lost \/ lost' = lost + 1)
      BY ProbingStill DEF runV
    <2>2. lost' = 0 /\ (lost' = 0 => lost = 0)
      BY <2>1, ClearStays DEF ClearPlan, Clear, AnswersAll
    <2> QED
      BY <2>1, <2>2, ClearStays DEF ClearPlan
  <1>2. HearsData
    BY <1>1
  <1>3. /\ net.server \in {"hello", "alert"} /\ ~net.own /\ ~net.mangles /\ ~Caught(HelloOf(Plan))
        /\ ~CaughtNow /\ lost \in Nat
    BY <1>1 DEF ClearPlan, Clear, AnswersAll, CaughtNow, ProbeOK, DPTypeOK
  <1>4. ASSUME RawEndsWith({"data"}) PROVE HearsData'
    <2>1. /\ tries' = Append(tries, {"data"}) /\ rp' = "idle"
      BY <1>4 DEF RawEndsWith, RawForgets
    <2>2. tries \in Seq(Labels)
      BY DEF ProbeOK, DPTypeOK
    <2>3. \A i \in DOMAIN tries' : (i \in DOMAIN tries /\ tries'[i] = tries[i]) \/ tries'[i] = {"data"}
      BY <2>1, <2>2
    <2> QED
      BY <1>2, <2>1, <2>3 DEF HearsData
  <1>5. CASE RawConnects
    BY <1>2, <1>3, <1>5 DEF RawConnects, HearsData
  <1>6. CASE RawRefused
    BY <1>3, <1>6 DEF RawRefused, ProbeOK, RawRuns
  <1>7. CASE RawUnanswered
    BY <1>1, <1>3, <1>7 DEF RawUnanswered
  <1>8. CASE RawConnected
    BY <1>2, <1>8 DEF RawConnected, HearsData, ProbeOK, RawRuns
  <1>9. CASE RawSends
    <2>1. /\ conn = "open" /\ packets = <<>> /\ out = {} /\ UNCHANGED <<tries, out>>
      BY <1>2, <1>9 DEF RawSends, HearsData
    <2>2. /\ conn' = conn /\ rp' = (IF left = 1 THEN "listen" ELSE "send")
          /\ packets' = IF left = 1 THEN Append(packets, "data") ELSE packets
      BY <1>3, <1>9, <2>1 DEF RawSends
    <2>3. Append(<<>>, "data") = <<"data">>
      OBVIOUS
    <2> QED
      BY <1>2, <2>1, <2>2, <2>3 DEF HearsData
  <1>10. CASE RawHears
    <2>1. packets # <<>> /\ rp = "listen"
      BY <1>10 DEF RawHears
    <2>2. packets = <<"data">> /\ out = {}
      BY <1>2, <2>1 DEF HearsData
    <2>3. Tail(<<"data">>) = <<>> /\ Head(<<"data">>) = "data" /\ Heard("data") = {"data"}
      BY DEF Heard
    <2>4. packets' = <<>> /\ out' = {"data"} /\ UNCHANGED <<tries, rp, conn>>
      BY <1>10, <2>2, <2>3 DEF RawHears
    <2> QED
      BY <1>2, <2>1, <2>4 DEF HearsData
  <1>11. CASE RawStops
    <2>1. packets = <<>> /\ rp = "listen"
      BY <1>1, <1>3, <1>11 DEF RawStops
    <2>2. out = {"data"}
      BY <1>2, <2>1 DEF HearsData
    <2> QED
      BY <1>4, <1>11, <2>2 DEF RawStops
  <1>12. CASE KernelResets
    BY <1>3, <1>12 DEF KernelResets
  <1> QED
    BY <1>5, <1>6, <1>7, <1>8, <1>9, <1>10, <1>11, <1>12 DEF Probing

\* It has heard nothing else before it starts.
LEMMA HearsIdle == ASSUME rp' = "idle", tries' = <<>> PROVE HearsData'
  BY DEF HearsData

\* A mode that runs is not over, and the diagnosis runs last.
LEMMA Running ==
    ASSUME ProbeOK, NamedInv, NEW m \in ToSet(Order), In(m)
    PROVE  /\ "diagnose" \in modes => "diagnose" \in todo
           /\ progress = "running" /\ todo # {}
           /\ m = "diagnose" => todo = {"diagnose"}
           /\ Rest = todo \ {m}
  <1>1. m \in todo /\ progress = "running" /\ Rest = todo \ {m}
    BY RestIs DEF In, Current
  <1>2. ASSUME m = "diagnose", NEW n \in todo PROVE n = "diagnose"
    <2>1. PICK i \in DOMAIN Order : n = Order[i]
      BY DEF ProbeOK, RunOK, DPTypeOK, ToSet
    <2>2. DOMAIN Order = 1..6 /\ Order[6] = "diagnose" /\ ~Precedes(n, "diagnose")
      BY <1>2 DEF Order, In, Current
    <2>3. ~(i < 6)
      BY <2>1, <2>2 DEF Precedes
    <2> QED
      BY <2>1, <2>2, <2>3
  <1> QED
    BY <1>1, <1>2 DEF NamedInv

\* The records of kernel probes are true, and those of the others stay.
LEMMA FoundKernelProbe ==
    ASSUME ProbeOK, SingleSound, FoundInv, NamedInv, KernelProbe
    PROVE  SingleSound' /\ FoundInv' /\ NamedInv'
  <1>1. PICK n, f :
          /\ n \in {"kernel"} \cup ToSet(Variants) \cup Hosts
          /\ Puts(n, f)
          /\ f = Finding(n) \/ lost' = lost + 1
          /\ n = "ip" => Done("host") /\ Done("other")
    BY KernelFinds
  <1>2. /\ DOMAIN results' = {n} \cup DOMAIN results
        /\ results'[n] = f
        /\ \A x \in DOMAIN results : x # n => results'[x] = results[x]
    BY <1>1, Recorded
  <1>3. UNCHANGED <<modes, ctrl, net, todo, progress>> /\ (lost' = lost \/ lost' = lost + 1)
    BY DEF KernelProbe, runV, Finds
  <1>4. (\A h : Clear(h)' => Clear(h)) /\ (lost' = 0 => lost = 0) /\ (lost' = lost + 1 => lost' # 0)
    BY <1>3, ClearStays, BoundsOk DEF ProbeOK, DPTypeOK
  <1>5. \A x : Finding(x)' = Finding(x)
    BY <1>3, NetStill DEF Finding
  <1>6. n # "single" /\ n # "rawnosni" /\ (n = "ip" => Done("host") /\ Done("other"))
    BY <1>1, NamesAre DEF Hosts
  <1>7. SingleSound'
    BY <1>2, <1>4, <1>6 DEF SingleSound, Done
  <1>8. FoundInv'
    <2>1. ASSUME lost' = 0, NEW x \in DOMAIN results' \cap (ToSet(Variants) \cup Hosts)
          PROVE  results'[x] = Finding(x)'
      <3>1. CASE x = n
        BY <1>1, <1>2, <1>4, <1>5, <2>1, <3>1
      <3>2. CASE x # n
        BY <1>2, <1>4, <1>5, <2>1, <3>2 DEF FoundInv
      <3> QED
        BY <3>1, <3>2
    <2>2. /\ "tls" \in modes' \ todo' => ToSet(Variants) \subseteq DOMAIN results'
          /\ "http" \in modes' \ todo' => "ip" \in DOMAIN results'
      BY <1>2, <1>3 DEF FoundInv
    <2>3. /\ Done("ip")' => Done("host")' /\ Done("other")'
          /\ Done("rawnosni")' => Done("single")'
      BY <1>2, <1>6 DEF FoundInv, Done
    <2> QED
      BY <2>1, <2>2, <2>3 DEF FoundInv
  <1>9. NamedInv'
    <2>1. \E m \in ToSet(Order) : In(m)
      BY OrderIs DEF KernelProbe
    <2>2. progress = "running" /\ todo # {}
      BY <2>1, Running
    <2> QED
      BY <1>3, <2>2 DEF NamedInv
  <1> QED
    BY <1>7, <1>8, <1>9

\* So are those of the raw probes, which are made in order.
LEMMA FoundPlanEnds ==
    ASSUME ProbeOK, DiagnosisInv, PlanEnds
    PROVE  SingleSound' /\ FoundInv' /\ NamedInv'
  <1>1. /\ Puts(Plan, Consensus) /\ UNCHANGED <<modes, net, lost, progress>> /\ Raw
        /\ Len(tries) = Repeats
    BY DEF PlanEnds, runV
  <1>2. /\ DOMAIN results' = {Plan} \cup DOMAIN results
        /\ results'[Plan] = Consensus
        /\ \A x \in DOMAIN results : x # Plan => results'[x] = results[x]
    BY <1>1, Recorded
  <1>3. \A h : Clear(h)' => Clear(h)
    BY <1>1, ClearStays
  <1>4. \A x : Finding(x)' = Finding(x)
    BY <1>1, NetStill DEF Finding
  <1>5. Plan \notin ToSet(Variants) \cup Hosts
    BY PlanIsRaw, NamesAre DEF RawPlans, Hosts
  <1>6. \/ In("baseline") /\ Plan = "rawcontrol"
        \/ In("frag") /\ Plan # "rawcontrol"
    BY <1>1, OneMode, OrderIs, PlanIsRaw DEF Raw
  <1>7. PICK m \in {"baseline", "frag"} : In(m) /\ (m = "baseline" <=> Plan = "rawcontrol")
    BY <1>6
  <1>8. /\ "diagnose" \in modes => "diagnose" \in todo
        /\ progress = "running" /\ Rest = todo \ {m}
    BY <1>7, OrderIs, Running DEF DiagnosisInv
  <1>9. todo' = todo \/ todo' = todo \ {"baseline"}
    BY <1>7, <1>8 DEF PlanEnds
  <1>10. SingleSound'
    <2>1. ASSUME Clear(HelloOf("single")), Plan = "single"
          PROVE  Consensus = {"data"}
      <3>1. HearsData
        BY <2>1 DEF DiagnosisInv, ClearPlan
      <3>2. tries \in Seq(Labels) /\ tries # <<>>
        BY <1>1, BoundsOk DEF ProbeOK, DPTypeOK
      <3> QED
        BY <3>1, <3>2, ConsensusIsFound DEF HearsData
    <2> QED
      BY <1>2, <1>3, <2>1 DEF DiagnosisInv, SingleSound, Done
  <1>11. FoundInv'
    <2>1. ASSUME lost' = 0, NEW x \in DOMAIN results' \cap (ToSet(Variants) \cup Hosts)
          PROVE  results'[x] = Finding(x)'
      BY <1>1, <1>2, <1>4, <1>5, <2>1 DEF DiagnosisInv, FoundInv
    <2>2. /\ "tls" \in modes' \ todo' => ToSet(Variants) \subseteq DOMAIN results'
          /\ "http" \in modes' \ todo' => "ip" \in DOMAIN results'
      BY <1>1, <1>2, <1>9 DEF DiagnosisInv, FoundInv
    <2>3. /\ Done("ip")' => Done("host")' /\ Done("other")'
          /\ Done("rawnosni")' => Done("single")'
      BY <1>2, <1>5, PlanIsRaw DEF DiagnosisInv, FoundInv, Done, Hosts
    <2> QED
      BY <2>1, <2>2, <2>3 DEF FoundInv
  <1>12. NamedInv'
    BY <1>1, <1>8, <1>9 DEF NamedInv
  <1> QED
    BY <1>10, <1>11, <1>12

\* A mode ends when all of its records are made; the diagnosis names what
\* follows from them.
LEMMA FoundOthers ==
    ASSUME ProbeOK, SingleSound, FoundInv, NamedInv, Others
    PROVE  SingleSound' /\ FoundInv' /\ NamedInv'
  <1>0. UNCHANGED <<modes, ctrl, net>>
    BY OthersAside DEF runV
  <1>1. CASE KernelProbe
    BY <1>1, FoundKernelProbe
  <1>2. CASE DnsAnswers \/ DnsReadsOn
    <2>1. UNCHANGED <<todo, lost, results>> /\ In("dns")
      BY <1>2 DEF DnsAnswers, DnsReadsOn
    <2>2. progress' # "over" /\ ("diagnose" \in modes => "diagnose" \in todo)
      BY <1>2, <2>1, Running, OrderIs DEF DnsAnswers, DnsReadsOn
    <2> QED
      BY <1>0, <2>1, <2>2, FoundStill DEF NamedInv
  <1>3. CASE ModeEnds
    <2>1. PICK m \in {"tls", "http", "dns", "frag"} :
            /\ In(m) /\ todo' = Rest
            /\ m = "tls" => \A n \in ToSet(Variants) : Done(n)
            /\ m = "http" => Done("ip")
      BY <1>3 DEF ModeEnds
    <2>2. UNCHANGED <<lost, results, progress>>
      BY <1>3 DEF ModeEnds
    <2>3. /\ "diagnose" \in modes => "diagnose" \in todo
          /\ progress = "running" /\ todo' = todo \ {m}
      BY <2>1, Running, OrderIs
    <2>4. SingleSound' /\ \A n : Finding(n)' = Finding(n)
      BY <1>0, <2>2, ClearStays, NetStill DEF SingleSound, Done, Finding
    <2>5. FoundInv'
      BY <1>0, <2>1, <2>2, <2>3, <2>4 DEF FoundInv, Done
    <2> QED
      BY <1>0, <2>2, <2>3, <2>4, <2>5 DEF NamedInv
  <1>4. CASE Diagnose
    <2>1. In("diagnose") /\ todo' = {} /\ UNCHANGED <<lost, results, trusted, dnsV>>
      BY <1>4 DEF Diagnose
    <2>2. todo = {"diagnose"} /\ progress = "running"
      BY <2>1, Running, OrderIs
    <2>3. SingleSound' /\ \A n : Finding(n)' = Finding(n)
      BY <1>0, <2>1, ClearStays, NetStill DEF SingleSound, Done, Finding
    <2>4. FoundInv'
      BY <1>0, <2>1, <2>2, <2>3 DEF FoundInv, Done
    <2>5. Vectors' = Vectors
      BY <1>0, <2>1 DEF dnsV, Vectors, TlsVectors, HttpVectors, DnsVectors, RawVectors, Verdict,
                        Good, Poisoned, Done
    <2>6. progress' = "crashed" \/ (named' = Vectors /\ progress' = progress)
      BY <1>4 DEF Diagnose, Vectors
    <2> QED
      BY <2>1, <2>2, <2>3, <2>4, <2>5, <2>6 DEF NamedInv
  <1>5. CASE Finish
    <2>1. UNCHANGED <<todo, lost, results, trusted, named, dnsV>> /\ todo = {} /\ progress = "running"
      BY <1>5 DEF Finish
    <2>2. Vectors' = Vectors
      BY <1>0, <2>1 DEF dnsV, Vectors, TlsVectors, HttpVectors, DnsVectors, RawVectors, Verdict,
                        Good, Poisoned, Done
    <2>3. NamedInv'
      BY <1>0, <2>1, <2>2 DEF NamedInv
    <2> QED
      BY <1>0, <2>1, <2>3, FoundStill
  <1> QED
    BY <1>1, <1>2, <1>3, <1>4, <1>5 DEF Others

\* Every step keeps what the diagnosis rests on.
LEMMA DiagnosisStep == ProbeOK /\ DiagnosisInv /\ [DPNext]_DPvars => DiagnosisInv'
  <1> SUFFICES ASSUME ProbeOK, DiagnosisInv, [DPNext]_DPvars PROVE DiagnosisInv'
    OBVIOUS
  <1>0. (ClearPlan => HearsData) /\ SingleSound /\ FoundInv /\ NamedInv
    BY DEF DiagnosisInv
  <1>1. CASE Probing
    <2>1. /\ UNCHANGED <<modes, ctrl, net, todo, progress, results, trusted, named, dnsV>>
          /\ (lost' = lost \/ lost' = lost + 1)
      BY <1>1, ProbingStill DEF runV
    <2>2. ClearPlan' => HearsData'
      BY <1>0, <1>1, HearsProbing
    <2>3. SingleSound' /\ FoundInv'
      BY <1>0, <2>1, FoundStill
    <2>4. NamedInv'
      BY <1>0, <2>1, NamedStill
    <2> QED
      BY <2>2, <2>3, <2>4 DEF DiagnosisInv
  <1>2. CASE PlanEnds
    <2>1. rp' = "idle" /\ tries' = <<>>
      BY <1>2 DEF PlanEnds
    <2> QED
      BY <1>2, <2>1, FoundPlanEnds, HearsIdle DEF DiagnosisInv
  <1>3. CASE Others
    <2>1. rp' = "idle" /\ tries' = <<>>
      BY <1>3, OthersAside DEF rawV
    <2> QED
      BY <1>0, <1>3, <2>1, FoundOthers, HearsIdle DEF DiagnosisInv
  <1>4. CASE UNCHANGED DPvars
    <2>1. /\ UNCHANGED <<modes, ctrl, net, todo, progress, results, trusted, named, dnsV, lost>>
          /\ UNCHANGED <<tries, packets, out, rp, conn>>
      BY <1>4 DEF DPvars, runV, rawV
    <2>2. Plan' = Plan
      BY <2>1 DEF Plan, In, Current, Done
    <2>3. ClearPlan' => HearsData'
      BY <1>0, <2>1, <2>2, ClearStays DEF ClearPlan, HearsData
    <2> QED
      BY <1>0, <2>1, <2>3, FoundStill, NamedStill DEF DiagnosisInv
  <1>5. CASE Stumbles
    <2>1. /\ UNCHANGED <<modes, net, todo, lost, results>> /\ rp' = "idle" /\ tries' = <<>>
          /\ progress' \in {"raised", "spins"} /\ \E m \in ToSet(Order) : In(m)
      BY <1>5, StumblesStill DEF runV
    <2>2. todo # {}
      BY <1>0, <2>1, Running
    <2>3. "diagnose" \in modes => "diagnose" \in todo
      BY <1>0, <2>1, Running
    <2>4. NamedInv'
      BY <2>1, <2>3 DEF NamedInv
    <2> QED
      BY <1>0, <2>1, <2>4, FoundStill, HearsIdle DEF DiagnosisInv
  <1> QED
    BY <1>1, <1>2, <1>3, <1>4, <1>5 DEF DPNext, Tool, RawStep, Others, Probing, Stumbles

\* A run whose hellos have all been answered or caught.
LEMMA VerdictsAre ==
    ASSUME RunOK, FoundInv, AnswersAll, "tls" \in modes \ todo, NEW v \in ToSet(Variants)
    PROVE  Verdict(v) = IF Caught(HelloOf(v)) THEN "blocked" ELSE "ok"
  <1>1. v \in DOMAIN results /\ results[v] = Kernel(v)
    BY NamesAre DEF FoundInv, AnswersAll, Finding, Hosts
  <1>2. Kernel(v) \in IF Caught(HelloOf(v)) THEN {"rst", "timeout"} ELSE {"serverhello", "alert"}
    BY DEF Kernel, AnswersAll
  <1> QED
    BY <1>1, <1>2 DEF Verdict

\* From true verdicts follows the network's policy.
LEMMA TlsSound ==
    ASSUME RunOK, FoundInv, AnswersAll, "tls" \in modes \ todo, ctrl
    PROVE  TlsVectors = CASE net.policy = "none" -> {}
                          [] net.policy \in {"value", "presence"} -> {net.policy}
                          [] OTHER -> {"broad"}
  <1>1. \A v \in {"target", "control", "nosni"} :
          Verdict(v) = IF Caught(HelloOf(v)) THEN "blocked" ELSE "ok"
    BY VerdictsAre, NamesAre
  <1>2. /\ HelloOf("target") = Hello("target", "plain")
        /\ HelloOf("control") = Hello("control", "plain")
        /\ HelloOf("nosni") = Hello("none", "plain")
    BY DEF HelloOf
  <1>3. net.policy \in {"none", "value", "presence", "hello", "all"} /\ Good = Verdict("control")
    BY DEF RunOK, Networks, Good
  <1>4. CASE net.policy = "none"
    <2>1. ~Caught(HelloOf("target"))
      BY <1>4 DEF Caught
    <2> QED
      BY <1>1, <1>4, <2>1 DEF TlsVectors
  <1>5. CASE net.policy = "value"
    <2>1. Caught(HelloOf("target")) /\ ~Caught(HelloOf("control"))
      BY <1>2, <1>5 DEF Caught, Hello
    <2> QED
      BY <1>1, <1>3, <1>5, <2>1 DEF TlsVectors
  <1>6. CASE net.policy = "presence"
    <2>1. Caught(HelloOf("target")) /\ Caught(HelloOf("control")) /\ ~Caught(HelloOf("nosni"))
      BY <1>2, <1>6 DEF Caught, Hello
    <2> QED
      BY <1>1, <1>3, <1>6, <2>1 DEF TlsVectors
  <1>7. CASE net.policy \in {"hello", "all"}
    <2>1. Caught(HelloOf("target")) /\ Caught(HelloOf("control")) /\ Caught(HelloOf("nosni"))
      <3>1. CASE net.policy = "hello"
        BY <1>2, <3>1 DEF Caught, Hello
      <3>2. CASE net.policy = "all"
        BY <3>2 DEF Caught
      <3> QED
        BY <1>7, <3>1, <3>2
    <2> QED
      BY <1>1, <1>3, <1>7, <2>1 DEF TlsVectors
  <1> QED
    BY <1>3, <1>4, <1>5, <1>6, <1>7

\* From true records of the three requests follows what is reset of them.
LEMMA HttpSound ==
    ASSUME RunOK, FoundInv, lost = 0, net.resets, "http" \in modes \ todo
    PROVE  HttpVectors = CASE net.http = "host" -> {"http-host"}
                           [] net.http = "ip" -> {"http-ip"}
                           [] OTHER -> {}
  <1>1. Done("ip") /\ \A h \in Hosts : results[h] = Http(h)
    BY DEF FoundInv, Done, Finding, Hosts
  <1>2. \A h \in Hosts : results[h] = IF net.http \in {h, "all"} THEN "rst" ELSE "http"
    BY <1>1 DEF Http
  <1>3. net.http \in {"none", "host", "other", "ip", "all"}
    BY DEF RunOK, Networks
  <1>4. HttpVectors = (IF results["host"] = "rst" /\ results["other"] # "rst" THEN {"http-host"} ELSE {})
                      \cup (IF results["ip"] = "rst" /\ results["host"] # "rst" THEN {"http-ip"} ELSE {})
    BY <1>1 DEF HttpVectors
  <1>5. /\ results["host"] = "rst" <=> net.http \in {"host", "all"}
        /\ results["other"] = "rst" <=> net.http \in {"other", "all"}
        /\ results["ip"] = "rst" <=> net.http \in {"ip", "all"}
    BY <1>2 DEF Hosts
  <1> QED
    BY <1>3, <1>4, <1>5

\* A diagnosis of true records is sound.
LEMMA InvIsSound == ProbeOK /\ DiagnosisInv => DiagnosisIsSound
  <1> SUFFICES ASSUME ProbeOK, DiagnosisInv, progress = "over", "diagnose" \in modes
               PROVE  DiagnosisIsSound
    BY DEF DiagnosisIsSound
  <1>1. todo = {} /\ named = Vectors /\ RunOK /\ FoundInv
    BY DEF DiagnosisInv, NamedInv, ProbeOK
  <1>2. /\ TlsVectors \subseteq {"value", "presence", "broad", "fingerprint"}
        /\ HttpVectors \subseteq {"http-host", "http-ip"}
        /\ DnsVectors \subseteq {"dns"} /\ RawVectors \subseteq {"camouflage"}
    BY DEF TlsVectors, HttpVectors, DnsVectors, RawVectors
  <1>3. /\ named \cap {"value", "presence", "broad", "fingerprint"} = TlsVectors
        /\ named \cap {"http-host", "http-ip"} = HttpVectors
        /\ "dns" \in named <=> "dns" \in DnsVectors
        /\ "camouflage" \in named <=> "camouflage" \in RawVectors
    BY <1>1, <1>2 DEF Vectors
  <1>4. ASSUME NEW s \in DOMAIN seen, NEW t \in DOMAIN seen,
               seen[s] # seen[t], {seen[s], seen[t]} \subseteq {"a", "b"}
        PROVE  "dns" \in named
    <2>1. Poisoned
      BY <1>4 DEF Poisoned
    <2> QED
      BY <1>3, <2>1 DEF DnsVectors
  <1>5. ASSUME "camouflage" \in named, AnswersAll, ~net.own, ~net.mangles
        PROVE  Caught(HelloOf("single"))
    <2>1. Done("rawnosni") /\ ~Passes(results["single"])
      BY <1>3, <1>5 DEF RawVectors
    <2>2. Done("single")
      BY <1>1, <2>1 DEF FoundInv
    <2> QED
      BY <1>5, <2>1, <2>2 DEF DiagnosisInv, SingleSound, Clear, Passes
  <1>6. ASSUME "tls" \in modes, AnswersAll, ctrl
        PROVE  named \cap {"value", "presence", "broad", "fingerprint"} =
                   CASE net.policy = "none" -> {}
                     [] net.policy \in {"value", "presence"} -> {net.policy}
                     [] OTHER -> {"broad"}
    BY <1>1, <1>3, <1>6, TlsSound
  <1>7. ASSUME "http" \in modes, lost = 0, net.resets
        PROVE  named \cap {"http-host", "http-ip"} =
                   CASE net.http = "host" -> {"http-host"}
                     [] net.http = "ip" -> {"http-ip"}
                     [] OTHER -> {}
    BY <1>1, <1>3, <1>7, HttpSound
  <1> QED
    BY <1>4, <1>5, <1>6, <1>7 DEF DiagnosisIsSound

\* For every set of networks, servers and modes, and every number of repeats: a
\* diagnosis without losses names what the network filters, nothing else and
\* nothing less; it notices two DNS answers, and says of camouflage that it works
\* only where the hello is filtered.
THEOREM DiagnosisSound == DPSpec => []DiagnosisIsSound
  <1>1. DPInit => DiagnosisInv
    BY DEF DPInit, DiagnosisInv, HearsData, SingleSound, FoundInv, NamedInv, Done
  <1> QED
    BY <1>1, InvIsSound, ProbeStart, ProbeStep, DiagnosisStep, PTL DEF DPSpec

-----------------------------------------------------------------------------
(* When the diagnosis fails. *)

\* What the probes of the hellos may have on record: what the network and the
\* server make of the hello, or that of a lost answer or an error.
KindsInv ==
    \A n \in DOMAIN results \cap ToSet(Variants) :
        results[n] \in {Kernel(n), "timeout", "error"} /\ "tls" \in modes

CrashInv == KindsInv /\ CrashIsExplained

LEMMA KindsStep ==
    ASSUME ProbeOK, KindsInv, [DPNext]_DPvars
    PROVE  KindsInv'
  <1>1. CASE UNCHANGED <<results, net, modes>>
    <2>1. \A n : Kernel(n)' = Kernel(n)
      BY <1>1, NetStill
    <2> QED
      BY <1>1, <2>1 DEF KindsInv
  <1>2. CASE KernelProbe
    <2>1. PICK n, f :
            /\ Puts(n, f)
            /\ n \in ToSet(Variants) =>
                  f \in {Kernel(n), "timeout", "error"} /\ "tls" \in modes
      BY <1>2, KernelFinds
    <2>2. net' = net /\ modes' = modes
      BY <1>2 DEF KernelProbe, runV
    <2>3. \A x : Kernel(x)' = Kernel(x)
      BY <2>2, NetStill
    <2> QED
      BY <2>1, <2>2, <2>3, Recorded DEF KindsInv
  <1>3. CASE PlanEnds
    <2>1. Puts(Plan, Consensus) /\ net' = net /\ modes' = modes
      BY <1>3 DEF PlanEnds, runV
    <2>2. Plan \notin ToSet(Variants)
      BY PlanIsRaw, NamesAre DEF RawPlans
    <2>3. \A x : Kernel(x)' = Kernel(x)
      BY <2>1, NetStill
    <2> QED
      BY <2>1, <2>2, <2>3, Recorded DEF KindsInv
  <1>4. CASE Probing \/ Stumbles \/ UNCHANGED DPvars
    BY <1>1, <1>4, ProbingStill, StumblesStill DEF DPvars, runV
  <1>5. CASE DnsAnswers \/ DnsReadsOn \/ ModeEnds \/ Diagnose \/ Finish
    BY <1>1, <1>5 DEF DnsAnswers, DnsReadsOn, ModeEnds, Diagnose, Finish, runV
  <1> QED
    BY <1>2, <1>3, <1>4, <1>5 DEF DPNext, Tool, RawStep, Probing, Stumbles

\* Advice without a vector: some hello has been answered, so that what the
\* network does to any of them would have given a verdict.
LEMMA CrashHasCause ==
    ASSUME ProbeOK, KindsInv, FoundInv, "tls" \in modes => "tls" \notin todo, DiagnosisCrashes,
           NEW n \in {"nosni"} \cup (IF ctrl THEN {"control"} ELSE {})
    PROVE  Done(n) /\ results[n] # Kernel(n)
  <1>1. Verdict("target") = "blocked" /\ TlsVectors = {}
    BY DEF DiagnosisCrashes, Advises
  <1>2. Good # "ok" /\ Verdict("nosni") # "ok" /\ Good # "blocked" /\ Verdict("nosni") # "blocked"
    BY <1>1 DEF TlsVectors
  <1>3. "target" \in DOMAIN results
    BY <1>1 DEF Verdict
  <1>4. ToSet(Variants) \subseteq DOMAIN results
    BY <1>3, NamesAre DEF KindsInv, FoundInv
  <1>5. PICK a \in {"tls12", "echcover", "echtarget"} : Verdict(a) = "ok"
    BY DEF DiagnosisCrashes, Advises
  <1>6. a \in ToSet(Variants) /\ n \in ToSet(Variants)
    BY NamesAre
  <1>7. results[a] \in {"serverhello", "alert"}
    BY <1>4, <1>5, <1>6 DEF Verdict
  <1>8. Kernel(a) \in {"serverhello", "alert"}
    BY <1>4, <1>6, <1>7 DEF KindsInv
  <1>9. net.server \in {"hello", "alert"}
    BY <1>8 DEF Kernel
  <1>10. Kernel(n) \in {"rst", "timeout", "serverhello", "alert"}
    BY <1>9 DEF Kernel
  <1>11. Verdict(n) \notin {"ok", "blocked"}
    BY <1>2 DEF Good
  <1>12. results[n] \notin {"rst", "timeout", "serverhello", "alert"}
    BY <1>4, <1>6, <1>11 DEF Verdict
  <1> QED
    BY <1>4, <1>6, <1>10, <1>12 DEF Done

LEMMA CrashStep ==
    ASSUME ProbeOK, DiagnosisInv, CrashInv, [DPNext]_DPvars
    PROVE  CrashInv'
  <1>1. KindsInv'
    BY KindsStep DEF CrashInv
  <1>2. CASE progress' # "crashed"
    BY <1>1, <1>2 DEF CrashInv, CrashIsExplained
  <1>3. CASE Diagnose /\ progress' = "crashed"
    <2>1. DiagnosisCrashes /\ UNCHANGED <<results, ctrl, net>> /\ In("diagnose")
      BY <1>3 DEF Diagnose, In, runV
    <2>2. todo = {"diagnose"}
      BY <2>1, Running, OrderIs DEF DiagnosisInv
    <2>3. \A n \in {"nosni"} \cup (IF ctrl THEN {"control"} ELSE {}) :
              Done(n) /\ results[n] # Kernel(n)
      BY <2>1, <2>2, CrashHasCause DEF CrashInv, DiagnosisInv
    <2>4. \A n : Kernel(n)' = Kernel(n)
      BY <2>1, NetStill
    <2>5. CrashIsExplained'
      BY <2>1, <2>3, <2>4 DEF CrashIsExplained, Done
    <2> QED
      BY <1>1, <2>5 DEF CrashInv
  <1>4. CASE UNCHANGED <<progress, results, ctrl, net>>
    <2>1. \A n : Kernel(n)' = Kernel(n)
      BY <1>4, NetStill
    <2> QED
      BY <1>1, <1>4, <2>1 DEF CrashInv, CrashIsExplained, Done
  <1>5. CASE Probing \/ UNCHANGED DPvars
    BY <1>4, <1>5, ProbingStill DEF DPvars, runV
  <1>6. CASE Stumbles
    <2>1. progress' # "crashed"
      BY <1>6, StumblesStill
    <2> QED
      BY <1>2, <2>1
  <1>7. CASE KernelProbe \/ DnsAnswers \/ DnsReadsOn \/ ModeEnds \/ PlanEnds \/ Finish
    <2>1. progress' # "crashed"
      BY <1>7 DEF KernelProbe, DnsAnswers, DnsReadsOn, ModeEnds, PlanEnds, Finish, Raw, In
    <2> QED
      BY <1>2, <2>1
  <1> QED
    BY <1>2, <1>3, <1>5, <1>6, <1>7 DEF DPNext, Tool, RawStep, Probing, Stumbles

\* Whatever the network, the server and the number of losses: the diagnosis
\* fails only where the probe of the hello without SNI, and of the control's if
\* one is named, did not find what the network and the server make of it.
THEOREM CrashExplained == DPSpec => []CrashIsExplained
  <1> DEFINE All == ProbeOK /\ DiagnosisInv /\ CrashInv
  <1>1. DPInit => DiagnosisInv /\ CrashInv
    BY DEF DPInit, DiagnosisInv, HearsData, SingleSound, FoundInv, NamedInv, Done,
           CrashInv, KindsInv, CrashIsExplained
  <1>2. All /\ [DPNext]_DPvars => All'
    BY ProbeStep, DiagnosisStep, CrashStep
  <1>3. DPInit => All
    BY <1>1, ProbeStart
  <1>4. All => CrashIsExplained
    BY DEF CrashInv
  <1> HIDE DEF All
  <1> QED
    BY <1>2, <1>3, <1>4, PTL DEF DPSpec

=============================================================================
