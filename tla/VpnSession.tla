----------------------------- MODULE VpnSession -----------------------------
(***************************************************************************)
(* The Android client's TCP sessions (SmartSniVpnService.kt), each with a   *)
(* tunnel of its own (WebSocketTunnel.kt, Multiplexer.kt), for the packets  *)
(* of one app connection after another that use the same addresses and      *)
(* ports, hence the same key of tcpConnections.                             *)
(*                                                                          *)
(* Three threads meet here: the loop that reads the app's packets, the      *)
(* callbacks of the WebSockets, which outlive their sessions, and the       *)
(* cleanup loop.  All of them remove sessions by key.                       *)
(***************************************************************************)
EXTENDS Naturals

CONSTANTS
    MaxSessions, \* bound: sessions that the key sees
    Fallbacks    \* hosts that a tunnel may fall back to

ASSUME ParametersOk == MaxSessions \in Nat \ {0} /\ Fallbacks \in Nat

Sessions == 1..MaxSessions

VARIABLES
    app,       \* the app's connection: "idle", "syn" or "est"
    cur,       \* the session that was made for it (0: none)
    made,      \* sessions made so far
    table,     \* tcpConnections[key]; 0 if there is none
    state,     \* session |-> "syn", "est" or "closed"
    ws,        \* session |-> its tunnel's WebSocket and stream, see below
    connected, \* session |-> WebSocketTunnel.connected
    retrying,  \* session |-> isRetrying
    tried,     \* session |-> currentFallbackIndex
    idle,      \* sessions without activity for two minutes
    told,      \* sessions whose app has been sent a FIN or a RST
    looked,    \* the cleanup loop has found the key to be stale
    displaced, \* history: sessions removed in the name of another,
    revived,   \* whose tunnel was connected anew after it was closed, and
    unheard    \* whose tunnel was closed while it had no WebSocket to close

vars == <<app, cur, made, table, state, ws, connected, retrying, tried, idle,
          told, looked, displaced, revived, unheard>>

\* A tunnel is still to be connected; is to be connected to another host.  Its
\* WebSocket is being connected; is open; has had the hello and asked for a
\* stream; has the stream; has lost it to the cleanup of streams; has been
\* closed by the tunnel; has been in onClosing; is no more.
WsStates == {"none", "filed", "retry", "connecting", "open", "asked", "ready", "swept",
             "closing", "closed", "dead"}
Live == {"connecting", "open", "asked", "ready", "swept"}

TypeOK ==
    /\ app \in {"idle", "syn", "est"}
    /\ cur \in 0..MaxSessions /\ table \in 0..MaxSessions /\ made \in 0..MaxSessions
    /\ state \in [Sessions -> {"none", "syn", "est", "closed"}]
    /\ ws \in [Sessions -> WsStates] /\ tried \in [Sessions -> 0..Fallbacks]
    /\ connected \in [Sessions -> BOOLEAN] /\ retrying \in [Sessions -> BOOLEAN]
    /\ idle \subseteq Sessions /\ told \subseteq Sessions /\ looked \in BOOLEAN
    /\ displaced \subseteq Sessions /\ revived \subseteq Sessions /\ unheard \subseteq Sessions

Init ==
    /\ app = "idle" /\ cur = 0 /\ made = 0 /\ table = 0
    /\ state = [i \in Sessions |-> "none"] /\ ws = [i \in Sessions |-> "none"]
    /\ connected = [i \in Sessions |-> FALSE] /\ retrying = [i \in Sessions |-> FALSE]
    /\ tried = [i \in Sessions |-> 0]
    /\ idle = {} /\ told = {} /\ looked = FALSE /\ displaced = {} /\ revived = {} /\ unheard = {}

-----------------------------------------------------------------------------
(* What several of them call. *)

\* WebSocketTunnel.disconnect, with the WebSocket in the given state.  It has no
\* effect on a connect that is still to come.
Disconnects(i, w) ==
    /\ ws' = [ws EXCEPT ![i] = IF w \in Live THEN "closing" ELSE w]
    /\ connected' = [connected EXCEPT ![i] = FALSE]
    /\ unheard' = IF w \in {"filed", "retry"} THEN unheard \cup {i} ELSE unheard

\* Mutant (for OrphanIsExplained): the tunnel of a session is left as it is.
CleansUpTableOnly(i, w) ==
    /\ state' = [state EXCEPT ![i] = "closed"]
    /\ ws' = [ws EXCEPT ![i] = w] /\ connected' = [connected EXCEPT ![i] = FALSE]
    /\ table' = 0 /\ UNCHANGED unheard
    /\ displaced' = displaced \cup ({table} \ {0, i})

\* cleanupSession: whatever session the key has is removed.
CleansUp(i, w) ==
    /\ state' = [state EXCEPT ![i] = "closed"]
    /\ Disconnects(i, w)
    /\ table' = 0
    /\ displaced' = displaced \cup ({table} \ {0, i})

Tells(i) == told' = told \cup {i}

-----------------------------------------------------------------------------
(* The loop that reads the app's packets. *)

packetRest == <<retrying, tried, looked, revived>>

\* handleSyn has filed a session and is still to connect its tunnel.
Filing == \E i \in Sessions : ws[i] = "filed"

\* handleSyn, for a key without a session: files one and sends the SYN-ACK ...
AppSyn ==
    /\ app = "idle" /\ table = 0 /\ made < MaxSessions /\ ~Filing
    /\ LET i == made + 1
       IN  /\ made' = i /\ cur' = i /\ table' = i /\ app' = "syn"
           /\ state' = [state EXCEPT ![i] = "syn"] /\ ws' = [ws EXCEPT ![i] = "filed"]
    /\ UNCHANGED <<connected, idle, told, displaced, unheard, packetRest>>

\* ... and connects its tunnel, whatever has become of it in the meantime.
SynConnects(i) ==
    /\ ws[i] = "filed" /\ ws' = [ws EXCEPT ![i] = "connecting"]
    /\ UNCHANGED <<app, cur, made, table, state, connected, idle, told, displaced, unheard, packetRest>>

AppAck ==
    /\ ~Filing /\ app = "syn" /\ cur = table /\ state[cur] = "syn"
    /\ app' = "est" /\ state' = [state EXCEPT ![cur] = "est"]
    /\ UNCHANGED <<cur, made, table, ws, connected, idle, told, displaced, unheard, packetRest>>

\* Data is acknowledged to the app before it is sent, and a tunnel that is not
\* ready for it costs the session.
Sends(i) == connected[i] /\ ws[i] = "ready"
AppData ==
    /\ ~Filing /\ app = "est" /\ cur = table /\ state[cur] = "est"
    /\ idle' = idle \ {cur}
    /\ IF Sends(cur) THEN UNCHANGED <<state, ws, connected, table, displaced, unheard>>
                     ELSE CleansUp(cur, ws[cur])
    /\ UNCHANGED <<app, cur, made, told, packetRest>>

\* A FIN or a RST of the app ends its session, if the key still has it; so does
\* the RST by which the app answers a SYN-ACK of a session it knows nothing of.
AppEnds ==
    /\ ~Filing /\ (app # "idle" \/ table # 0)
    /\ app' = "idle" /\ cur' = 0
    /\ IF table # 0 THEN CleansUp(table, ws[table]) /\ Tells(table)
                    ELSE UNCHANGED <<state, ws, connected, table, displaced, unheard, told>>
    /\ UNCHANGED <<made, idle, packetRest>>

-----------------------------------------------------------------------------
(* The callbacks of a WebSocket. *)

callRest == <<app, cur, made, looked>>
quiet == <<state, table, told, displaced, revived, unheard>>

\* A WebSocket that was closed while it connected opens first, too.
WsOpens(i) ==
    /\ \/ ws[i] = "connecting" /\ ws' = [ws EXCEPT ![i] = "open"]
       \/ ws[i] = "closing" /\ retrying[i] /\ UNCHANGED ws
    /\ retrying' = [retrying EXCEPT ![i] = FALSE]
    /\ UNCHANGED <<connected, tried, idle, quiet, callRest>>

\* A server that says hello in text is asked for a stream, by a SOCKS5 request
\* if it does not multiplex; one that does not keeps the tunnel waiting.
WsHello(i) ==
    /\ ws[i] = "open" /\ ws' = [ws EXCEPT ![i] = "asked"]
    /\ UNCHANGED <<connected, retrying, tried, idle, quiet, callRest>>

StreamOpens(i) ==
    /\ ws[i] = "asked"
    /\ ws' = [ws EXCEPT ![i] = "ready"] /\ connected' = [connected EXCEPT ![i] = TRUE]
    /\ UNCHANGED <<retrying, tried, idle, quiet, callRest>>

WsData(i) ==
    /\ ws[i] = "ready" /\ i \in idle /\ idle' = idle \ {i}
    /\ UNCHANGED <<ws, connected, retrying, tried, quiet, callRest>>

\* The stream is rejected (RST to the app) or ended by a FIN or CLOSE (FIN);
\* the end is passed on also of a stream that the cleanup has removed.
StreamEnds(i) ==
    /\ ws[i] \in {"asked", "ready", "swept"}
    /\ Tells(i) /\ CleansUp(i, ws[i])
    /\ UNCHANGED <<retrying, tried, idle, revived, callRest>>

\* Mutant (for EndIsTold): onClosed only logs.
WsClosesSilently(i) ==
    /\ ws[i] \in {"open", "asked", "ready", "swept", "closing", "closed"}
    /\ CleansUp(i, IF ws[i] = "closed" THEN "dead" ELSE "closed")
    /\ UNCHANGED <<told, retrying, tried, idle, revived, callRest>>

\* onClosing, of the server's close or of the answer to the tunnel's own, and
\* onClosed after it: both are a disconnect to the session.
WsCloses(i) ==
    /\ ws[i] \in {"open", "asked", "ready", "swept", "closing", "closed"}
    /\ Tells(i) /\ CleansUp(i, IF ws[i] = "closed" THEN "dead" ELSE "closed")
    /\ UNCHANGED <<retrying, tried, idle, revived, callRest>>

\* onFailure: the next host is to be tried, even for a session that is over,
\* unless the one that failed was such a next host itself ...
FallsBack(i) == ~retrying[i] /\ tried[i] < Fallbacks
WsFails(i) ==
    /\ ws[i] \in Live \cup {"closing", "closed"}
    /\ IF FallsBack(i)
       THEN /\ retrying' = [retrying EXCEPT ![i] = TRUE] /\ tried' = [tried EXCEPT ![i] = @ + 1]
            /\ ws' = [ws EXCEPT ![i] = "retry"] /\ connected' = [connected EXCEPT ![i] = FALSE]
            /\ revived' = IF ws[i] \in Live THEN revived ELSE revived \cup {i}
            /\ UNCHANGED <<state, table, told, displaced, unheard>>
       ELSE /\ retrying' = [retrying EXCEPT ![i] = FALSE]
            /\ Tells(i) /\ CleansUp(i, "dead")
            /\ UNCHANGED <<tried, revived>>
    /\ UNCHANGED <<idle, callRest>>

\* ... and is connected to, whatever has become of the session in the meantime.
Reconnects(i) ==
    /\ ws[i] = "retry" /\ ws' = [ws EXCEPT ![i] = "connecting"]
    /\ UNCHANGED <<connected, retrying, tried, idle, quiet, callRest>>

-----------------------------------------------------------------------------
(* sessionCleanupLoop: the stale keys first, then one after the other. *)

GoesIdle(i) ==
    /\ state[i] \in {"syn", "est"} /\ idle' = idle \cup {i} /\ i \notin idle
    /\ UNCHANGED <<ws, connected, retrying, tried, quiet, callRest>>

SweepLooks ==
    /\ ~looked /\ table \in idle /\ looked' = TRUE
    /\ UNCHANGED <<app, cur, made, ws, connected, retrying, tried, idle, quiet>>

\* By now the key may be another session's.
SweepRemoves ==
    /\ looked /\ looked' = FALSE
    /\ IF table # 0 THEN Disconnects(table, ws[table]) /\ table' = 0
                    ELSE UNCHANGED <<ws, connected, table, unheard>>
    /\ UNCHANGED <<app, cur, made, state, retrying, tried, idle, told, displaced, revived>>

\* Multiplexer.cleanupStaleStreams: a stream is closed while its session stays,
\* and the tunnel goes on saying that it is connected.
SweepStream(i) ==
    /\ i = table /\ ws[i] \in {"asked", "ready"} /\ ws' = [ws EXCEPT ![i] = "swept"]
    /\ UNCHANGED <<connected, retrying, tried, idle, quiet, callRest>>

-----------------------------------------------------------------------------
Packets == AppSyn \/ (\E i \in Sessions : SynConnects(i)) \/ AppAck \/ AppData \/ AppEnds
Callback(i) ==
    \/ WsOpens(i) \/ WsHello(i) \/ StreamOpens(i) \/ WsData(i)
    \/ StreamEnds(i) \/ WsCloses(i) \/ WsFails(i) \/ Reconnects(i)
Sweep == SweepLooks \/ SweepRemoves
Next ==
    \/ Packets \/ Sweep
    \/ \E i \in Sessions : Callback(i) \/ GoesIdle(i) \/ SweepStream(i)

\* OkHttp ends a WebSocket that has been closed, by an answer or a failure, and
\* the threads run on.
Fairness ==
    /\ \A i \in Sessions : WF_vars(ws[i] \in {"closing", "closed"} /\ Callback(i))
    /\ \A i \in Sessions : WF_vars(SynConnects(i)) /\ WF_vars(Reconnects(i))
    /\ WF_vars(SweepRemoves)

Spec == Init /\ [][Next]_vars /\ Fairness

-----------------------------------------------------------------------------
(* Properties. *)

\* A tunnel that is up belongs to the session of the key, but for three ways to
\* lose it: a callback of another session removes the key's session (displaced);
\* a tunnel that has been closed falls back to another host (revived); and a
\* session is removed when it has been filed but not yet connected, or between
\* the failure of one host and the connect to the next, so that there is nothing
\* to close yet (unheard).
OrphanIsExplained ==
    \A i \in Sessions :
        ws[i] \in Live /\ i # table => i \in displaced \cup revived \cup unheard

\* An app whose session is gone, evicted or given up for want of a tunnel, is
\* told, by the callbacks that the closing of its tunnel brings about; but for the
\* sessions that were removed without that closing, which are those whose tunnel
\* may be left: displaced, revived and unheard ones.
EndIsTold ==
    \A i \in Sessions :
        (cur = i /\ table # i) ~> (cur # i \/ i \in told \cup displaced \cup revived \cup unheard)

=============================================================================
