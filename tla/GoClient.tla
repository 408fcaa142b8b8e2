------------------------------ MODULE GoClient ------------------------------
(***************************************************************************)
(* The Go client (cmd/client): one SOCKS5 connection of a browser, carried  *)
(* to the server over a WebSocket or, by default, in ShadowTLS.  Composed   *)
(* with what the server does of it: handleRelay, in the part that GoRelay   *)
(* does not hide from a client, and ShadowTLS's handleConnection, as far as *)
(* this client gets in it.  The server may also be one that falls silent.   *)
(*                                                                          *)
(*   browser --inq--> up --wsu--> server --> target                         *)
(*   browser <--bq-- down <--wsd-- pump <-- target                          *)
(***************************************************************************)
EXTENDS Naturals

CONSTANT Cap \* what the buffers of one connection hold in one direction

ASSUME CapIsPos == Cap \in Nat \ {0}

VARIABLES
    mode,    \* "websocket" or "shadowtls"
    browser, \* "open", "half" once it sends no more, "gone"
    inq,     \* chunks it has sent that are not read yet
    bq,      \* chunks to it that it has not read
    client,  \* handleConnection: "socks", "dial", "tls", "status", "reply", "relay", "done"
    reply,   \* what the browser was answered: "none", "ok" or "error"
    up,      \* browser to relay: "off", "read", "write", "done"
    down,    \* relay to browser
    server,  \* "new", "stuck" in a record, "relay", "closed"; "mute": holds the
             \* connection and says nothing more
    status,  \* the status on its way: "none", "ok" or "error"
    wsu,     \* chunks to the server, chunks to the client
    wsd,
    reset,   \* the server's close has cost the client what was on its way
    pump,    \* tcpToWs: "off", "read", "write"; "eof" once it has read the
             \* target's end, "cut" if it has returned for another reason
    tq,      \* chunks the target has not read
    pq,      \* chunks of the target that tcpToWs has not read
    target,  \* "open", "ended", "gone"
    owed     \* history: chunks the target has sent that were not written to the browser

clientV == <<client, reply, up, down>>
serverV == <<server, pump, reset>>
wires == <<inq, bq, status, wsu, wsd, tq, pq>>
GCvars == <<mode, browser, clientV, serverV, wires, target, owed>>

GCTypeOK ==
    /\ mode \in {"websocket", "shadowtls"} /\ browser \in {"open", "half", "gone"}
    /\ {inq, bq, wsu, wsd, tq, pq} \subseteq 0..Cap /\ owed \in Nat
    /\ client \in {"socks", "dial", "tls", "status", "reply", "relay", "done"}
    /\ {reply, status} \subseteq {"none", "ok", "error"}
    /\ {up, down} \subseteq {"off", "read", "write", "done"}
    /\ server \in {"new", "stuck", "relay", "closed", "mute"}
    /\ pump \in {"off", "read", "write", "eof", "cut"}
    /\ target \in {"open", "ended", "gone"} /\ reset \in BOOLEAN

GCInit ==
    /\ mode \in {"websocket", "shadowtls"}
    /\ browser = "open" /\ inq = 0 /\ bq = 0
    /\ client = "socks" /\ reply = "none" /\ up = "off" /\ down = "off"
    /\ server = "new" /\ status = "none" /\ wsu = 0 /\ wsd = 0 /\ reset = FALSE
    /\ pump = "off" /\ tq = 0 /\ pq = 0 /\ target = "open" /\ owed = 0

-----------------------------------------------------------------------------
(* The client. *)

shared == <<mode, browser, serverV, target, pq>>

\* A request is read, or one that is none, or the end of the browser.
ReadsRequest ==
    /\ client = "socks" /\ inq > 0 /\ inq' = inq - 1 /\ client' \in {"dial", "done"}
    /\ UNCHANGED <<reply, up, down, bq, status, wsu, wsd, tq, owed, shared>>
ReadsNone ==
    /\ client = "socks" /\ inq = 0 /\ browser # "open" /\ client' = "done"
    /\ UNCHANGED <<reply, up, down, wires, owed, shared>>

\* The dial of a WebSocket comes with its TLS and its upgrade, all within ten
\* seconds; that of ShadowTLS is only TCP.
Dialled ==
    /\ client = "dial"
    /\ \/ mode = "websocket" /\ server = "new" /\ client' = "status"
       \/ mode = "shadowtls" /\ client' = "tls"
    /\ UNCHANGED <<reply, up, down, wires, owed, shared>>
Handshakes ==
    /\ client = "tls" /\ server = "new" /\ client' = "status"
    /\ UNCHANGED <<reply, up, down, wires, owed, shared>>

Answers(how) ==
    /\ reply' = how /\ client' = IF how = "ok" THEN "reply" ELSE "done"
    /\ UNCHANGED <<up, down, inq, bq, wsu, wsd, tq, owed, shared>>

\* Mutant (for RequestIsAnswered): the status is waited for without a limit.
StatusNeverLate ==
    /\ \/ client = "dial"
       \/ client = "tls" /\ server # "mute"
       \/ client = "status" /\ status = "none" /\ server = "closed"
    /\ status' = status /\ Answers("error")

\* The dial is refused or its limit passes; the TLS handshake, which has none,
\* fails; or no status comes: over ShadowTLS within ten seconds, over a
\* WebSocket before the server closes.
StatusFails ==
    /\ \/ client = "dial"
       \/ client = "tls" /\ server # "mute"
       \/ client = "status" /\ status = "none" /\ (server = "closed" \/ mode = "shadowtls")
    /\ status' = status /\ Answers("error")

StatusArrives == client = "status" /\ status # "none" /\ Answers(status) /\ status' = "none"

\* The browser is told, and two goroutines take over.
StartsRelay ==
    /\ client = "reply"
    /\ IF browser = "gone" THEN client' \in {"relay", "done"} ELSE client' = "relay"
    /\ LET s == IF client' = "relay" THEN "read" ELSE "off" IN up' = s /\ down' = s
    /\ UNCHANGED <<reply, wires, owed, shared>>

Moves(u, d) == up' = u /\ down' = d /\ UNCHANGED <<client, reply, status, tq, shared>>

UpReads ==
    /\ up = "read" /\ inq > 0 /\ inq' = inq - 1
    /\ Moves("write", down) /\ UNCHANGED <<bq, wsu, wsd, owed>>
UpWrites ==
    /\ up = "write" /\ wsu < Cap /\ server # "closed" /\ wsu' = wsu + 1
    /\ Moves("read", down) /\ UNCHANGED <<inq, bq, wsd, owed>>
\* A write to a WebSocket that is gone may still succeed, but not one after another.
UpWritesInVain ==
    /\ up = "write" /\ server = "closed" /\ Moves("read", down) /\ UNCHANGED <<inq, bq, wsu, wsd, owed>>
UpStops ==
    /\ \/ up = "read" /\ inq = 0 /\ browser # "open"
       \/ up = "write" /\ server = "closed"
    /\ Moves("done", down) /\ UNCHANGED <<inq, bq, wsu, wsd, owed>>

DownReads ==
    /\ down = "read" /\ wsd > 0 /\ wsd' = wsd - 1
    /\ Moves(up, "write") /\ UNCHANGED <<inq, bq, wsu, owed>>
DownWrites ==
    /\ down = "write" /\ bq < Cap /\ browser # "gone" /\ bq' = bq + 1 /\ owed' = owed - 1
    /\ Moves(up, "read") /\ UNCHANGED <<inq, wsu, wsd>>

\* Mutant (for DownloadArrives): the stream's FIN or the close is acted on at once.
DownStopsAtOnce ==
    /\ \/ down = "read" /\ server = "closed"
       \/ down = "write" /\ browser = "gone"
    /\ Moves(up, "done") /\ UNCHANGED <<inq, bq, wsu, wsd, owed>>

\* FIN and CLOSE frames are passed over: only the WebSocket's end is an end.
DownStops ==
    /\ \/ down = "read" /\ wsd = 0 /\ server = "closed"
       \/ down = "write" /\ browser = "gone"
    /\ Moves(up, "done") /\ UNCHANGED <<inq, bq, wsu, wsd, owed>>

\* wg.Wait, then the deferred closes: a CLOSE frame, the WebSocket, the browser.
ClientEnds ==
    /\ client = "relay" /\ up = "done" /\ down = "done" /\ client' = "done"
    /\ UNCHANGED <<reply, up, down, wires, owed, shared>>

-----------------------------------------------------------------------------
(* The server. *)

serverRest == <<mode, browser, clientV, target, inq, bq, owed>>

\* The handler returns, and its deferred calls close both connections.  Closing
\* with chunks unread resets the WebSocket's.
ServerCloses ==
    /\ server' = "closed"
    /\ \/ UNCHANGED <<wsd, reset>>
       \/ wsu > 0 /\ wsd' = 0 /\ reset' = TRUE

\* A request has come: the target is dialled, within ten seconds.
ServerConnects ==
    /\ server = "new" /\ mode = "websocket" /\ client = "status"
    /\ server' = "relay" /\ pump' = "read" /\ status' = "ok"
    /\ UNCHANGED <<wsu, wsd, tq, pq, reset, serverRest>>
ServerRejects ==
    /\ server = "new" /\ mode = "websocket" /\ client = "status"
    /\ status' = "error" /\ ServerCloses /\ UNCHANGED <<pump, wsu, tq, pq, serverRest>>

\* Within its own TLS the ShadowTLS server reads a record where the client has
\* sent its authentication, and takes its first bytes for a header: not a
\* ClientHello's, or of a body longer than what comes.  It never sends a status.
ServerMisreads ==
    /\ server = "new" /\ mode = "shadowtls" /\ client = "status"
    /\ server' \in {"closed", "stuck"}
    /\ UNCHANGED <<pump, reset, status, wsu, wsd, tq, pq, serverRest>>
ServerUnstuck ==
    /\ server = "stuck" /\ client = "done" /\ server' = "closed"
    /\ UNCHANGED <<pump, reset, status, wsu, wsd, tq, pq, serverRest>>

\* wsToTcp: a message is passed on; once tcpToWs has returned it is the last one.
ServerReads ==
    /\ server = "relay" /\ wsu > 0 /\ (tq < Cap \/ target = "gone")
    /\ wsu' = wsu - 1 /\ tq' = IF target = "gone" THEN tq ELSE tq + 1
    /\ IF pump \in {"eof", "cut"} \/ target = "gone"
       THEN server' = "closed" /\ UNCHANGED <<wsd, reset>>
       ELSE UNCHANGED <<server, wsd, reset>>
    /\ UNCHANGED <<pump, status, pq, serverRest>>

\* wsToTcp is in tcp.Write, which has no deadline.
InTcpWrite == wsu > 0 /\ tq = Cap /\ target # "gone"

\* Mutant (for ConnectionEnds): no deadline for the next message.
ServerStopsNeverIdle ==
    /\ server = "relay" /\ ~InTcpWrite /\ client = "done"
    /\ ServerCloses /\ UNCHANGED <<pump, status, wsu, tq, pq, serverRest>>

\* The deadline of the next message passes, though one may just have come; the
\* client has closed; or, after a message, it is time for rotation.
ServerStops ==
    /\ server = "relay" /\ ~InTcpWrite
    /\ ServerCloses /\ UNCHANGED <<pump, status, wsu, tq, pq, serverRest>>

-----------------------------------------------------------------------------
(* tcpToWs. *)

pumpRest == <<server, reset, status, wsu, tq, serverRest>>

PumpReads ==
    /\ pump = "read" /\ server = "relay" /\ pq > 0 /\ target # "gone"
    /\ pq' = pq - 1 /\ pump' = "write" /\ UNCHANGED <<wsd, pumpRest>>
PumpWrites ==
    /\ pump = "write" /\ server = "relay" /\ wsd < Cap
    /\ wsd' = wsd + 1 /\ pump' = "read" /\ UNCHANGED <<pq, pumpRest>>

\* The write to the WebSocket fails: its deadline has passed, or an earlier one
\* of this connection has failed.  The chunk is lost.
PumpWriteFails ==
    /\ pump = "write" /\ server = "relay" /\ pump' = "cut" /\ UNCHANGED <<pq, wsd, pumpRest>>

\* A read ends without a chunk: at the target's end, or because the target has
\* reset, has been silent for the idle timeout, or the handler has returned.
PumpEnds ==
    /\ \/ pump = "read" /\ server = "relay" /\ target = "ended" /\ pq = 0 /\ pump' = "eof"
       \/ pump = "read" /\ server = "relay" /\ target = "open" /\ pq = 0 /\ pump' = "cut"
       \/ pump = "read" /\ server = "relay" /\ target = "gone" /\ pump' = "cut"
       \/ pump \in {"read", "write"} /\ server = "closed" /\ pump' = "cut"
    /\ UNCHANGED <<pq, wsd, pumpRest>>

-----------------------------------------------------------------------------
(* Browser and target, and a server that falls silent. *)

BrowserSends ==
    /\ browser = "open" /\ inq < Cap /\ inq' = inq + 1
    /\ UNCHANGED <<mode, browser, clientV, serverV, bq, status, wsu, wsd, tq, pq, target, owed>>
BrowserReads ==
    /\ browser # "gone" /\ bq > 0 /\ bq' = bq - 1
    /\ UNCHANGED <<mode, browser, clientV, serverV, inq, status, wsu, wsd, tq, pq, target, owed>>
BrowserEnds ==
    /\ browser # "gone" /\ browser' \in {"half", "gone"} \ {browser}
    /\ UNCHANGED <<mode, clientV, serverV, wires, target, owed>>
TargetReads ==
    /\ target # "gone" /\ tq > 0 /\ tq' = tq - 1
    /\ UNCHANGED <<mode, browser, clientV, serverV, inq, bq, status, wsu, wsd, pq, target, owed>>
TargetSends ==
    /\ pump # "off" /\ target = "open" /\ pq < Cap /\ pq' = pq + 1 /\ owed' = owed + 1
    /\ UNCHANGED <<mode, browser, clientV, serverV, inq, bq, status, wsu, wsd, tq, target>>
TargetEnds ==
    /\ pump # "off" /\ target # "gone" /\ target' \in {"ended", "gone"} \ {target}
    /\ UNCHANGED <<mode, browser, clientV, serverV, wires, owed>>
ServerFallsSilent ==
    /\ server \in {"new", "stuck", "relay"} /\ server' = "mute"
    /\ UNCHANGED <<mode, browser, clientV, pump, reset, wires, target, owed>>

-----------------------------------------------------------------------------
Main ==
    \/ ReadsRequest \/ ReadsNone \/ Dialled \/ Handshakes
    \/ StatusFails \/ StatusArrives \/ StartsRelay \/ ClientEnds
Up == UpReads \/ UpWrites \/ UpWritesInVain \/ UpStops
Down == DownReads \/ DownWrites \/ DownStops
Server == ServerConnects \/ ServerRejects \/ ServerMisreads \/ ServerUnstuck \/ ServerReads \/ ServerStops
Pump == PumpReads \/ PumpWrites \/ PumpWriteFails \/ PumpEnds
Peers ==
    \/ BrowserSends \/ BrowserReads \/ BrowserEnds
    \/ TargetReads \/ TargetSends \/ TargetEnds \/ ServerFallsSilent
GCNext == Main \/ Up \/ Down \/ Server \/ Pump \/ Peers

\* Goroutines run, and the limits of a dial, of a status over ShadowTLS and of an
\* idle session pass.  A write to a WebSocket that is gone fails in the end.
GCFairness ==
    /\ WF_GCvars(Main) /\ WF_GCvars(Up) /\ WF_GCvars(Down) /\ SF_GCvars(UpStops)
    /\ WF_GCvars(Server) /\ WF_GCvars(Pump)

GCSpec == GCInit /\ [][GCNext]_GCvars /\ GCFairness

-----------------------------------------------------------------------------
(* Properties. *)

\* The waits of a connect that the client does not limit: for a TLS handshake
\* of ShadowTLS, and for the status over a WebSocket.
WaitsForEver ==
    [](/\ server = "mute"
       /\ <<mode, client>> \in {<<"shadowtls", "tls">>, <<"websocket", "status">>})

\* A request is answered, by a success or an error, whatever the server does,
\* but for one that falls silent in one of the two waits without a limit.
RequestIsAnswered ==
    client \in {"dial", "tls", "status"} ~> reply # "none" \/ WaitsForEver

\* All that a target has sent up to the end that tcpToWs has read from it has been
\* written to a browser that stays, by the time the client gives the download
\* up, unless the server's close resets the WebSocket.  tcpToWs does not get to
\* that end ("cut") when a write to the WebSocket fails, the target is silent for
\* the idle timeout or resets, or wsToTcp ends the session: then chunks are lost.
DownloadArrives ==
    down = "done" /\ browser # "gone" /\ pump = "eof" /\ ~reset => owed = 0

TargetStopsReading == [](tq = Cap /\ target # "gone")
BrowserStopsReading == [](bq = Cap /\ browser # "gone")
\* The other side's end is not seen by a goroutine that reads from a browser.
BrowserKeepsStill == [](up = "read" /\ inq = 0 /\ browser = "open")
ServerKeepsSilent == [](server = "mute")

\* The client's connection ends when the browser has gone, if need be by way of
\* the server's idle timeout, for it waits for both of its goroutines and has no
\* limit of its own; and when the server has closed, unless the browser keeps
\* still for ever or stops reading.
ConnectionEnds ==
    /\ browser = "gone" ~> client = "done" \/ TargetStopsReading \/ ServerKeepsSilent
    /\ server = "closed" ~> client = "done" \/ BrowserKeepsStill \/ BrowserStopsReading

=============================================================================
